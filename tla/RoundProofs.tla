---------------------------- MODULE RoundProofs ----------------------------
(***************************************************************************)
(* Theorems about RoundSettlement, for any rounds, executors, leases,      *)
(* budgets and bounds that satisfy SettlementAssumption, in four parts:    *)
(*   1. its types, what each write leaves in the rows, and the fencing of  *)
(*      claims;                                                            *)
(*   2. the books: round rows, wallet ledger and the wallet's decisions    *)
(*      agree, whatever crashed, timed out or arrived late;                *)
(*   3. the session: pointer, cursor and settled rounds, from the six      *)
(*      kinds of step (StepKinds), and the refinement of RoundLifecycle;   *)
(*   4. retries and the audit trail: an APPLY is repeated only when the    *)
(*      last one is known not to have counted, the retry budget bounds the *)
(*      requests that leave, the outbox tells the status of every round.   *)
(***************************************************************************)
EXTENDS RoundSettlement, FiniteSetTheorems, TLAPS

-----------------------------------------------------------------------------
(***************************************************************************)
(* Part 1.  Types, writes and fences.                                      *)
(***************************************************************************)

-----------------------------------------------------------------------------
(* Types *)

\* The initial state has the right types.
LEMMA InitType == Init => TypeOK
<1> SUFFICES ASSUME Init PROVE TypeOK
  OBVIOUS
<1> USE SettlementAssumption DEF Init
<1>1. now \in Nat /\ session \in Session
  BY DEF Session, SessionStatus, Mark
<1>2. rounds \in [Rounds -> Round]
  BY DEF Round, NoRow, RoundStatus, Mark
<1>3. ledger \in [Rounds -> LedgerStatus] /\ wallet \in [Rounds -> Decisions]
  BY DEF LedgerStatus, Decisions
<1>4. reviews \in [Rounds -> Review]
  BY DEF Review, ReviewStatus
<1>5. outbox \in [Rounds \cup {"session"} -> Seq(Events)]
  OBVIOUS
<1>6. exec \in [Executors -> Claim]
  BY DEF Claim, NoClaim
<1>7. /\ network \in SUBSET Rounds
      /\ applySent \in [Rounds -> Nat]
      /\ lastSeen \in [Rounds -> {"NEVER", "SENT", "ABSENT"}]
  OBVIOUS
<1>8. QED
  BY <1>1, <1>2, <1>3, <1>4, <1>5, <1>6, <1>7 DEF TypeOK

\* Replacing one row by a row keeps the type of the rows.
LEMMA RowType ==
  ASSUME TypeOK, NEW r \in Rounds, NEW row \in Round,
         rounds' = [rounds EXCEPT ![r] = row]
  PROVE  rounds' \in [Rounds -> Round]
  BY DEF TypeOK

\* Closing a round row keeps the type of the rows.
LEMMA ClosedType ==
  ASSUME TypeOK, NEW r \in Rounds, NEW s \in RoundStatus, Closed(r, s)
  PROVE  rounds' \in [Rounds -> Round]
<1>1. rounds[r] \in Round
  BY DEF TypeOK
<1>2. [rounds[r] EXCEPT !.status = s, !.phase = "", !.nextAttemptAt = 0,
                        !.leaseUntil = 0] \in Round
  BY <1>1 DEF Round
<1>3. QED
  BY <1>2 DEF TypeOK, Closed

\* Appending an event keeps the type of the outbox.
LEMMA EmitType ==
  ASSUME TypeOK, NEW a \in Rounds \cup {"session"}, NEW ev \in Events,
         Emit(a, ev)
  PROVE  outbox' \in [Rounds \cup {"session"} -> Seq(Events)]
  BY DEF TypeOK, Emit

\* Ending a claim keeps the type of the claims.
LEMMA FinishType ==
  ASSUME TypeOK, NEW e \in Executors, Finish(e)
  PROVE  exec' \in [Executors -> Claim]
  BY DEF TypeOK, Finish, NoClaim, Claim

\* Answering a claim keeps the type of the claims.
LEMMA AnswerType ==
  ASSUME TypeOK, NEW e \in Executors, NEW a \in Answers, Answer(e, a)
  PROVE  exec' \in [Executors -> Claim]
<1>1. exec[e] \in Claim
  BY DEF TypeOK
<1>2. [exec[e] EXCEPT !.pc = "answered", !.answer = a] \in Claim
  BY <1>1 DEF Claim
<1>3. QED
  BY <1>2 DEF TypeOK, Answer

\* Writing a ledger status keeps the type of the ledger.
LEMMA LedgerType ==
  ASSUME TypeOK, NEW r \in Rounds, NEW s \in LedgerStatus,
         ledger' = [ledger EXCEPT ![r] = s]
  PROVE  ledger' \in [Rounds -> LedgerStatus]
  BY DEF TypeOK

\* Blocking the session keeps its type.
LEMMA BlockType ==
  ASSUME TypeOK, session' = [session EXCEPT !.status = "BLOCKED"]
  PROVE  session' \in Session
  BY DEF TypeOK, Session, SessionStatus, Mark

\* Releasing the session keeps its type.
LEMMA ReleaseType ==
  ASSUME TypeOK, Release
  PROVE  session' \in Session
  BY DEF TypeOK, Release, Session, Mark

\* Writing a review's status keeps the type of the reviews.
LEMMA ReviewType ==
  ASSUME TypeOK, NEW r \in Rounds, NEW s \in ReviewStatus,
         reviews' = [reviews EXCEPT ![r].status = s]
  PROVE  reviews' \in [Rounds -> Review]
  BY DEF TypeOK, Review

\* Every step keeps the types.
LEMMA NextType == TypeOK /\ WorkOK /\ [Next]_vars => TypeOK'
<1> SUFFICES ASSUME TypeOK, WorkOK, [Next]_vars PROVE TypeOK'
  OBVIOUS
<1> USE SettlementAssumption
<1>1. ASSUME NEW e \in Executors, NEW r \in Rounds, NEW lease \in Nat,
             claimWalletLocked(e, r, lease)
      PROVE  TypeOK'
  <2>1. rounds[r] \in Round /\ now \in Nat
    BY DEF TypeOK
  <2>2. PICK due \in Nat, applies \in Nat, lookups \in Nat, spent \in Nat :
          /\ rounds' = [rounds EXCEPT ![r] =
               [@ EXCEPT !.status = "WALLET_PENDING", !.phase = "LOOKUP",
                         !.leaseUntil = due, !.nextAttemptAt = due,
                         !.applyAttempts = applies,
                         !.lookupAttempts = lookups]]
          /\ exec' = [exec EXCEPT ![e] =
               [pc |-> IF spent > MaxWalletAttempts THEN "exhausted"
                                                    ELSE "claimed",
                round |-> r, leaseUntil |-> due,
                action |-> rounds[r].phase, answer |-> ""]]
    <3>1. rounds[r].applyAttempts \in Nat /\ rounds[r].lookupAttempts \in Nat
      BY <2>1 DEF Round
    <3>2. /\ now + lease \in Nat
          /\ rounds[r].applyAttempts
               + (IF rounds[r].phase = "APPLY" THEN 1 ELSE 0) \in Nat
          /\ rounds[r].lookupAttempts
               + (IF rounds[r].phase = "APPLY" THEN 0 ELSE 1) \in Nat
      BY <2>1, <3>1
    <3>3. QED
      BY <1>1, <3>2, Zenon DEF claimWalletLocked, ClaimedPhase
  <2>3. rounds' \in [Rounds -> Round] /\ exec' \in [Executors -> Claim]
    <3>1. [rounds[r] EXCEPT !.status = "WALLET_PENDING", !.phase = "LOOKUP",
                            !.leaseUntil = due, !.nextAttemptAt = due,
                            !.applyAttempts = applies,
                            !.lookupAttempts = lookups] \in Round
      BY <2>1 DEF Round, RoundStatus, Actions
    <3>2. rounds[r].phase \in Actions
      BY <1>1 DEF claimWalletLocked
    <3>3. ASSUME NEW p \in {"exhausted", "claimed"}
          PROVE  [pc |-> p, round |-> r, leaseUntil |-> due,
                  action |-> rounds[r].phase, answer |-> ""] \in Claim
      BY <3>2 DEF Claim
    <3>4. rounds' \in [Rounds -> Round]
      BY <2>2, <3>1 DEF TypeOK
    <3>5. exec' \in [Executors -> Claim]
      BY <2>2, <3>3 DEF TypeOK
    <3>6. QED
      BY <3>4, <3>5
  <2>4. outbox' \in [Rounds \cup {"session"} -> Seq(Events)]
    <3>1. "WALLET_CLAIMED" \in Events
      BY DEF Events
    <3>2. CASE Emit(r, "WALLET_CLAIMED")
      BY <3>1, <3>2, EmitType
    <3>3. CASE UNCHANGED outbox
      BY <3>3 DEF TypeOK
    <3>4. QED
      BY <1>1, <3>2, <3>3 DEF claimWalletLocked, ClaimEvent
  <2>5. QED
    BY <1>1, <2>3, <2>4 DEF claimWalletLocked, TypeOK, history
<1>2. ASSUME NEW e \in Executors,
             \/ RefuseClaim(e) \/ FailBeforeSend(e)
             \/ ReceiveSubmitAnswer(e) \/ Resolve(e)
      PROVE  TypeOK'
  <2>1. \E a \in Answers : Answer(e, a)
    BY <1>2 DEF RefuseClaim, FailBeforeSend, ReceiveSubmitAnswer, Resolve,
       submitRoundAnswers, resolveAnswers, Answers
  <2>2. exec' \in [Executors -> Claim]
    BY <2>1, AnswerType
  <2>3. exec[e].round \in Rounds
    BY <1>2 DEF WorkOK, Working, RefuseClaim, FailBeforeSend,
       ReceiveSubmitAnswer, Resolve
  <2>4. lastSeen' \in [Rounds -> {"NEVER", "SENT", "ABSENT"}]
    BY <1>2, <2>3 DEF TypeOK, RefuseClaim, FailBeforeSend,
       ReceiveSubmitAnswer, Resolve, history
  <2>5. QED
    BY <1>2, <2>2, <2>4 DEF TypeOK, RefuseClaim, FailBeforeSend,
       ReceiveSubmitAnswer, Resolve, store, history
<1>3. ASSUME NEW e \in Executors, SubmitRound(e)
      PROVE  TypeOK'
  <2>1. exec[e].round \in Rounds /\ exec[e] \in Claim
    BY <1>3 DEF WorkOK, Working, SubmitRound, TypeOK
  <2>2. [exec[e] EXCEPT !.pc = "sent"] \in Claim
    BY <2>1 DEF Claim
  <2>3. exec' \in [Executors -> Claim]
    BY <1>3, <2>2 DEF SubmitRound, TypeOK
  <2>4. applySent' \in [Rounds -> Nat]
    <3>1. applySent[exec[e].round] + 1 \in Nat
      BY <2>1 DEF TypeOK
    <3>2. QED
      BY <1>3, <2>1, <3>1, Zenon DEF SubmitRound, TypeOK
  <2>5. lastSeen' \in [Rounds -> {"NEVER", "SENT", "ABSENT"}]
    BY <1>3, <2>1 DEF SubmitRound, TypeOK
  <2>6. network' \in SUBSET Rounds
    BY <1>3, <2>1 DEF SubmitRound, TypeOK
  <2>7. QED
    BY <1>3, <2>3, <2>4, <2>5, <2>6 DEF SubmitRound, TypeOK, store
<1>4. ASSUME NEW e \in Executors,
             CommitClaim(e) \/ RejectClaim(e) \/ MarkClaimManualReview(e)
      PROVE  TypeOK'
  <2>1. exec[e].round \in Rounds
    BY <1>4 DEF WorkOK, Working, CommitClaim, RejectClaim,
       MarkClaimManualReview
  <2>2. exec' \in [Executors -> Claim]
    BY <1>4, FinishType DEF CommitClaim, RejectClaim, MarkClaimManualReview
  <2>3. CASE CommitClaim(e)
    <3>1. rounds' \in [Rounds -> Round]
      BY <2>1, <2>3, ClosedType DEF CommitClaim, RoundStatus
    <3>2. ledger' \in [Rounds -> LedgerStatus]
      BY <2>1, <2>3, LedgerType DEF CommitClaim, LedgerStatus
    <3>3. outbox' \in [Rounds \cup {"session"} -> Seq(Events)]
      BY <2>1, <2>3, EmitType DEF CommitClaim, Events
    <3>4. session' \in Session
      <4>1. rounds[exec[e].round] \in Round /\ session \in Session
        BY <2>1 DEF TypeOK
      <4>2. /\ rounds[exec[e].round].sequence \in Nat
            /\ rounds[exec[e].round].startRevision \in Nat
        BY <4>1 DEF Round
      <4>3. rounds[exec[e].round].startRevision + 1 \in Nat
        BY <4>2
      <4>4. QED
        BY <2>3, <4>1, <4>2, <4>3 DEF CommitClaim, Advance, Session
    <3>5. QED
      BY <2>2, <2>3, <3>1, <3>2, <3>3, <3>4 DEF CommitClaim, TypeOK, history
  <2>4. CASE RejectClaim(e)
    <3>1. rounds' \in [Rounds -> Round]
      BY <2>1, <2>4, ClosedType DEF RejectClaim, RoundStatus
    <3>2. ledger' \in [Rounds -> LedgerStatus]
      BY <2>1, <2>4, LedgerType DEF RejectClaim, LedgerStatus
    <3>3. outbox' \in [Rounds \cup {"session"} -> Seq(Events)]
      BY <2>1, <2>4, EmitType DEF RejectClaim, Events
    <3>4. session' \in Session
      BY <2>4, ReleaseType DEF RejectClaim
    <3>5. QED
      BY <2>2, <2>4, <3>1, <3>2, <3>3, <3>4 DEF RejectClaim, TypeOK, history
  <2>5. CASE MarkClaimManualReview(e)
    <3>1. rounds' \in [Rounds -> Round]
      BY <2>1, <2>5, ClosedType DEF MarkClaimManualReview, RoundStatus
    <3>2. ledger' \in [Rounds -> LedgerStatus]
      BY <2>1, <2>5, LedgerType DEF MarkClaimManualReview, LedgerStatus
    <3>3. outbox' \in [Rounds \cup {"session"} -> Seq(Events)]
      BY <2>1, <2>5, EmitType DEF MarkClaimManualReview, Events
    <3>4. session' \in Session
      BY <2>5, BlockType DEF MarkClaimManualReview
    <3>5. QED
      BY <2>2, <2>5, <3>1, <3>2, <3>3, <3>4
      DEF MarkClaimManualReview, TypeOK, history
  <2>6. QED
    BY <1>4, <2>3, <2>4, <2>5
<1>5. ASSUME NEW e \in Executors, ScheduleWalletRecovery(e)
      PROVE  TypeOK'
  <2>1. /\ exec[e].round \in Rounds
        /\ exec[e].action \in Actions
        /\ rounds[exec[e].round] \in Round
    BY <1>5 DEF WorkOK, Working, ScheduleWalletRecovery, TypeOK
  <2>2. exec' \in [Executors -> Claim]
    BY <1>5, FinishType DEF ScheduleWalletRecovery
  <2>3. rounds' \in [Rounds -> Round]
    <3>1. NextAction(e) \in Actions
      BY <2>1 DEF NextAction, Actions
    <3>2. rounds[exec[e].round].applyAttempts \in Nat
      BY <2>1 DEF Round
    <3>3. MinimumDelay(e) \in Nat /\ now \in Nat
      BY DEF MinimumDelay, TypeOK
    <3>4. ApplyNotSent(e) => rounds[exec[e].round].applyAttempts > 0
      BY <1>5 DEF ScheduleWalletRecovery
    <3>5. rounds[exec[e].round].applyAttempts - Refund(e) \in Nat
      BY <3>2, <3>4 DEF Refund
    <3>6. \A jitter \in 0..MaximumBackoff : now + Delay(e, jitter) \in Nat
      BY <3>3 DEF Delay
    <3>7. ASSUME NEW due \in Nat, NEW applies \in Nat
          PROVE  [rounds[exec[e].round] EXCEPT !.phase = NextAction(e),
                    !.nextAttemptAt = due, !.leaseUntil = 0,
                    !.applyAttempts = applies] \in Round
      BY <2>1, <3>1 DEF Round
    <3>8. PICK jitter \in 0..MaximumBackoff :
            rounds' = [rounds EXCEPT ![exec[e].round] =
              [@ EXCEPT !.phase = NextAction(e),
                        !.nextAttemptAt = now + Delay(e, jitter),
                        !.leaseUntil = 0,
                        !.applyAttempts =
                          rounds[exec[e].round].applyAttempts - Refund(e)]]
      BY <1>5, Zenon DEF ScheduleWalletRecovery
    <3>9. [rounds[exec[e].round] EXCEPT !.phase = NextAction(e),
             !.nextAttemptAt = now + Delay(e, jitter), !.leaseUntil = 0,
             !.applyAttempts =
               rounds[exec[e].round].applyAttempts - Refund(e)] \in Round
      BY <3>5, <3>6, <3>7, Zenon
    <3>10. QED
      BY <2>1, <3>8, <3>9, RowType
  <2>4. QED
    BY <1>5, <2>2, <2>3 DEF ScheduleWalletRecovery, TypeOK, history
<1>6. ASSUME NEW e \in Executors, resolveStaleClaim(e) \/ Abandon(e)
      PROVE  TypeOK'
  <2>1. exec' \in [Executors -> Claim]
    BY <1>6, FinishType DEF resolveStaleClaim, Abandon
  <2>2. QED
    BY <1>6, <2>1 DEF resolveStaleClaim, Abandon, TypeOK, store, history
<1>7. ASSUME NEW r \in Rounds, PrepareRound(r)
      PROVE  TypeOK'
  <2>1. now \in Nat /\ session \in Session
    BY DEF TypeOK
  <2>2. rounds' \in [Rounds -> Round]
    <3>1. session.revision \in Nat /\ session.sequence \in Nat
      BY <2>1 DEF Session
    <3>2. session.sequence + 1 \in Nat
      BY <3>1
    <3>3. PICK s \in {"RISK_PENDING", "PREPARED"}, p \in {"", "APPLY"},
               due \in Nat, revision \in Nat, sequence \in Nat :
            rounds' = [rounds EXCEPT ![r] =
              [NoRow EXCEPT !.status = s, !.phase = p, !.nextAttemptAt = due,
                            !.startRevision = revision,
                            !.sequence = sequence]]
      BY <1>7, <2>1, <3>1, <3>2, Zenon DEF PrepareRound, PreparedStatus
    <3>4. [NoRow EXCEPT !.status = s, !.phase = p, !.nextAttemptAt = due,
                        !.startRevision = revision,
                        !.sequence = sequence] \in Round
      BY DEF NoRow, Round, RoundStatus, Actions, Mark
    <3>5. QED
      BY <3>3, <3>4 DEF TypeOK
  <2>3. reviews' \in [Rounds -> Review]
    BY <1>7, <2>1 DEF PrepareRound, TypeOK, Review, ReviewStatus
  <2>4. outbox' \in [Rounds \cup {"session"} -> Seq(Events)]
    BY <1>7, EmitType DEF PrepareRound, Events
  <2>5. ledger' \in [Rounds -> LedgerStatus]
    BY <1>7, LedgerType DEF PrepareRound, LedgerStatus
  <2>6. session' \in Session
    BY <1>7, <2>1 DEF PrepareRound, Session
  <2>7. QED
    BY <1>7, <2>2, <2>3, <2>4, <2>5, <2>6 DEF PrepareRound, TypeOK, history
<1>8. ASSUME NEW r \in Rounds, AcknowledgeResultDelivery(r)
      PROVE  TypeOK'
  <2>1. rounds' \in [Rounds -> Round]
    <3>1. rounds[r] \in Round
      BY DEF TypeOK
    <3>2. [rounds[r] EXCEPT !.acknowledgedAt = "SET"] \in Round
      BY <3>1 DEF Round, Mark
    <3>3. QED
      BY <1>8, <3>2 DEF AcknowledgeResultDelivery, TypeOK
  <2>2. QED
    BY <1>8, <2>1 DEF AcknowledgeResultDelivery, TypeOK, history
<1>9. ASSUME NEW r \in Rounds, DecideRisk(r)
      PROVE  TypeOK'
  <2>1. rounds' \in [Rounds -> Round]
    <3>1. rounds[r] \in Round /\ now \in Nat
      BY DEF TypeOK
    <3>2. [rounds[r] EXCEPT !.status = "PREPARED", !.phase = "APPLY",
                            !.nextAttemptAt = now] \in Round
      BY <3>1 DEF Round, RoundStatus, Actions
    <3>3. CASE Closed(r, "REJECTED")
      BY <3>3, ClosedType DEF RoundStatus
    <3>4. CASE Approved(r)
      BY <3>2, <3>4 DEF TypeOK, Approved
    <3>5. QED
      BY <1>9, <3>3, <3>4 DEF DecideRisk
  <2>2. reviews' \in [Rounds -> Review]
    BY <1>9, ReviewType DEF DecideRisk, ReviewStatus
  <2>3. outbox' \in [Rounds \cup {"session"} -> Seq(Events)]
    BY <1>9, EmitType DEF DecideRisk, Events
  <2>4. ledger' \in [Rounds -> LedgerStatus]
    BY <1>9, LedgerType DEF DecideRisk, LedgerStatus, TypeOK
  <2>5. session' \in Session
    BY <1>9, ReleaseType DEF DecideRisk, TypeOK
  <2>6. QED
    BY <1>9, <2>1, <2>2, <2>3, <2>4, <2>5 DEF DecideRisk, TypeOK, history
<1>10. ASSUME NEW r \in Rounds, expireRiskLocked(r)
       PROVE  TypeOK'
  <2>1. rounds' \in [Rounds -> Round]
    BY <1>10, ClosedType DEF expireRiskLocked, RoundStatus
  <2>2. reviews' \in [Rounds -> Review]
    BY <1>10, ReviewType DEF expireRiskLocked, ReviewStatus
  <2>3. outbox' \in [Rounds \cup {"session"} -> Seq(Events)]
    BY <1>10, EmitType DEF expireRiskLocked, Events
  <2>4. ledger' \in [Rounds -> LedgerStatus]
    BY <1>10, LedgerType DEF expireRiskLocked, LedgerStatus
  <2>5. session' \in Session
    BY <1>10, ReleaseType, BlockType DEF expireRiskLocked
  <2>6. QED
    BY <1>10, <2>1, <2>2, <2>3, <2>4, <2>5
    DEF expireRiskLocked, TypeOK, history
<1>11. ASSUME NEW r \in Rounds, quarantineCorruptRound(r)
       PROVE  TypeOK'
  <2>1. rounds' \in [Rounds -> Round]
    <3>1. rounds[r] \in Round
      BY DEF TypeOK
    <3>2. QuarantinedStatus(r) \in RoundStatus
      BY <3>1 DEF QuarantinedStatus, Round, RoundStatus
    <3>3. PICK s \in RoundStatus :
            rounds' = [rounds EXCEPT ![r] =
              [rounds[r] EXCEPT !.status = s, !.phase = "",
                                !.nextAttemptAt = 0, !.leaseUntil = 0,
                                !.quarantinedAt = "SET"]]
      BY <1>11, <3>2, Zenon DEF quarantineCorruptRound
    <3>4. [rounds[r] EXCEPT !.status = s, !.phase = "", !.nextAttemptAt = 0,
                            !.leaseUntil = 0, !.quarantinedAt = "SET"] \in Round
      BY <3>1 DEF Round, Mark
    <3>5. QED
      BY <3>3, <3>4 DEF TypeOK
  <2>2. outbox' \in [Rounds \cup {"session"} -> Seq(Events)]
    BY <1>11, EmitType DEF quarantineCorruptRound, Events
  <2>3. ledger' \in [Rounds -> LedgerStatus]
    <3>1. QuarantinedLedger(r) \in LedgerStatus
      BY DEF QuarantinedLedger, LedgerStatus, TypeOK
    <3>2. QED
      BY <1>11, <3>1, LedgerType DEF quarantineCorruptRound
  <2>4. session' \in Session
    BY <1>11, BlockType DEF quarantineCorruptRound
  <2>5. QED
    BY <1>11, <2>1, <2>2, <2>3, <2>4
    DEF quarantineCorruptRound, TypeOK, history
<1>12. ASSUME NEW r \in Rounds, Apply(r) \/ Rollback(r)
       PROVE  TypeOK'
  BY <1>12 DEF TypeOK, Apply, Rollback, Decisions, store, history
<1>13. CASE quarantineCorruptSession
  <2>1. session' \in Session
    BY <1>13 DEF TypeOK, quarantineCorruptSession, Session, SessionStatus, Mark
  <2>2. outbox' \in [Rounds \cup {"session"} -> Seq(Events)]
    BY <1>13, EmitType DEF quarantineCorruptSession, Events
  <2>3. QED
    BY <1>13, <2>1, <2>2 DEF TypeOK, quarantineCorruptSession, history
<1>14. CASE Tick
  BY <1>14 DEF TypeOK, Tick, store, history
<1>15. CASE UNCHANGED vars
  BY <1>15 DEF TypeOK, vars, store, history
<1>16. QED
  BY <1>1, <1>2, <1>3, <1>4, <1>5, <1>6, <1>7, <1>8, <1>9, <1>10, <1>11,
     <1>12, <1>13, <1>14, <1>15
  DEF Next, ExecutorStep, RoundStep, ClaimWallet, ClaimRecoverableRounds

-----------------------------------------------------------------------------
(* What each kind of write leaves in the rows, field by field *)

\* Closing a row changes its status, clears its lease and keeps its identity.
LEMMA ClosedView ==
  ASSUME TypeOK, NEW r \in Rounds, NEW s, Closed(r, s)
  PROVE  /\ \A q \in Rounds \ {r} : rounds'[q] = rounds[q]
         /\ rounds'[r].status = s
         /\ rounds'[r].leaseUntil = 0
         /\ rounds'[r].sequence = rounds[r].sequence
         /\ rounds'[r].startRevision = rounds[r].startRevision
         /\ rounds'[r].acknowledgedAt = rounds[r].acknowledgedAt
         /\ rounds'[r].quarantinedAt = rounds[r].quarantinedAt
<1>1. rounds[r] \in Round
  BY DEF TypeOK
<1>2. rounds'[r] = [rounds[r] EXCEPT !.status = s, !.phase = "",
                                     !.nextAttemptAt = 0, !.leaseUntil = 0]
  BY DEF TypeOK, Closed
<1>3. \A q \in Rounds \ {r} : rounds'[q] = rounds[q]
  BY DEF TypeOK, Closed
<1>4. QED
  BY <1>1, <1>2, <1>3 DEF Round

\* Finishing a claim makes its executor idle and leaves the others alone.
LEMMA FinishView ==
  ASSUME TypeOK, NEW e \in Executors, Finish(e)
  PROVE  /\ exec'[e].pc = "idle"
         /\ \A f \in Executors \ {e} : exec'[f] = exec[f]
  BY DEF TypeOK, Finish, NoClaim

\* An answer changes the stage and the answer of one claim only.
LEMMA AnswerView ==
  ASSUME TypeOK, NEW e \in Executors, NEW a, Answer(e, a)
  PROVE  /\ \A f \in Executors \ {e} : exec'[f] = exec[f]
         /\ exec'[e].pc = "answered"
         /\ exec'[e].answer = a
         /\ exec'[e].round = exec[e].round
         /\ exec'[e].leaseUntil = exec[e].leaseUntil
         /\ exec'[e].action = exec[e].action
<1>1. exec[e] \in Claim
  BY DEF TypeOK
<1>2. exec'[e] = [exec[e] EXCEPT !.pc = "answered", !.answer = a]
  BY DEF TypeOK, Answer
<1>3. \A f \in Executors \ {e} : exec'[f] = exec[f]
  BY DEF TypeOK, Answer
<1>4. QED
  BY <1>1, <1>2, <1>3 DEF Claim

\* Sending a request changes the stage of one claim only.
LEMMA SendView ==
  ASSUME TypeOK, NEW e \in Executors, SubmitRound(e)
  PROVE  /\ \A f \in Executors \ {e} : exec'[f] = exec[f]
         /\ exec'[e].pc = "sent"
         /\ exec'[e].round = exec[e].round
         /\ exec'[e].leaseUntil = exec[e].leaseUntil
         /\ exec'[e].action = exec[e].action
<1>1. exec[e] \in Claim
  BY DEF TypeOK
<1>2. exec'[e] = [exec[e] EXCEPT !.pc = "sent"]
  BY DEF TypeOK, SubmitRound
<1>3. \A f \in Executors \ {e} : exec'[f] = exec[f]
  BY DEF TypeOK, SubmitRound
<1>4. QED
  BY <1>1, <1>2, <1>3 DEF Claim

\* A claim and the row it was taken from carry the same new deadline.
LEMMA ClaimView ==
  ASSUME TypeOK, NEW e \in Executors, NEW r \in Rounds, NEW lease \in Nat,
         claimWalletLocked(e, r, lease)
  PROVE  /\ \A q \in Rounds \ {r} : rounds'[q] = rounds[q]
         /\ rounds'[r].status = "WALLET_PENDING"
         /\ rounds'[r].leaseUntil = now + lease
         /\ rounds'[r].sequence = rounds[r].sequence
         /\ rounds'[r].startRevision = rounds[r].startRevision
         /\ rounds'[r].acknowledgedAt = rounds[r].acknowledgedAt
         /\ rounds'[r].quarantinedAt = rounds[r].quarantinedAt
         /\ \A f \in Executors \ {e} : exec'[f] = exec[f]
         /\ exec'[e].pc \in {"claimed", "exhausted"}
         /\ exec'[e].round = r
         /\ exec'[e].leaseUntil = now + lease
         /\ exec'[e].action \in Actions
<1>1. rounds[r] \in Round /\ exec[e] \in Claim
  BY DEF TypeOK
<1>2. PICK until, applies, lookups, p :
        /\ p \in {"claimed", "exhausted"}
        /\ until = now + lease
        /\ rounds' = [rounds EXCEPT ![r] =
             [@ EXCEPT !.status = "WALLET_PENDING", !.phase = "LOOKUP",
                       !.leaseUntil = until, !.nextAttemptAt = until,
                       !.applyAttempts = applies,
                       !.lookupAttempts = lookups]]
        /\ exec' = [exec EXCEPT ![e] =
             [pc |-> p, round |-> r, leaseUntil |-> until,
              action |-> rounds[r].phase, answer |-> ""]]
  BY Zenon DEF claimWalletLocked, ClaimedPhase
<1>3. /\ \A q \in Rounds \ {r} : rounds'[q] = rounds[q]
      /\ rounds'[r] =
           [rounds[r] EXCEPT !.status = "WALLET_PENDING", !.phase = "LOOKUP",
                             !.leaseUntil = until, !.nextAttemptAt = until,
                             !.applyAttempts = applies,
                             !.lookupAttempts = lookups]
  BY <1>2 DEF TypeOK
<1>4. /\ rounds'[r].status = "WALLET_PENDING"
      /\ rounds'[r].leaseUntil = until
      /\ rounds'[r].sequence = rounds[r].sequence
      /\ rounds'[r].startRevision = rounds[r].startRevision
      /\ rounds'[r].acknowledgedAt = rounds[r].acknowledgedAt
      /\ rounds'[r].quarantinedAt = rounds[r].quarantinedAt
  BY <1>1, <1>3 DEF Round
<1>5. /\ \A f \in Executors \ {e} : exec'[f] = exec[f]
      /\ exec'[e] =
           [pc |-> p, round |-> r, leaseUntil |-> until,
            action |-> rounds[r].phase, answer |-> ""]
  BY <1>2 DEF TypeOK
<1>6. ASSUME NEW claim, NEW a,
             claim = [pc |-> p, round |-> r, leaseUntil |-> until,
                      action |-> a, answer |-> ""]
      PROVE  /\ claim.pc = p
             /\ claim.round = r
             /\ claim.leaseUntil = until
             /\ claim.action = a
  BY <1>6
<1>7. /\ exec'[e].pc = p
      /\ exec'[e].round = r
      /\ exec'[e].leaseUntil = until
      /\ exec'[e].action = rounds[r].phase
  BY <1>5, <1>6, Zenon
<1>8. rounds[r].phase \in Actions
  BY Zenon DEF claimWalletLocked
<1>9. until = now + lease /\ p \in {"claimed", "exhausted"}
  BY <1>2, Zenon
<1>10. QED
  BY <1>3, <1>4, <1>5, <1>7, <1>8, <1>9, Zenon

\* Scheduling a recovery clears the lease and keeps the status of the row.
LEMMA ScheduleView ==
  ASSUME TypeOK, NEW e \in Executors, exec[e].round \in Rounds,
         ScheduleWalletRecovery(e)
  PROVE  LET r == exec[e].round IN
         /\ \A q \in Rounds \ {r} : rounds'[q] = rounds[q]
         /\ rounds'[r].status = rounds[r].status
         /\ rounds'[r].leaseUntil = 0
         /\ rounds'[r].sequence = rounds[r].sequence
         /\ rounds'[r].startRevision = rounds[r].startRevision
         /\ rounds'[r].acknowledgedAt = rounds[r].acknowledgedAt
         /\ rounds'[r].quarantinedAt = rounds[r].quarantinedAt
<1> DEFINE r == exec[e].round
<1>1. rounds[r] \in Round
  BY DEF TypeOK
<1>2. PICK jitter :
        rounds' = [rounds EXCEPT ![exec[e].round] =
          [@ EXCEPT !.phase = NextAction(e),
                    !.nextAttemptAt = now + Delay(e, jitter),
                    !.leaseUntil = 0,
                    !.applyAttempts = rounds[exec[e].round].applyAttempts
                                        - Refund(e)]]
  BY Zenon DEF ScheduleWalletRecovery
<1>3. \E due, applies :
        /\ \A q \in Rounds \ {r} : rounds'[q] = rounds[q]
        /\ rounds'[r] =
             [rounds[r] EXCEPT !.phase = NextAction(e), !.nextAttemptAt = due,
                               !.leaseUntil = 0, !.applyAttempts = applies]
  BY <1>2 DEF TypeOK
<1>4. QED
  BY <1>1, <1>3 DEF Round

\* A prepared row starts from the session's cursor and the session waits for it.
LEMMA PrepareView ==
  ASSUME TypeOK, NEW r \in Rounds, PrepareRound(r)
  PROVE  /\ \A q \in Rounds \ {r} : rounds'[q] = rounds[q]
         /\ rounds'[r].status = PreparedStatus(r)
         /\ rounds'[r].leaseUntil = 0
         /\ rounds'[r].sequence = session.sequence + 1
         /\ rounds'[r].startRevision = session.revision
         /\ rounds'[r].acknowledgedAt = "NULL"
         /\ rounds'[r].quarantinedAt = "NULL"
         /\ session'.pending = r
         /\ session'.status = session.status
         /\ session'.revision = session.revision
         /\ session'.sequence = session.sequence
<1>1. PICK s, p, due, sequence :
        /\ s = PreparedStatus(r)
        /\ sequence = session.sequence + 1
        /\ rounds' = [rounds EXCEPT ![r] =
             [NoRow EXCEPT !.status = s, !.phase = p, !.nextAttemptAt = due,
                           !.startRevision = session.revision,
                           !.sequence = sequence]]
  BY Zenon DEF PrepareRound
<1>2. /\ \A q \in Rounds \ {r} : rounds'[q] = rounds[q]
      /\ rounds'[r] =
           [NoRow EXCEPT !.status = s, !.phase = p, !.nextAttemptAt = due,
                         !.startRevision = session.revision,
                         !.sequence = sequence]
  BY <1>1 DEF TypeOK
<1>3. /\ rounds'[r].status = s
      /\ rounds'[r].leaseUntil = 0
      /\ rounds'[r].sequence = sequence
      /\ rounds'[r].startRevision = session.revision
      /\ rounds'[r].acknowledgedAt = "NULL"
      /\ rounds'[r].quarantinedAt = "NULL"
  BY <1>2 DEF NoRow
<1>4. /\ session'.pending = r
      /\ session'.status = session.status
      /\ session'.revision = session.revision
      /\ session'.sequence = session.sequence
  BY DEF PrepareRound, TypeOK, Session
<1>5. QED
  BY <1>1, <1>2, <1>3, <1>4

\* An acknowledgement sets one mark of one row.
LEMMA AcknowledgeView ==
  ASSUME TypeOK, NEW r \in Rounds, AcknowledgeResultDelivery(r)
  PROVE  /\ \A q \in Rounds \ {r} : rounds'[q] = rounds[q]
         /\ rounds'[r].status = rounds[r].status
         /\ rounds'[r].leaseUntil = rounds[r].leaseUntil
         /\ rounds'[r].sequence = rounds[r].sequence
         /\ rounds'[r].startRevision = rounds[r].startRevision
         /\ rounds'[r].acknowledgedAt = "SET"
         /\ rounds'[r].quarantinedAt = rounds[r].quarantinedAt
<1>1. rounds[r] \in Round
  BY DEF TypeOK
<1>2. /\ \A q \in Rounds \ {r} : rounds'[q] = rounds[q]
      /\ rounds'[r] = [rounds[r] EXCEPT !.acknowledgedAt = "SET"]
  BY DEF TypeOK, AcknowledgeResultDelivery
<1>3. QED
  BY <1>1, <1>2 DEF Round

\* An approval opens one row and gives it no lease.
LEMMA ApproveView ==
  ASSUME TypeOK, NEW r \in Rounds, Approved(r)
  PROVE  /\ \A q \in Rounds \ {r} : rounds'[q] = rounds[q]
         /\ rounds'[r].status = "PREPARED"
         /\ rounds'[r].leaseUntil = rounds[r].leaseUntil
         /\ rounds'[r].sequence = rounds[r].sequence
         /\ rounds'[r].startRevision = rounds[r].startRevision
         /\ rounds'[r].acknowledgedAt = rounds[r].acknowledgedAt
         /\ rounds'[r].quarantinedAt = rounds[r].quarantinedAt
<1>1. rounds[r] \in Round
  BY DEF TypeOK
<1>2. PICK due :
        /\ \A q \in Rounds \ {r} : rounds'[q] = rounds[q]
        /\ rounds'[r] = [rounds[r] EXCEPT !.status = "PREPARED",
                                          !.phase = "APPLY",
                                          !.nextAttemptAt = due]
  BY DEF TypeOK, Approved
<1>3. QED
  BY <1>1, <1>2 DEF Round

\* A quarantine takes the lease away and marks the row.
LEMMA QuarantineView ==
  ASSUME TypeOK, NEW r \in Rounds, quarantineCorruptRound(r)
  PROVE  /\ \A q \in Rounds \ {r} : rounds'[q] = rounds[q]
         /\ rounds'[r].status = QuarantinedStatus(r)
         /\ rounds'[r].leaseUntil = 0
         /\ rounds'[r].sequence = rounds[r].sequence
         /\ rounds'[r].startRevision = rounds[r].startRevision
         /\ rounds'[r].acknowledgedAt = rounds[r].acknowledgedAt
         /\ rounds'[r].quarantinedAt = "SET"
<1>1. rounds[r] \in Round
  BY DEF TypeOK
<1>2. /\ \A q \in Rounds \ {r} : rounds'[q] = rounds[q]
      /\ rounds'[r] =
           [rounds[r] EXCEPT !.status = QuarantinedStatus(r), !.phase = "",
                             !.nextAttemptAt = 0, !.leaseUntil = 0,
                             !.quarantinedAt = "SET"]
  BY DEF TypeOK, quarantineCorruptRound
<1>3. QED
  BY <1>1, <1>2 DEF Round

\* Blocking the session moves neither its pointer nor its cursor.
LEMMA BlockView ==
  ASSUME TypeOK, session' = [session EXCEPT !.status = "BLOCKED"]
  PROVE  /\ session'.status = "BLOCKED"
         /\ session'.pending = session.pending
         /\ session'.revision = session.revision
         /\ session'.sequence = session.sequence
  BY DEF TypeOK, Session

\* Releasing the session clears its pointer and keeps its cursor.
LEMMA ReleaseView ==
  ASSUME TypeOK, Release
  PROVE  /\ session'.status = session.status
         /\ session'.pending = NoRound
         /\ session'.revision = session.revision
         /\ session'.sequence = session.sequence
  BY DEF TypeOK, Session, Release

\* A commit clears the pointer and takes the cursor from the round.
LEMMA AdvanceView ==
  ASSUME TypeOK, NEW r \in Rounds, Advance(r)
  PROVE  /\ session'.status = session.status
         /\ session'.pending = NoRound
         /\ session'.revision = rounds[r].startRevision + 1
         /\ session'.sequence = rounds[r].sequence
<1>1. PICK revision : /\ revision = rounds[r].startRevision + 1
                      /\ session' = [session EXCEPT !.pending = NoRound,
                                       !.sequence = rounds[r].sequence,
                                       !.revision = revision]
  BY Zenon DEF Advance
<1>2. QED
  BY <1>1 DEF TypeOK, Session

-----------------------------------------------------------------------------
(* Claims in hand *)

\* Nobody works in the initial state.
LEMMA InitIdle == Init => \A e \in Executors : ~Working(e)
<1>1. NoClaim.pc = "idle"
  BY DEF NoClaim
<1>2. Init => \A e \in Executors : exec[e] = NoClaim
  BY DEF Init
<1>3. QED
  BY <1>1, <1>2 DEF Working

\* There is no claim in hand in the initial state.
LEMMA InitWork == Init => WorkOK
  BY InitIdle DEF WorkOK

\* Every step keeps the claims in hand on rounds that were prepared and passed
\* their risk review.
LEMMA NextWork == TypeOK /\ WorkOK /\ [Next]_vars => WorkOK'
<1> SUFFICES ASSUME TypeOK, WorkOK, [Next]_vars PROVE WorkOK'
  OBVIOUS
<1> USE SettlementAssumption
<1>1. ASSUME NEW e \in Executors, NEW r \in Rounds, NEW lease \in Nat \ {0},
             claimWalletLocked(e, r, lease)
      PROVE  WorkOK'
  <2>1. now + lease # 0 /\ lease \in Nat
    BY DEF TypeOK
  <2>2. QED
    BY <1>1, <2>1, ClaimView DEF WorkOK, Working
<1>2. ASSUME NEW e \in Executors,
             \/ RefuseClaim(e) \/ FailBeforeSend(e)
             \/ ReceiveSubmitAnswer(e) \/ Resolve(e)
      PROVE  WorkOK'
  <2>1. Working(e) /\ UNCHANGED rounds /\ \E a : Answer(e, a)
    BY <1>2 DEF RefuseClaim, FailBeforeSend, ReceiveSubmitAnswer, Resolve,
       Working, store
  <2>2. QED
    BY <2>1, AnswerView DEF WorkOK, Working
<1>3. ASSUME NEW e \in Executors, SubmitRound(e)
      PROVE  WorkOK'
  <2>1. Working(e) /\ UNCHANGED rounds
    BY <1>3 DEF SubmitRound, Working, store
  <2>2. QED
    BY <1>3, <2>1, SendView DEF WorkOK, Working
<1>4. ASSUME NEW e \in Executors,
             CommitClaim(e) \/ RejectClaim(e) \/ MarkClaimManualReview(e)
      PROVE  WorkOK'
  <2>1. /\ Working(e)
        /\ Finish(e)
        /\ \E s \in {"COMMITTED", "REJECTED", "MANUAL_REVIEW"} :
             Closed(exec[e].round, s)
    BY <1>4 DEF CommitClaim, RejectClaim, MarkClaimManualReview, Working
  <2>2. exec[e].round \in Rounds
    BY <2>1 DEF WorkOK
  <2>3. QED
    BY <2>1, <2>2, FinishView, ClosedView DEF WorkOK, Working
<1>5. ASSUME NEW e \in Executors, ScheduleWalletRecovery(e)
      PROVE  WorkOK'
  <2>1. Working(e) /\ Finish(e)
    BY <1>5 DEF ScheduleWalletRecovery, Working
  <2>2. exec[e].round \in Rounds
    BY <2>1 DEF WorkOK
  <2>3. QED
    BY <1>5, <2>1, <2>2, FinishView, ScheduleView DEF WorkOK, Working
<1>6. ASSUME NEW e \in Executors, resolveStaleClaim(e) \/ Abandon(e)
      PROVE  WorkOK'
  <2>1. Finish(e) /\ UNCHANGED rounds
    BY <1>6 DEF resolveStaleClaim, Abandon, store
  <2>2. QED
    BY <2>1, FinishView DEF WorkOK, Working
<1>7. ASSUME NEW r \in Rounds, PrepareRound(r)
      PROVE  WorkOK'
  <2>1. rounds[r].status = "NONE" /\ UNCHANGED exec
    BY <1>7 DEF PrepareRound
  <2>2. QED
    BY <1>7, <2>1, PrepareView DEF WorkOK, Working
<1>8. ASSUME NEW r \in Rounds, AcknowledgeResultDelivery(r)
      PROVE  WorkOK'
  <2>1. UNCHANGED exec
    BY <1>8 DEF AcknowledgeResultDelivery
  <2>2. QED
    BY <1>8, <2>1, AcknowledgeView DEF WorkOK, Working
<1>9. ASSUME NEW r \in Rounds, DecideRisk(r) \/ expireRiskLocked(r)
      PROVE  WorkOK'
  <2>1. /\ UNCHANGED exec
        /\ \/ Approved(r)
           \/ \E s \in {"REJECTED", "MANUAL_REVIEW"} : Closed(r, s)
    BY <1>9 DEF DecideRisk, expireRiskLocked
  <2>2. QED
    BY <2>1, ApproveView, ClosedView DEF WorkOK, Working
<1>10. ASSUME NEW r \in Rounds, quarantineCorruptRound(r)
       PROVE  WorkOK'
  <2>1. UNCHANGED exec
    BY <1>10 DEF quarantineCorruptRound
  <2>2. QuarantinedStatus(r) \notin {"NONE", "RISK_PENDING"}
    BY DEF QuarantinedStatus, economicallyFinal
  <2>3. QED
    BY <1>10, <2>1, <2>2, QuarantineView DEF WorkOK, Working
<1>11. ASSUME UNCHANGED <<exec, rounds>>
       PROVE  WorkOK'
  BY <1>11 DEF WorkOK, Working
<1>12. QED
  BY <1>1, <1>2, <1>3, <1>4, <1>5, <1>6, <1>7, <1>8, <1>9, <1>10, <1>11
  DEF Next, ExecutorStep, RoundStep, ClaimWallet, ClaimRecoverableRounds,
      Apply, Rollback, quarantineCorruptSession, Tick, store, vars

\* Every variable keeps its type in every behaviour of the settlement.
THEOREM TypeCorrect == Spec => []TypeOK
<1>1. Init => TypeOK /\ WorkOK
  BY InitType, InitWork
<1>2. TypeOK /\ WorkOK /\ [Next]_vars => (TypeOK /\ WorkOK)'
  BY NextType, NextWork
<1>3. QED
  BY <1>1, <1>2, PTL DEF Spec

-----------------------------------------------------------------------------
(* The lease deadline as a fencing token *)

\* The deadlines in rows and claims are instants.
LEMMA TokenTypes ==
  TypeOK => /\ now \in Nat
            /\ \A e \in Executors : exec[e].leaseUntil \in Nat
            /\ \A r \in Rounds : rounds[r].leaseUntil \in Nat
<1>1. TypeOK => /\ now \in Nat
                /\ \A e \in Executors : exec[e] \in Claim
                /\ \A r \in Rounds : rounds[r] \in Round
  BY DEF TypeOK
<1>2. \A c \in Claim : c.leaseUntil \in Nat
  BY DEF Claim
<1>3. \A row \in Round : row.leaseUntil \in Nat
  BY DEF Round
<1>4. QED
  BY <1>1, <1>2, <1>3

\* Tokens stay ordered in a step that hands out no new one: time may pass,
\* claims may end, and a row's lease may be cleared once all others' expired.
LEMMA TokensKept ==
  ASSUME TypeOK, TypeOK', TokenOrder, now' >= now,
         \A f \in Executors : Working(f)' =>
            /\ Working(f)
            /\ exec'[f].round = exec[f].round
            /\ exec'[f].leaseUntil = exec[f].leaseUntil,
         \A f \in Executors :
            Working(f)' /\ rounds'[exec[f].round].status \in OpenStatus =>
              /\ Open(exec[f].round)
              /\ \/ rounds'[exec[f].round].leaseUntil
                      = rounds[exec[f].round].leaseUntil
                 \/ /\ rounds'[exec[f].round].leaseUntil = 0
                    /\ exec[f].leaseUntil <= now
  PROVE  TokenOrder'
<1>1. /\ now \in Nat /\ now' \in Nat
      /\ \A f \in Executors : exec[f].leaseUntil \in Nat
  BY TokenTypes DEF TypeOK
<1>2. SUFFICES ASSUME NEW f \in Executors, Working(f)', Open(exec[f].round)'
               PROVE  /\ \/ exec'[f].leaseUntil = rounds'[exec'[f].round].leaseUntil
                         \/ exec'[f].leaseUntil <= now'
                      /\ rounds'[exec'[f].round].leaseUntil # 0 =>
                           exec'[f].leaseUntil <= rounds'[exec'[f].round].leaseUntil
                      /\ \A g \in Executors \ {f} :
                           Working(g)' /\ exec'[g].round = exec'[f].round =>
                             exec'[g].leaseUntil # exec'[f].leaseUntil
  BY DEF TokenOrder
<1>3. /\ Working(f)
      /\ exec'[f].round = exec[f].round
      /\ exec'[f].leaseUntil = exec[f].leaseUntil
  BY <1>2
<1>4. /\ Open(exec[f].round)
      /\ \/ rounds'[exec[f].round].leaseUntil = rounds[exec[f].round].leaseUntil
         \/ /\ rounds'[exec[f].round].leaseUntil = 0
            /\ exec[f].leaseUntil <= now
  BY <1>2, <1>3 DEF Open
<1>5. /\ \/ exec[f].leaseUntil = rounds[exec[f].round].leaseUntil
         \/ exec[f].leaseUntil <= now
      /\ rounds[exec[f].round].leaseUntil # 0 =>
           exec[f].leaseUntil <= rounds[exec[f].round].leaseUntil
      /\ \A g \in Executors \ {f} :
           Working(g) /\ exec[g].round = exec[f].round =>
             exec[g].leaseUntil # exec[f].leaseUntil
  BY <1>3, <1>4 DEF TokenOrder
<1>6. exec[f].leaseUntil <= now => exec[f].leaseUntil <= now'
  BY <1>1
<1>7. QED
  BY <1>3, <1>4, <1>5, <1>6

\* The one step that hands out a token: whoever worked on the round before
\* has a token that is not later than the lease just found expired.
LEMMA ClaimToken ==
  ASSUME TypeOK, WorkOK, TokenOrder, NEW e \in Executors, NEW r \in Rounds,
         NEW lease \in Nat \ {0}, claimWalletLocked(e, r, lease)
  PROVE  TokenOrder'
<1>1. /\ now \in Nat
      /\ \A f \in Executors : exec[f].leaseUntil \in Nat
      /\ rounds[r].leaseUntil \in Nat
  BY TokenTypes
<1>2. /\ ~Working(e) /\ Open(r) /\ UNCHANGED now
      /\ rounds[r].leaseUntil <= now
  BY DEF claimWalletLocked, Working, Due
<1>3. /\ \A q \in Rounds \ {r} : rounds'[q] = rounds[q]
      /\ rounds'[r].leaseUntil = now + lease
      /\ \A f \in Executors \ {e} : exec'[f] = exec[f]
      /\ exec'[e].round = r
      /\ exec'[e].leaseUntil = now + lease
  BY ClaimView
<1>4. \A f \in Executors : Working(f) /\ exec[f].round = r =>
        exec[f].leaseUntil <= now
  BY <1>1, <1>2 DEF TokenOrder
<1>5. SUFFICES ASSUME NEW f \in Executors, Working(f)', Open(exec[f].round)'
               PROVE  /\ \/ exec'[f].leaseUntil = rounds'[exec'[f].round].leaseUntil
                         \/ exec'[f].leaseUntil <= now'
                      /\ rounds'[exec'[f].round].leaseUntil # 0 =>
                           exec'[f].leaseUntil <= rounds'[exec'[f].round].leaseUntil
                      /\ \A g \in Executors \ {f} :
                           Working(g)' /\ exec'[g].round = exec'[f].round =>
                             exec'[g].leaseUntil # exec'[f].leaseUntil
  BY DEF TokenOrder
<1>6. \A g \in Executors \ {e} : (Working(g)' <=> Working(g)) /\ exec'[g] = exec[g]
  BY <1>3 DEF Working
<1>7. now < now + lease /\ now + lease \in Nat
  BY <1>1
<1>8. CASE f = e
  <2>1. \A g \in Executors \ {f} :
           Working(g)' /\ exec'[g].round = exec'[f].round =>
             exec'[g].leaseUntil <= now
    BY <1>3, <1>4, <1>6, <1>8
  <2>2. \A g \in Executors \ {f} : exec'[g].leaseUntil \in Nat
    BY <1>1, <1>6, <1>8
  <2>3. QED
    BY <1>1, <1>3, <1>7, <1>8, <2>1, <2>2
<1>9. CASE f # e /\ exec[f].round = r
  <2>1. exec'[f] = exec[f] /\ Working(f) /\ exec[f].leaseUntil <= now
    BY <1>4, <1>5, <1>6, <1>9
  <2>2. \A g \in Executors \ {e, f} :
          Working(g)' /\ exec'[g].round = r =>
            exec'[g].leaseUntil # exec[f].leaseUntil
    BY <1>2, <1>6, <1>9, <2>1 DEF TokenOrder
  <2>3. exec'[e].leaseUntil # exec[f].leaseUntil
    BY <1>1, <1>3, <1>7, <2>1
  <2>4. exec[f].leaseUntil <= now + lease
    BY <1>1, <1>7, <2>1
  <2>5. QED
    BY <1>2, <1>3, <1>9, <2>1, <2>2, <2>3, <2>4
<1>10. CASE f # e /\ exec[f].round # r
  <2>1. /\ exec'[f] = exec[f]
        /\ Working(f)
        /\ exec[f].round \in Rounds
        /\ rounds'[exec[f].round] = rounds[exec[f].round]
    BY <1>3, <1>5, <1>6, <1>10 DEF WorkOK
  <2>2. Open(exec[f].round)
    BY <1>5, <2>1 DEF Open
  <2>3. QED
    BY <1>2, <1>3, <1>6, <1>10, <2>1, <2>2 DEF TokenOrder
<1>11. QED
  BY <1>8, <1>9, <1>10

\* Every step keeps the tokens of a round distinct, none of them newer than
\* the stored one and all others' deadlines in the past.
LEMMA NextToken ==
  TypeOK /\ TypeOK' /\ WorkOK /\ TokenOrder /\ [Next]_vars => TokenOrder'
<1> SUFFICES ASSUME TypeOK, TypeOK', WorkOK, TokenOrder, [Next]_vars
             PROVE  TokenOrder'
  OBVIOUS
<1> USE SettlementAssumption
<1>1. now \in Nat /\ now >= now
  BY DEF TypeOK
<1>2. ASSUME NEW e \in Executors,
             \/ RefuseClaim(e) \/ FailBeforeSend(e) \/ SubmitRound(e)
             \/ ReceiveSubmitAnswer(e) \/ Resolve(e)
      PROVE  TokenOrder'
  <2>1. Working(e) /\ UNCHANGED <<rounds, now>>
    BY <1>2 DEF RefuseClaim, FailBeforeSend, SubmitRound,
       ReceiveSubmitAnswer, Resolve, Working, store
  <2>2. (\E a : Answer(e, a)) \/ SubmitRound(e)
    BY <1>2 DEF RefuseClaim, FailBeforeSend, ReceiveSubmitAnswer, Resolve
  <2>3. /\ \A f \in Executors \ {e} : exec'[f] = exec[f]
        /\ exec'[e].round = exec[e].round
        /\ exec'[e].leaseUntil = exec[e].leaseUntil
    BY <2>2, AnswerView, SendView
  <2>4. \A f \in Executors : Working(f)' =>
          /\ Working(f)
          /\ exec'[f].round = exec[f].round
          /\ exec'[f].leaseUntil = exec[f].leaseUntil
    BY <2>1, <2>3 DEF Working
  <2>5. \A f \in Executors :
          Working(f)' /\ rounds'[exec[f].round].status \in OpenStatus =>
            /\ Open(exec[f].round)
            /\ rounds'[exec[f].round].leaseUntil
                 = rounds[exec[f].round].leaseUntil
    BY <2>1 DEF Open
  <2>6. now' >= now
    BY <1>1, <2>1
  <2>7. QED
    BY <2>4, <2>5, <2>6, TokensKept
<1>3. ASSUME NEW e \in Executors,
             \/ CommitClaim(e) \/ RejectClaim(e) \/ MarkClaimManualReview(e)
             \/ ScheduleWalletRecovery(e)
             \/ resolveStaleClaim(e) \/ Abandon(e)
      PROVE  TokenOrder'
  <2>1. Working(e) /\ Finish(e) /\ UNCHANGED now
    BY <1>3 DEF CommitClaim, RejectClaim, MarkClaimManualReview,
       ScheduleWalletRecovery, resolveStaleClaim, Abandon, Working
  <2>2. exec[e].round \in Rounds
    BY <2>1 DEF WorkOK
  <2>3. \A f \in Executors : Working(f)' =>
          /\ f # e
          /\ Working(f)
          /\ exec'[f] = exec[f]
    BY <2>1, FinishView DEF Working
  <2>4. ASSUME NEW f \in Executors, Working(f)',
               rounds'[exec[f].round].status \in OpenStatus
        PROVE  /\ Open(exec[f].round)
               /\ \/ rounds'[exec[f].round].leaseUntil
                       = rounds[exec[f].round].leaseUntil
                  \/ /\ rounds'[exec[f].round].leaseUntil = 0
                     /\ exec[f].leaseUntil <= now
    <3>1. f # e /\ Working(f) /\ exec[f].round \in Rounds
      BY <2>3, <2>4 DEF WorkOK
    <3>2. CASE rounds'[exec[f].round] = rounds[exec[f].round]
      BY <2>4, <3>2 DEF Open
    <3>3. CASE rounds'[exec[f].round] # rounds[exec[f].round]
      <4>1. CASE CommitClaim(e) \/ RejectClaim(e) \/ MarkClaimManualReview(e)
        <5>1. \E s \in {"COMMITTED", "REJECTED", "MANUAL_REVIEW"} :
                 Closed(exec[e].round, s)
          BY <4>1 DEF CommitClaim, RejectClaim, MarkClaimManualReview
        <5>2. QED
          BY <2>2, <2>4, <3>1, <3>3, <5>1, ClosedView DEF OpenStatus
      <4>2. CASE ScheduleWalletRecovery(e)
        <5>1. /\ exec[f].round = exec[e].round
              /\ rounds'[exec[f].round].leaseUntil = 0
              /\ rounds'[exec[f].round].status = rounds[exec[f].round].status
          BY <2>2, <3>1, <3>3, <4>2, ScheduleView
        <5>2. Open(exec[f].round)
          BY <2>4, <5>1 DEF Open
        <5>3. /\ exec[e].leaseUntil = rounds[exec[e].round].leaseUntil
              /\ exec[f].leaseUntil # exec[e].leaseUntil
          BY <2>1, <3>1, <4>2, <5>1, <5>2
          DEF TokenOrder, ScheduleWalletRecovery, ownsWalletClaim
        <5>4. exec[f].leaseUntil <= now
          BY <3>1, <5>1, <5>2, <5>3 DEF TokenOrder
        <5>5. QED
          BY <5>1, <5>2, <5>4
      <4>3. CASE resolveStaleClaim(e) \/ Abandon(e)
        BY <3>3, <4>3 DEF resolveStaleClaim, Abandon, store
      <4>4. QED
        BY <1>3, <4>1, <4>2, <4>3
    <3>4. QED
      BY <3>2, <3>3
  <2>5. now' >= now
    BY <1>1, <2>1
  <2>6. QED
    BY <2>3, <2>4, <2>5, TokensKept
<1>4. ASSUME NEW r \in Rounds,
             \/ PrepareRound(r) \/ AcknowledgeResultDelivery(r)
             \/ DecideRisk(r) \/ expireRiskLocked(r)
             \/ quarantineCorruptRound(r)
      PROVE  TokenOrder'
  <2>1. UNCHANGED <<exec, now>>
    BY <1>4 DEF PrepareRound, AcknowledgeResultDelivery, DecideRisk,
       expireRiskLocked, quarantineCorruptRound
  <2>2. /\ \A q \in Rounds \ {r} : rounds'[q] = rounds[q]
        /\ \/ rounds[r].status \in {"NONE", "RISK_PENDING"}
           \/ /\ rounds'[r].status = rounds[r].status
              /\ rounds'[r].leaseUntil = rounds[r].leaseUntil
           \/ rounds'[r].status \notin OpenStatus
    <3>1. CASE PrepareRound(r)
      BY <3>1, PrepareView DEF PrepareRound
    <3>2. CASE AcknowledgeResultDelivery(r)
      BY <3>2, AcknowledgeView
    <3>3. CASE DecideRisk(r) \/ expireRiskLocked(r)
      <4>1. rounds[r].status = "RISK_PENDING"
        BY <3>3 DEF DecideRisk, expireRiskLocked
      <4>2. \/ Approved(r)
            \/ \E s \in {"REJECTED", "MANUAL_REVIEW"} : Closed(r, s)
        BY <3>3 DEF DecideRisk, expireRiskLocked
      <4>3. QED
        BY <4>1, <4>2, ApproveView, ClosedView
    <3>4. CASE quarantineCorruptRound(r)
      <4>1. QuarantinedStatus(r) \notin OpenStatus
        BY DEF QuarantinedStatus, economicallyFinal, OpenStatus
      <4>2. QED
        BY <3>4, <4>1, QuarantineView
    <3>5. QED
      BY <1>4, <3>1, <3>2, <3>3, <3>4
  <2>3. \A f \in Executors : Working(f)' =>
          /\ Working(f)
          /\ exec'[f].round = exec[f].round
          /\ exec'[f].leaseUntil = exec[f].leaseUntil
    BY <2>1 DEF Working
  <2>4. \A f \in Executors :
          Working(f)' /\ rounds'[exec[f].round].status \in OpenStatus =>
            /\ Open(exec[f].round)
            /\ rounds'[exec[f].round].leaseUntil
                 = rounds[exec[f].round].leaseUntil
    BY <2>1, <2>2 DEF WorkOK, Working, Open
  <2>5. now' >= now
    BY <1>1, <2>1
  <2>6. QED
    BY <2>3, <2>4, <2>5, TokensKept
<1>5. ASSUME UNCHANGED <<exec, rounds>>, now' = now \/ now' = now + 1
      PROVE  TokenOrder'
  <2>1. now' >= now
    BY <1>1, <1>5
  <2>2. QED
    BY <1>5, <2>1, TokensKept DEF Working, Open
<1>6. QED
  BY <1>2, <1>3, <1>4, <1>5, ClaimToken
  DEF Next, ExecutorStep, RoundStep, ClaimWallet, ClaimRecoverableRounds,
      Apply, Rollback, quarantineCorruptSession, Tick, store, vars

\* There is no token in hand in the initial state.
LEMMA InitToken == Init => TokenOrder
  BY InitIdle DEF TokenOrder

\* The three facts about claims in hand hold together in every behaviour.
LEMMA ClaimsInOrder == Spec => [](TypeOK /\ WorkOK /\ TokenOrder)
<1>1. Init => TypeOK /\ WorkOK /\ TokenOrder
  BY InitType, InitWork, InitToken
<1>2. TypeOK /\ WorkOK /\ TokenOrder /\ [Next]_vars
        => (TypeOK /\ WorkOK /\ TokenOrder)'
  BY NextType, NextWork, NextToken
<1>3. QED
  BY <1>1, <1>2, PTL DEF Spec

\* The lease deadline is a sound fencing token: at most one executor holds the
\* stored deadline of an open round and all others' have passed.
THEOREM Fencing == Spec => []ClaimFence
<1>1. ASSUME TypeOK, WorkOK, TokenOrder
      PROVE  ClaimFence
  <2> SUFFICES ASSUME NEW e \in Executors, Working(e), Open(exec[e].round)
               PROVE  /\ ownsWalletClaim(e) \/ exec[e].leaseUntil <= now
                      /\ \A f \in Executors \ {e} :
                           Working(f) /\ exec[f].round = exec[e].round =>
                             exec[f].leaseUntil # exec[e].leaseUntil
    BY DEF ClaimFence
  <2>1. exec[e].leaseUntil # 0
    BY <1>1 DEF WorkOK
  <2>2. /\ \/ exec[e].leaseUntil = rounds[exec[e].round].leaseUntil
           \/ exec[e].leaseUntil <= now
        /\ \A f \in Executors \ {e} :
             Working(f) /\ exec[f].round = exec[e].round =>
               exec[f].leaseUntil # exec[e].leaseUntil
    BY <1>1 DEF TokenOrder
  <2>3. QED
    BY <2>1, <2>2 DEF ownsWalletClaim
<1>2. QED
  BY <1>1, ClaimsInOrder, PTL

\* A step that ends e's claim and writes the rows holds e's token, and every
\* other executor of that round holds an older one.
LEMMA OwnerIsNewest ==
  ASSUME TypeOK, WorkOK, TokenOrder, NEW e \in Executors, Working(e),
         ownsWalletClaim(e), NEW f \in Executors \ {e}, Working(f),
         exec[f].round = exec[e].round
  PROVE  exec[f].leaseUntil < exec[e].leaseUntil
<1>1. /\ exec[e].leaseUntil \in Nat
      /\ exec[f].leaseUntil \in Nat
  BY TokenTypes
<1>2. /\ exec[e].leaseUntil = rounds[exec[e].round].leaseUntil
      /\ exec[e].leaseUntil # 0
      /\ Open(exec[f].round)
  BY DEF ownsWalletClaim
<1>3. /\ exec[f].leaseUntil <= rounds[exec[f].round].leaseUntil
      /\ exec[f].leaseUntil # exec[e].leaseUntil
  BY <1>2 DEF TokenOrder
<1>4. QED
  BY <1>1, <1>2, <1>3

\* A stale executor's late write never overrides a newer claim, and what it
\* writes it writes as the newest claimant.
THEOREM NoStaleWrite == Spec => FencedWrites
<1> DEFINE Fenced ==
      \A e \in Executors :
        (Working(e) /\ exec'[e] = NoClaim /\ rounds' # rounds) =>
          \A f \in Executors \ {e} :
            Working(f) /\ exec[f].round = exec[e].round =>
              exec[f].leaseUntil < exec[e].leaseUntil
<1>1. ASSUME TypeOK, WorkOK, TokenOrder, [Next]_vars
      PROVE  [Fenced]_vars
  <2> SUFFICES ASSUME NEW e \in Executors, Working(e), exec'[e] = NoClaim,
                      rounds' # rounds
               PROVE  \A f \in Executors \ {e} :
                        Working(f) /\ exec[f].round = exec[e].round =>
                          exec[f].leaseUntil < exec[e].leaseUntil
    BY DEF Fenced
  <2> USE SettlementAssumption
  <2>1. exec'[e].pc = "idle"
    <3>1. NoClaim.pc = "idle"
      BY DEF NoClaim
    <3>2. QED
      BY <3>1
  <2>2. ASSUME NEW g \in Executors, NEW r \in Rounds, NEW lease \in Nat \ {0},
               claimWalletLocked(g, r, lease)
        PROVE  FALSE
    <3>1. lease \in Nat
      OBVIOUS
    <3>2. /\ \A f \in Executors \ {g} : exec'[f] = exec[f]
          /\ exec'[g].pc \in {"claimed", "exhausted"}
      BY <1>1, <2>2, <3>1, ClaimView
    <3>3. QED
      BY <2>1, <3>2 DEF Working
  <2>3. ASSUME NEW g \in Executors,
               \/ CommitClaim(g) \/ RejectClaim(g) \/ MarkClaimManualReview(g)
               \/ ScheduleWalletRecovery(g)
        PROVE  g = e /\ ownsWalletClaim(e)
    <3>1. Finish(g) /\ ownsWalletClaim(g)
      BY <2>3 DEF CommitClaim, RejectClaim, MarkClaimManualReview,
         ScheduleWalletRecovery
    <3>2. QED
      BY <1>1, <2>1, <3>1, FinishView DEF Working
  <2>4. ASSUME UNCHANGED exec \/ UNCHANGED rounds
        PROVE  FALSE
    BY <2>1, <2>4 DEF Working
  <2>5. ownsWalletClaim(e)
    <3>1. CASE UNCHANGED vars
      BY <2>4, <3>1 DEF vars
    <3>2. CASE \E g \in Executors : ExecutorStep(g)
      BY <2>2, <2>3, <2>4, <3>2
      DEF ExecutorStep, ClaimWallet, ClaimRecoverableRounds, RefuseClaim,
          FailBeforeSend, SubmitRound, ReceiveSubmitAnswer, Resolve,
          resolveStaleClaim, Abandon, store
    <3>3. CASE \E r \in Rounds : RoundStep(r)
      BY <2>4, <3>3
      DEF RoundStep, PrepareRound, AcknowledgeResultDelivery, DecideRisk,
          expireRiskLocked, quarantineCorruptRound, Apply, Rollback
    <3>4. CASE quarantineCorruptSession \/ Tick
      BY <2>4, <3>4 DEF quarantineCorruptSession, Tick
    <3>5. QED
      BY <1>1, <3>1, <3>2, <3>3, <3>4 DEF Next
  <2>6. QED
    BY <1>1, <2>5, OwnerIsNewest
<1>2. Spec => [][Fenced]_vars
  BY <1>1, ClaimsInOrder, PTL DEF Spec
<1>3. QED
  BY <1>2 DEF FencedWrites

-----------------------------------------------------------------------------
(***************************************************************************)
(* Part 2.  The books.                                                     *)
(***************************************************************************)

-----------------------------------------------------------------------------
(* Answers in hand *)

\* Every answer the adapter accepts as settled is the wallet's decision.
LEMMA AnswersTrue ==
  ASSUME NEW decision \in Decisions, NEW a \in resolveAnswers(decision)
  PROVE  /\ a = "SUCCEEDED" => decision = "APPLIED"
         /\ a = "REJECTED_FINAL" => decision = "REJECTED"
  BY DEF resolveAnswers, submitRoundAnswers

\* Nobody holds an answer in the initial state.
LEMMA InitAnswers == Init => AnswersBacked
  BY InitIdle DEF AnswersBacked, Working

\* The wallet keeps its decisions, so an answer stays backed until it is used.
LEMMA NextAnswers ==
  TypeOK /\ WorkOK /\ AnswersBacked /\ [Next]_vars => AnswersBacked'
<1> SUFFICES ASSUME TypeOK, WorkOK, AnswersBacked, [Next]_vars
             PROVE  AnswersBacked'
  OBVIOUS
<1> USE SettlementAssumption
<1>1. ASSUME NEW e \in Executors, NEW r \in Rounds, NEW lease \in Nat \ {0},
             claimWalletLocked(e, r, lease)
      PROVE  AnswersBacked'
  <2>1. UNCHANGED wallet /\ lease \in Nat
    BY <1>1 DEF claimWalletLocked
  <2>2. QED
    BY <1>1, <2>1, ClaimView DEF AnswersBacked
<1>2. ASSUME NEW e \in Executors, RefuseClaim(e) \/ FailBeforeSend(e)
      PROVE  AnswersBacked'
  <2>1. UNCHANGED wallet /\ (Answer(e, "MANUAL") \/ Answer(e, "NOT_SENT"))
    BY <1>2 DEF RefuseClaim, FailBeforeSend
  <2>2. QED
    BY <2>1, AnswerView DEF AnswersBacked
<1>3. ASSUME NEW e \in Executors, ReceiveSubmitAnswer(e) \/ Resolve(e)
      PROVE  AnswersBacked'
  <2>1. Working(e) /\ UNCHANGED wallet
    BY <1>3 DEF ReceiveSubmitAnswer, Resolve, Working
  <2>2. PICK a \in resolveAnswers(wallet[exec[e].round]) : Answer(e, a)
    BY <1>3 DEF ReceiveSubmitAnswer, Resolve, resolveAnswers
  <2>3. wallet[exec[e].round] \in Decisions
    BY <2>1 DEF WorkOK, TypeOK
  <2>4. /\ a = "SUCCEEDED" => wallet[exec[e].round] = "APPLIED"
        /\ a = "REJECTED_FINAL" => wallet[exec[e].round] = "REJECTED"
    BY <2>2, <2>3, AnswersTrue
  <2>5. QED
    BY <2>1, <2>2, <2>4, AnswerView DEF AnswersBacked
<1>4. ASSUME NEW e \in Executors, SubmitRound(e)
      PROVE  AnswersBacked'
  <2>1. UNCHANGED wallet
    BY <1>4 DEF SubmitRound
  <2>2. QED
    BY <1>4, <2>1, SendView DEF AnswersBacked
<1>5. ASSUME NEW e \in Executors, Finish(e), UNCHANGED wallet
      PROVE  AnswersBacked'
  BY <1>5, FinishView DEF AnswersBacked
<1>6. ASSUME NEW r \in Rounds, Apply(r) \/ Rollback(r)
      PROVE  AnswersBacked'
  <2>1. /\ UNCHANGED exec
        /\ \A q \in Rounds \ {r} : wallet'[q] = wallet[q]
        /\ \/ wallet[r] = "NONE"
           \/ wallet[r] = "APPLIED" /\ wallet'[r] = "ROLLED_BACK"
    BY <1>6 DEF Apply, Rollback, TypeOK
  <2>2. QED
    BY <2>1 DEF AnswersBacked, WorkOK, Working
<1>7. ASSUME UNCHANGED <<exec, wallet>>
      PROVE  AnswersBacked'
  BY <1>7 DEF AnswersBacked
<1>8. QED
  BY <1>1, <1>2, <1>3, <1>4, <1>5, <1>6, <1>7
  DEF Next, ExecutorStep, RoundStep, ClaimWallet, ClaimRecoverableRounds,
      CommitClaim, RejectClaim, MarkClaimManualReview, ScheduleWalletRecovery,
      resolveStaleClaim, Abandon, PrepareRound, AcknowledgeResultDelivery,
      DecideRisk, expireRiskLocked, quarantineCorruptRound,
      quarantineCorruptSession, Tick, vars

-----------------------------------------------------------------------------
(* The three books *)

\* Nothing is booked, requested or in hand in the initial state.
LEMMA InitBooks == Init => BooksOK
<1> SUFFICES ASSUME Init, NEW r \in Rounds PROVE BooksAgree(r)
  BY DEF BooksOK
<1>1. NoRow.status = "NONE"
  BY DEF NoRow
<1>2. /\ rounds[r] = NoRow
      /\ ledger[r] = "NONE"
      /\ wallet[r] = "NONE"
      /\ network = {}
  BY DEF Init
<1>3. QED
  BY <1>1, <1>2 DEF BooksAgree

\* A step that touches the books of one round leaves the others' agreement.
LEMMA BooksFrame ==
  ASSUME BooksOK, NEW r \in Rounds, BooksAgree(r)',
         \A q \in Rounds \ {r} :
           /\ rounds'[q].status = rounds[q].status
           /\ ledger'[q] = ledger[q]
           /\ wallet'[q] = wallet[q]
           /\ q \in network' <=> q \in network
           /\ \A e \in Executors :
                Working(e)' /\ exec'[e].round = q =>
                  Working(e) /\ exec[e].round = q
  PROVE  BooksOK'
<1>1. ASSUME NEW q \in Rounds \ {r} PROVE BooksAgree(q)'
  <2>1. BooksAgree(q)
    BY DEF BooksOK
  <2>2. QED
    BY <1>1, <2>1 DEF BooksAgree
<1>2. QED
  BY <1>1 DEF BooksOK

\* A round under review is in no book but its own: no request, no claim, no
\* decision.
LEMMA ReviewedIsQuiet ==
  ASSUME WorkOK, BooksOK, NEW r \in Rounds, rounds[r].status = "RISK_PENDING"
  PROVE  /\ r \notin network
         /\ wallet[r] = "NONE"
         /\ \A e \in Executors : Working(e) => exec[e].round # r
  BY DEF BooksOK, BooksAgree, WorkOK

\* The books agree after a claim's execution is settled or rescheduled.
LEMMA SettleBooks ==
  ASSUME TypeOK, WorkOK, AnswersBacked, BooksOK, NEW e \in Executors,
         \/ CommitClaim(e) \/ RejectClaim(e) \/ MarkClaimManualReview(e)
         \/ ScheduleWalletRecovery(e)
  PROVE  BooksOK'
<1>1. /\ Working(e)
      /\ exec[e].pc = "answered"
      /\ Finish(e)
      /\ Open(exec[e].round)
      /\ UNCHANGED <<wallet, network>>
  BY DEF CommitClaim, RejectClaim, MarkClaimManualReview,
     ScheduleWalletRecovery, ownsWalletClaim, Working
<1>2. PICK r \in Rounds : r = exec[e].round
  BY <1>1 DEF WorkOK
<1>3. BooksAgree(r)
  BY <1>2 DEF BooksOK
<1>4. \A f \in Executors : Working(f)' => Working(f) /\ exec'[f] = exec[f]
  BY <1>1, FinishView DEF Working
<1>5. CASE CommitClaim(e)
  <2>1. /\ Closed(r, "COMMITTED")
        /\ ledger'[r] = "SUCCEEDED"
        /\ \A q \in Rounds \ {r} : ledger'[q] = ledger[q]
        /\ wallet[r] \in {"APPLIED", "ROLLED_BACK"}
    BY <1>1, <1>2, <1>5 DEF CommitClaim, TypeOK, AnswersBacked
  <2>2. /\ \A q \in Rounds \ {r} : rounds'[q] = rounds[q]
        /\ rounds'[r].status = "COMMITTED"
    BY <1>2, <2>1, ClosedView
  <2>3. BooksAgree(r)'
    BY <1>1, <1>3, <2>1, <2>2 DEF BooksAgree
  <2>4. QED
    BY <1>1, <1>2, <1>4, <2>1, <2>2, <2>3, BooksFrame
<1>6. CASE RejectClaim(e)
  <2>1. /\ Closed(r, "REJECTED")
        /\ ledger'[r] = "FAILED"
        /\ \A q \in Rounds \ {r} : ledger'[q] = ledger[q]
        /\ wallet[r] = "REJECTED"
    BY <1>1, <1>2, <1>6 DEF RejectClaim, TypeOK, AnswersBacked
  <2>2. /\ \A q \in Rounds \ {r} : rounds'[q] = rounds[q]
        /\ rounds'[r].status = "REJECTED"
    BY <1>2, <2>1, ClosedView
  <2>3. BooksAgree(r)'
    BY <1>1, <1>3, <2>1, <2>2 DEF BooksAgree
  <2>4. QED
    BY <1>1, <1>2, <1>4, <2>1, <2>2, <2>3, BooksFrame
<1>7. CASE MarkClaimManualReview(e)
  <2>1. /\ Closed(r, "MANUAL_REVIEW")
        /\ ledger'[r] = "UNKNOWN"
        /\ \A q \in Rounds \ {r} : ledger'[q] = ledger[q]
    BY <1>1, <1>2, <1>7 DEF MarkClaimManualReview, TypeOK
  <2>2. /\ \A q \in Rounds \ {r} : rounds'[q] = rounds[q]
        /\ rounds'[r].status = "MANUAL_REVIEW"
    BY <1>2, <2>1, ClosedView
  <2>3. BooksAgree(r)'
    BY <1>1, <1>3, <2>1, <2>2 DEF BooksAgree
  <2>4. QED
    BY <1>1, <1>2, <1>4, <2>1, <2>2, <2>3, BooksFrame
<1>8. CASE ScheduleWalletRecovery(e)
  <2>1. UNCHANGED ledger
    BY <1>8 DEF ScheduleWalletRecovery
  <2>2. /\ \A q \in Rounds \ {r} : rounds'[q] = rounds[q]
        /\ rounds'[r].status = rounds[r].status
    BY <1>2, <1>8, ScheduleView
  <2>3. BooksAgree(r)'
    BY <1>1, <1>3, <1>4, <2>1, <2>2 DEF BooksAgree
  <2>4. QED
    BY <1>1, <1>2, <1>4, <2>1, <2>2, <2>3, BooksFrame
<1>9. QED
  BY <1>5, <1>6, <1>7, <1>8

\* The books agree after a claim is taken or executed.
LEMMA ClaimBooks ==
  ASSUME TypeOK, WorkOK, BooksOK, NEW e \in Executors,
         \/ \E r \in Rounds, lease \in Nat \ {0} : claimWalletLocked(e, r, lease)
         \/ SubmitRound(e)
         \/ (\E a : Answer(e, a)) /\ Working(e)
              /\ UNCHANGED <<rounds, ledger, wallet, network>>
  PROVE  BooksOK'
<1>1. CASE \E r \in Rounds, lease \in Nat \ {0} : claimWalletLocked(e, r, lease)
  <2>1. PICK r \in Rounds, lease \in Nat \ {0} : claimWalletLocked(e, r, lease)
    BY <1>1
  <2>2. lease \in Nat
    OBVIOUS
  <2>3. /\ Open(r)
        /\ ledger[r] \in {"PENDING", "UNKNOWN"}
        /\ UNCHANGED <<ledger, wallet, network>>
    BY <2>1 DEF claimWalletLocked
  <2>4. /\ \A q \in Rounds \ {r} : rounds'[q] = rounds[q]
        /\ rounds'[r].status = "WALLET_PENDING"
        /\ \A f \in Executors \ {e} : exec'[f] = exec[f]
        /\ exec'[e].round = r
    BY <2>1, <2>2, ClaimView
  <2>5. BooksAgree(r)
    BY DEF BooksOK
  <2>6. BooksAgree(r)'
    BY <2>3, <2>4, <2>5 DEF BooksAgree, Open, OpenStatus
  <2>7. \A q \in Rounds \ {r} : \A f \in Executors :
          Working(f)' /\ exec'[f].round = q => Working(f) /\ exec[f].round = q
    BY <2>4 DEF Working
  <2>8. QED
    BY <2>3, <2>4, <2>6, <2>7, BooksFrame
<1>2. CASE SubmitRound(e)
  <2>1. /\ Working(e)
        /\ network' = network \cup {exec[e].round}
        /\ UNCHANGED <<rounds, ledger, wallet>>
    BY <1>2 DEF SubmitRound, Working, store
  <2>2. /\ exec[e].round \in Rounds
        /\ rounds[exec[e].round].status \notin {"NONE", "RISK_PENDING"}
    BY <2>1 DEF WorkOK
  <2>3. \A f \in Executors :
          (Working(f)' <=> Working(f)) /\ exec'[f].round = exec[f].round
    BY <1>2, <2>1, SendView DEF Working
  <2>4. BooksAgree(exec[e].round)
    BY <2>2 DEF BooksOK
  <2>5. BooksAgree(exec[e].round)'
    BY <2>1, <2>2, <2>3, <2>4 DEF BooksAgree
  <2>6. QED
    BY <2>1, <2>2, <2>3, <2>5, BooksFrame
<1>3. CASE (\E a : Answer(e, a)) /\ Working(e)
             /\ UNCHANGED <<rounds, ledger, wallet, network>>
  <2>1. \A f \in Executors :
          (Working(f)' <=> Working(f)) /\ exec'[f].round = exec[f].round
    BY <1>3, AnswerView DEF Working
  <2>2. QED
    BY <1>3, <2>1 DEF BooksOK, BooksAgree
<1>4. QED
  BY <1>1, <1>2, <1>3

\* The books agree after the wallet decides or reverses.
LEMMA WalletBooks ==
  ASSUME TypeOK, WorkOK, BooksOK, NEW r \in Rounds, Apply(r) \/ Rollback(r)
  PROVE  BooksOK'
<1>1. /\ UNCHANGED <<rounds, ledger, network, exec>>
      /\ \A q \in Rounds \ {r} : wallet'[q] = wallet[q]
      /\ \/ /\ r \in network
            /\ wallet[r] = "NONE"
            /\ wallet'[r] \in {"APPLIED", "REJECTED"}
         \/ wallet[r] = "APPLIED" /\ wallet'[r] = "ROLLED_BACK"
  BY DEF Apply, Rollback, store, TypeOK
<1>2. BooksAgree(r)
  BY DEF BooksOK
<1>3. BooksAgree(r)'
  BY <1>1, <1>2 DEF BooksAgree
<1>4. QED
  BY <1>1, <1>3, BooksFrame DEF Working

\* The books agree after a round is prepared, reviewed, delivered or
\* quarantined.
LEMMA RowBooks ==
  ASSUME TypeOK, WorkOK, BooksOK, NEW r \in Rounds,
         \/ PrepareRound(r) \/ AcknowledgeResultDelivery(r)
         \/ DecideRisk(r) \/ expireRiskLocked(r) \/ quarantineCorruptRound(r)
  PROVE  BooksOK'
<1>1. UNCHANGED <<wallet, network, exec>>
  BY DEF PrepareRound, AcknowledgeResultDelivery, DecideRisk,
     expireRiskLocked, quarantineCorruptRound
<1>2. BooksAgree(r)
  BY DEF BooksOK
<1>3. /\ \A q \in Rounds \ {r} :
           rounds'[q] = rounds[q] /\ ledger'[q] = ledger[q]
      /\ BooksAgree(r)'
  <2>1. CASE PrepareRound(r)
    <3>1. /\ rounds[r].status = "NONE"
          /\ ledger'[r] = "PENDING"
          /\ \A q \in Rounds \ {r} : ledger'[q] = ledger[q]
      BY <2>1 DEF PrepareRound, TypeOK
    <3>2. /\ \A q \in Rounds \ {r} : rounds'[q] = rounds[q]
          /\ rounds'[r].status \in {"PREPARED", "RISK_PENDING"}
      BY <2>1, PrepareView DEF PreparedStatus
    <3>3. QED
      BY <1>1, <1>2, <3>1, <3>2 DEF BooksAgree
  <2>2. CASE AcknowledgeResultDelivery(r)
    <3>1. UNCHANGED ledger
      BY <2>2 DEF AcknowledgeResultDelivery
    <3>2. /\ \A q \in Rounds \ {r} : rounds'[q] = rounds[q]
          /\ rounds'[r].status = rounds[r].status
      BY <2>2, AcknowledgeView
    <3>3. QED
      BY <1>1, <1>2, <3>1, <3>2 DEF BooksAgree, Working
  <2>3. CASE DecideRisk(r) \/ expireRiskLocked(r)
    <3>1. rounds[r].status = "RISK_PENDING"
      BY <2>3 DEF DecideRisk, expireRiskLocked
    <3>2. /\ r \notin network
          /\ wallet[r] = "NONE"
          /\ \A e \in Executors : Working(e) => exec[e].round # r
      BY <3>1, ReviewedIsQuiet
    <3>3. \/ Approved(r) /\ UNCHANGED ledger
          \/ /\ \E s \in {"REJECTED", "MANUAL_REVIEW"} : Closed(r, s)
             /\ ledger'[r] = "FAILED"
             /\ \A q \in Rounds \ {r} : ledger'[q] = ledger[q]
      BY <2>3 DEF DecideRisk, expireRiskLocked, TypeOK
    <3>4. CASE Approved(r) /\ UNCHANGED ledger
      <4>1. /\ \A q \in Rounds \ {r} : rounds'[q] = rounds[q]
            /\ rounds'[r].status = "PREPARED"
        BY <3>4, ApproveView
      <4>2. QED
        BY <1>1, <1>2, <3>1, <3>2, <3>4, <4>1 DEF BooksAgree, Working
    <3>5. CASE /\ \E s \in {"REJECTED", "MANUAL_REVIEW"} : Closed(r, s)
               /\ ledger'[r] = "FAILED"
               /\ \A q \in Rounds \ {r} : ledger'[q] = ledger[q]
      <4>1. /\ \A q \in Rounds \ {r} : rounds'[q] = rounds[q]
            /\ rounds'[r].status \in {"REJECTED", "MANUAL_REVIEW"}
        BY <3>5, ClosedView
      <4>2. QED
        BY <1>1, <3>2, <3>5, <4>1 DEF BooksAgree, Working
    <3>6. QED
      BY <3>3, <3>4, <3>5
  <2>4. CASE quarantineCorruptRound(r)
    <3>1. /\ rounds[r].status # "NONE"
          /\ ledger'[r] = QuarantinedLedger(r)
          /\ \A q \in Rounds \ {r} : ledger'[q] = ledger[q]
      BY <2>4 DEF quarantineCorruptRound, TypeOK
    <3>2. /\ \A q \in Rounds \ {r} : rounds'[q] = rounds[q]
          /\ rounds'[r].status = QuarantinedStatus(r)
      BY <2>4, QuarantineView
    <3>3. CASE rounds[r].status = "COMMITTED"
      <4>1. /\ QuarantinedStatus(r) = rounds[r].status
            /\ QuarantinedLedger(r) = ledger[r]
        BY <3>3 DEF QuarantinedStatus, QuarantinedLedger, economicallyFinal
      <4>2. QED
        BY <1>1, <1>2, <3>1, <3>2, <4>1 DEF BooksAgree, Working
    <3>4. CASE rounds[r].status = "RISK_PENDING"
      <4>1. /\ QuarantinedStatus(r) = "MANUAL_REVIEW"
            /\ QuarantinedLedger(r) \in {ledger[r], "FAILED"}
        BY <3>4 DEF QuarantinedStatus, QuarantinedLedger, economicallyFinal
      <4>2. /\ r \notin network
            /\ wallet[r] = "NONE"
            /\ \A e \in Executors : Working(e) => exec[e].round # r
        BY <3>4, ReviewedIsQuiet
      <4>3. ledger[r] # "SUCCEEDED"
        BY <1>2, <3>4 DEF BooksAgree
      <4>4. QED
        BY <1>1, <3>1, <3>2, <4>1, <4>2, <4>3 DEF BooksAgree, Working
    <3>5. CASE rounds[r].status \notin {"COMMITTED", "RISK_PENDING"}
      <4>1. /\ QuarantinedStatus(r) = "MANUAL_REVIEW"
            /\ QuarantinedLedger(r) \in {ledger[r], "UNKNOWN"}
        BY <3>5 DEF QuarantinedStatus, QuarantinedLedger, economicallyFinal
      <4>2. ledger[r] # "SUCCEEDED"
        BY <1>2, <3>5 DEF BooksAgree
      <4>3. QED
        BY <1>1, <1>2, <3>1, <3>2, <4>1, <4>2 DEF BooksAgree, Working
    <3>6. QED
      BY <3>3, <3>4, <3>5
  <2>5. QED
    BY <2>1, <2>2, <2>3, <2>4
<1>4. QED
  BY <1>1, <1>3, BooksFrame DEF Working

\* Every step keeps the books in agreement.
LEMMA NextBooks ==
  TypeOK /\ WorkOK /\ AnswersBacked /\ BooksOK /\ [Next]_vars => BooksOK'
<1> SUFFICES ASSUME TypeOK, WorkOK, AnswersBacked, BooksOK, [Next]_vars
             PROVE  BooksOK'
  OBVIOUS
<1> USE SettlementAssumption
<1>1. ASSUME NEW e \in Executors, NEW r \in Rounds,
             ClaimWallet(e, r) \/ ClaimRecoverableRounds(e, r)
      PROVE  BooksOK'
  BY <1>1, ClaimBooks DEF ClaimWallet, ClaimRecoverableRounds
<1>2. ASSUME NEW e \in Executors,
             \/ RefuseClaim(e) \/ FailBeforeSend(e)
             \/ ReceiveSubmitAnswer(e) \/ Resolve(e)
      PROVE  BooksOK'
  <2>1. /\ \E a : Answer(e, a)
        /\ Working(e)
        /\ UNCHANGED <<rounds, ledger, wallet, network>>
    BY <1>2 DEF RefuseClaim, FailBeforeSend, ReceiveSubmitAnswer, Resolve,
       Working, store
  <2>2. QED
    BY <2>1, ClaimBooks
<1>3. ASSUME NEW e \in Executors, resolveStaleClaim(e) \/ Abandon(e)
      PROVE  BooksOK'
  <2>1. Finish(e) /\ UNCHANGED <<rounds, ledger, wallet, network>>
    BY <1>3 DEF resolveStaleClaim, Abandon, store
  <2>2. \A f \in Executors : Working(f)' => Working(f) /\ exec'[f] = exec[f]
    BY <2>1, FinishView DEF Working
  <2>3. QED
    BY <2>1, <2>2 DEF BooksOK, BooksAgree
<1>4. ASSUME UNCHANGED <<rounds, ledger, wallet, network, exec>>
      PROVE  BooksOK'
  BY <1>4 DEF BooksOK, BooksAgree, Working
<1>5. QED
  BY <1>1, <1>2, <1>3, <1>4, ClaimBooks, SettleBooks, WalletBooks, RowBooks
  DEF Next, ExecutorStep, RoundStep, quarantineCorruptSession, Tick, store,
      vars

\* The books agree with the wallet: a committed round's money moved, a
\* rejected round's did not, and no request under way can change that.
THEOREM BooksAgreeWithWallet == Spec => []FundsAgreement
<1> DEFINE Inv == TypeOK /\ WorkOK /\ AnswersBacked /\ BooksOK
<1>1. Init => Inv
  BY InitType, InitWork, InitAnswers, InitBooks
<1>2. Inv /\ [Next]_vars => Inv'
  BY NextType, NextWork, NextAnswers, NextBooks
<1>3. Inv => FundsAgreement
  BY DEF BooksOK, BooksAgree, FundsAgreement
<1>4. QED
  BY <1>1, <1>2, <1>3, PTL DEF Spec

-----------------------------------------------------------------------------
(* Nothing leaves for a high-value round before its approval *)

InPlay(r) ==
  \/ Open(r)
  \/ r \in network
  \/ \E e \in Executors : Working(e) /\ exec[e].round = r

\* RiskGate, and an open round has been approved too.
GateOK == \A r \in HighValue : InPlay(r) => reviews[r].status = "APPROVED"

\* No round is in play at first.
LEMMA InitGate == Init => GateOK
<1>1. NoRow.status = "NONE"
  BY DEF NoRow
<1>2. Init => /\ \A r \in Rounds : rounds[r] = NoRow
              /\ network = {}
  BY DEF Init
<1>3. QED
  BY <1>1, <1>2, InitIdle, SettlementAssumption
  DEF GateOK, InPlay, Open, OpenStatus

\* A step that neither touches a review nor brings a round into play.
LEMMA GateFrame ==
  ASSUME GateOK, UNCHANGED reviews,
         \A r \in HighValue : InPlay(r)' => InPlay(r)
  PROVE  GateOK'
  BY DEF GateOK

\* An unprepared round and a round under review are not in play.
LEMMA NotInPlay ==
  ASSUME WorkOK, BooksOK, NEW r \in Rounds,
         rounds[r].status \in {"NONE", "RISK_PENDING"}
  PROVE  ~InPlay(r)
  BY DEF InPlay, Open, OpenStatus, WorkOK, BooksOK, BooksAgree

\* Every step keeps the gate shut until the approval.
LEMMA NextGate ==
  ASSUME TypeOK, WorkOK, BooksOK, GateOK, [Next]_vars
  PROVE  GateOK'
<1> USE SettlementAssumption
<1>1. ASSUME NEW e \in Executors, NEW r \in Rounds, NEW lease \in Nat,
             claimWalletLocked(e, r, lease)
      PROVE  GateOK'
  <2>1. Open(r) /\ UNCHANGED <<reviews, network>>
    BY <1>1 DEF claimWalletLocked
  <2>2. /\ \A q \in Rounds \ {r} : rounds'[q] = rounds[q]
        /\ \A f \in Executors \ {e} : exec'[f] = exec[f]
        /\ exec'[e].round = r
    BY <1>1, ClaimView
  <2>3. \A q \in HighValue : InPlay(q)' => InPlay(q)
    BY <2>1, <2>2 DEF InPlay, Open, Working
  <2>4. QED
    BY <2>1, <2>3, GateFrame
<1>2. ASSUME NEW e \in Executors,
             \/ RefuseClaim(e) \/ FailBeforeSend(e)
             \/ ReceiveSubmitAnswer(e) \/ Resolve(e)
      PROVE  GateOK'
  <2>1. /\ \E a : Answer(e, a)
        /\ Working(e)
        /\ UNCHANGED <<rounds, reviews, network>>
    BY <1>2 DEF RefuseClaim, FailBeforeSend, ReceiveSubmitAnswer, Resolve,
       Working, store
  <2>2. \A q \in HighValue : InPlay(q)' => InPlay(q)
    BY <2>1, AnswerView DEF InPlay, Open, Working
  <2>3. QED
    BY <2>1, <2>2, GateFrame
<1>3. ASSUME NEW e \in Executors, SubmitRound(e)
      PROVE  GateOK'
  <2>1. /\ Working(e)
        /\ network' = network \cup {exec[e].round}
        /\ UNCHANGED <<rounds, reviews>>
    BY <1>3 DEF SubmitRound, Working, store
  <2>2. \A q \in HighValue : InPlay(q)' => InPlay(q)
    BY <1>3, <2>1, SendView DEF InPlay, Open, Working
  <2>3. QED
    BY <2>1, <2>2, GateFrame
<1>4. ASSUME NEW e \in Executors,
             CommitClaim(e) \/ RejectClaim(e) \/ MarkClaimManualReview(e)
      PROVE  GateOK'
  <2>1. /\ Working(e)
        /\ Finish(e)
        /\ \E s \in {"COMMITTED", "REJECTED", "MANUAL_REVIEW"} :
             Closed(exec[e].round, s)
        /\ UNCHANGED <<reviews, network>>
    BY <1>4 DEF CommitClaim, RejectClaim, MarkClaimManualReview, Working
  <2>2. exec[e].round \in Rounds
    BY <2>1 DEF WorkOK
  <2>3. \A q \in HighValue : InPlay(q)' => InPlay(q)
    BY <2>1, <2>2, FinishView, ClosedView DEF InPlay, Open, OpenStatus, Working
  <2>4. QED
    BY <2>1, <2>3, GateFrame
<1>5. ASSUME NEW e \in Executors, ScheduleWalletRecovery(e)
      PROVE  GateOK'
  <2>1. Working(e) /\ Finish(e) /\ UNCHANGED <<reviews, network>>
    BY <1>5 DEF ScheduleWalletRecovery, Working
  <2>2. exec[e].round \in Rounds
    BY <2>1 DEF WorkOK
  <2>3. \A q \in HighValue : InPlay(q)' => InPlay(q)
    BY <1>5, <2>1, <2>2, FinishView, ScheduleView DEF InPlay, Open, Working
  <2>4. QED
    BY <2>1, <2>3, GateFrame
<1>6. ASSUME NEW e \in Executors, resolveStaleClaim(e) \/ Abandon(e)
      PROVE  GateOK'
  <2>1. Finish(e) /\ UNCHANGED <<rounds, reviews, network>>
    BY <1>6 DEF resolveStaleClaim, Abandon, store
  <2>2. \A q \in HighValue : InPlay(q)' => InPlay(q)
    BY <2>1, FinishView DEF InPlay, Open, Working
  <2>3. QED
    BY <2>1, <2>2, GateFrame
<1>7. ASSUME NEW r \in Rounds, PrepareRound(r)
      PROVE  GateOK'
  <2>1. /\ rounds[r].status = "NONE"
        /\ \A q \in Rounds \ {r} : reviews'[q] = reviews[q]
        /\ UNCHANGED <<network, exec>>
    BY <1>7 DEF PrepareRound, TypeOK
  <2>2. ~InPlay(r)
    BY <2>1, NotInPlay
  <2>3. \A q \in Rounds \ {r} : rounds'[q] = rounds[q]
    BY <1>7, PrepareView
  <2>4. r \in HighValue => rounds'[r].status = "RISK_PENDING"
    BY <1>7, PrepareView DEF PreparedStatus
  <2>5. r \in HighValue => ~InPlay(r)'
    BY <2>1, <2>2, <2>4 DEF InPlay, Open, OpenStatus, Working
  <2>6. \A q \in HighValue \ {r} : InPlay(q)' => InPlay(q)
    BY <2>1, <2>3 DEF InPlay, Open, Working
  <2>7. QED
    BY <2>1, <2>5, <2>6 DEF GateOK
<1>8. ASSUME NEW r \in Rounds, DecideRisk(r) \/ expireRiskLocked(r)
      PROVE  GateOK'
  <2>1. /\ rounds[r].status = "RISK_PENDING"
        /\ \A q \in Rounds \ {r} : reviews'[q] = reviews[q]
        /\ UNCHANGED <<network, exec>>
        /\ \/ Approved(r) /\ reviews' = [reviews EXCEPT ![r].status = "APPROVED"]
           \/ \E s \in {"REJECTED", "MANUAL_REVIEW"} : Closed(r, s)
    BY <1>8 DEF DecideRisk, expireRiskLocked, TypeOK
  <2>2. ~InPlay(r)
    BY <2>1, NotInPlay
  <2>3. \A q \in Rounds \ {r} : rounds'[q] = rounds[q]
    BY <2>1, ApproveView, ClosedView
  <2>4. \/ reviews'[r].status = "APPROVED"
        \/ ~InPlay(r)'
    <3>1. CASE Approved(r) /\ reviews' = [reviews EXCEPT ![r].status = "APPROVED"]
      BY <3>1 DEF TypeOK, Review
    <3>2. CASE \E s \in {"REJECTED", "MANUAL_REVIEW"} : Closed(r, s)
      <4>1. rounds'[r].status \in {"REJECTED", "MANUAL_REVIEW"}
        BY <3>2, ClosedView
      <4>2. QED
        BY <2>1, <2>2, <4>1 DEF InPlay, Open, OpenStatus, Working
    <3>3. QED
      BY <2>1, <3>1, <3>2
  <2>5. \A q \in HighValue \ {r} : InPlay(q)' => InPlay(q)
    BY <2>1, <2>3 DEF InPlay, Open, Working
  <2>6. QED
    BY <2>1, <2>4, <2>5 DEF GateOK
<1>9. ASSUME NEW r \in Rounds,
             AcknowledgeResultDelivery(r) \/ quarantineCorruptRound(r)
      PROVE  GateOK'
  <2>1. /\ UNCHANGED <<reviews, network, exec>>
        /\ \A q \in Rounds \ {r} : rounds'[q] = rounds[q]
        /\ Open(r)' => Open(r)
    BY <1>9, AcknowledgeView, QuarantineView
    DEF AcknowledgeResultDelivery, quarantineCorruptRound, QuarantinedStatus,
        economicallyFinal, Open, OpenStatus
  <2>2. \A q \in HighValue : InPlay(q)' => InPlay(q)
    BY <2>1 DEF InPlay, Open, Working
  <2>3. QED
    BY <2>1, <2>2, GateFrame
<1>10. ASSUME UNCHANGED <<rounds, reviews, network, exec>>
       PROVE  GateOK'
  BY <1>10 DEF GateOK, InPlay, Open, Working
<1>11. QED
  BY <1>1, <1>2, <1>3, <1>4, <1>5, <1>6, <1>7, <1>8, <1>9, <1>10
  DEF Next, ExecutorStep, RoundStep, ClaimWallet, ClaimRecoverableRounds,
      Apply, Rollback, quarantineCorruptSession, Tick, store, vars

\* No wallet request leaves for a high-value round unless a reviewer approved
\* it, whatever the order of decision, expiry and claim.
THEOREM ApprovedFirst == Spec => []RiskGate
<1> DEFINE Inv == TypeOK /\ WorkOK /\ AnswersBacked /\ BooksOK /\ GateOK
<1>1. Init => Inv
  BY InitType, InitWork, InitAnswers, InitBooks, InitGate
<1>2. Inv /\ [Next]_vars => Inv'
  BY NextType, NextWork, NextAnswers, NextBooks, NextGate
<1>3. Inv => RiskGate
  BY DEF GateOK, InPlay, RiskGate
<1>4. QED
  BY <1>1, <1>2, <1>3, PTL DEF Spec

-----------------------------------------------------------------------------
(***************************************************************************)
(* Part 3.  The session and the lifecycle of its rounds.                   *)
(***************************************************************************)

-----------------------------------------------------------------------------
(* The six kinds of step *)

UnsettledStatus == {"RISK_PENDING", "PREPARED", "WALLET_PENDING"}

Unsettled(r) == rounds[r].status \in UnsettledStatus

\* The row and the ledger of the round say what they said.
SameRow(q) ==
  /\ rounds'[q].status = rounds[q].status
  /\ rounds'[q].sequence = rounds[q].sequence
  /\ rounds'[q].startRevision = rounds[q].startRevision
  /\ rounds'[q].acknowledgedAt = rounds[q].acknowledgedAt
  /\ ledger'[q] = ledger[q]

OthersSame(r) == \A q \in Rounds \ {r} : SameRow(q)

\* Unsettled rounds may go on, and the session may stop.
Proceeds ==
  /\ \A q \in Rounds :
       /\ \/ rounds'[q].status = rounds[q].status
          \/ Unsettled(q) /\ rounds'[q].status \in UnsettledStatus
       /\ rounds'[q].sequence = rounds[q].sequence
       /\ rounds'[q].startRevision = rounds[q].startRevision
       /\ rounds'[q].acknowledgedAt = rounds[q].acknowledgedAt
       /\ ledger'[q] = ledger[q]
  /\ session'.pending = session.pending
  /\ session'.revision = session.revision
  /\ session'.sequence = session.sequence
  /\ session'.status \in {session.status, "BLOCKED"}

\* A committed result reaches its client.
Delivers(r) ==
  /\ rounds[r].status = "COMMITTED"
  /\ OthersSame(r)
  /\ rounds'[r].status = rounds[r].status
  /\ rounds'[r].sequence = rounds[r].sequence
  /\ rounds'[r].acknowledgedAt = "SET"
  /\ UNCHANGED <<session, ledger>>

Starts(r) ==
  /\ rounds[r].status = "NONE"
  /\ session.pending = NoRound
  /\ session.status = "ACTIVE"
  /\ \A q \in Rounds : ~Undelivered(q)
  /\ OthersSame(r)
  /\ rounds'[r].status \in {"RISK_PENDING", "PREPARED"}
  /\ rounds'[r].sequence = session.sequence + 1
  /\ rounds'[r].startRevision = session.revision
  /\ rounds'[r].acknowledgedAt = "NULL"
  /\ ledger'[r] = "PENDING"
  /\ session'.pending = r
  /\ session'.revision = session.revision
  /\ session'.sequence = session.sequence
  /\ session'.status = session.status

\* The row leaves the unsettled statuses with its numbers and its mark.
Leaves(r, status) ==
  /\ OthersSame(r)
  /\ rounds'[r].status = status
  /\ rounds'[r].sequence = rounds[r].sequence
  /\ rounds'[r].startRevision = rounds[r].startRevision
  /\ rounds'[r].acknowledgedAt = rounds[r].acknowledgedAt

Commits(r) ==
  /\ Open(r)
  /\ Bound(r)
  /\ Leaves(r, "COMMITTED")
  /\ session'.pending = NoRound
  /\ session'.revision = rounds[r].startRevision + 1
  /\ session'.sequence = rounds[r].sequence
  /\ session'.status = session.status

Rejects(r) ==
  /\ Unsettled(r)
  /\ session.pending = r
  /\ Leaves(r, "REJECTED")
  /\ session'.pending = NoRound
  /\ session'.revision = session.revision
  /\ session'.sequence = session.sequence
  /\ session'.status = session.status

Reviews(r) ==
  /\ rounds[r].status \notin {"NONE", "COMMITTED"}
  /\ Unsettled(r) \/ rounds'[r].quarantinedAt = "SET"
  /\ Leaves(r, "MANUAL_REVIEW")
  /\ session'.pending = session.pending
  /\ session'.revision = session.revision
  /\ session'.sequence = session.sequence
  /\ session'.status = "BLOCKED"

\* A step that touches neither rows nor ledger and at most blocks the session.
LEMMA StillProceeds ==
  ASSUME UNCHANGED <<rounds, ledger>>,
         session' = session \/ session' = [session EXCEPT !.status = "BLOCKED"],
         TypeOK
  PROVE  Proceeds
<1>1. /\ session'.pending = session.pending
      /\ session'.revision = session.revision
      /\ session'.sequence = session.sequence
      /\ session'.status \in {session.status, "BLOCKED"}
  BY BlockView
<1>2. QED
  BY <1>1 DEF Proceeds

\* Closing a round moves its row out of the unsettled statuses.
LEMMA ClosedLeaves ==
  ASSUME TypeOK, NEW r \in Rounds, NEW s, Closed(r, s),
         \A q \in Rounds \ {r} : ledger'[q] = ledger[q]
  PROVE  Leaves(r, s)
  BY ClosedView DEF Leaves, OthersSame, SameRow

\* What the steps that settle a claim do to the rows.
LEMMA SettleKinds ==
  ASSUME TypeOK, WorkOK, NEW e \in Executors,
         \/ CommitClaim(e) \/ RejectClaim(e) \/ MarkClaimManualReview(e)
         \/ ScheduleWalletRecovery(e)
  PROVE  \/ Proceeds
         \/ \E r \in Rounds : Commits(r) \/ Rejects(r) \/ Reviews(r)
<1>1. Working(e) /\ Open(exec[e].round)
  BY DEF CommitClaim, RejectClaim, MarkClaimManualReview,
     ScheduleWalletRecovery, ownsWalletClaim, Working
<1>2. PICK r \in Rounds : r = exec[e].round
  BY <1>1 DEF WorkOK
<1>3. Open(r) /\ Unsettled(r) /\ rounds[r].status \notin {"NONE", "COMMITTED"}
  BY <1>1, <1>2 DEF Open, OpenStatus, Unsettled, UnsettledStatus
<1>4. CASE CommitClaim(e)
  <2>1. /\ Bound(r)
        /\ Closed(r, "COMMITTED")
        /\ \A q \in Rounds \ {r} : ledger'[q] = ledger[q]
        /\ Advance(r)
    BY <1>2, <1>4 DEF CommitClaim, TypeOK
  <2>2. QED
    BY <1>3, <2>1, ClosedLeaves, AdvanceView DEF Commits
<1>5. CASE RejectClaim(e)
  <2>1. /\ Bound(r)
        /\ Closed(r, "REJECTED")
        /\ \A q \in Rounds \ {r} : ledger'[q] = ledger[q]
        /\ Release
    BY <1>2, <1>5 DEF RejectClaim, TypeOK
  <2>2. QED
    BY <1>3, <2>1, ClosedLeaves, ReleaseView DEF Rejects, Bound
<1>6. CASE MarkClaimManualReview(e)
  <2>1. /\ Closed(r, "MANUAL_REVIEW")
        /\ \A q \in Rounds \ {r} : ledger'[q] = ledger[q]
        /\ session' = [session EXCEPT !.status = "BLOCKED"]
    BY <1>2, <1>6 DEF MarkClaimManualReview, TypeOK
  <2>2. QED
    BY <1>3, <2>1, ClosedLeaves, BlockView DEF Reviews
<1>7. CASE ScheduleWalletRecovery(e)
  <2>1. UNCHANGED <<session, ledger>>
    BY <1>7 DEF ScheduleWalletRecovery
  <2>2. QED
    BY <1>2, <1>7, <2>1, ScheduleView DEF Proceeds
<1>8. QED
  BY <1>4, <1>5, <1>6, <1>7

\* What the steps that start, review, deliver or quarantine a round do.
LEMMA RowKinds ==
  ASSUME TypeOK, NEW r \in Rounds,
         \/ PrepareRound(r) \/ AcknowledgeResultDelivery(r)
         \/ DecideRisk(r) \/ expireRiskLocked(r) \/ quarantineCorruptRound(r)
  PROVE  Proceeds \/ Delivers(r) \/ Starts(r) \/ Rejects(r) \/ Reviews(r)
<1>1. CASE PrepareRound(r)
  <2>1. /\ rounds[r].status = "NONE"
        /\ session.pending = NoRound
        /\ session.status = "ACTIVE"
        /\ \A q \in Rounds : ~Undelivered(q)
        /\ ledger'[r] = "PENDING"
        /\ \A q \in Rounds \ {r} : ledger'[q] = ledger[q]
    BY <1>1 DEF PrepareRound, DeliveryClear, TypeOK
  <2>2. QED
    BY <1>1, <2>1, PrepareView
    DEF Starts, OthersSame, SameRow, PreparedStatus
<1>2. CASE AcknowledgeResultDelivery(r)
  <2>1. rounds[r].status = "COMMITTED" /\ UNCHANGED <<session, ledger>>
    BY <1>2 DEF AcknowledgeResultDelivery, Undelivered
  <2>2. QED
    BY <1>2, <2>1, AcknowledgeView DEF Delivers, OthersSame, SameRow
<1>3. CASE DecideRisk(r)
  <2>1. /\ rounds[r].status = "RISK_PENDING"
        /\ session.pending = r
        /\ \/ Approved(r) /\ UNCHANGED <<session, ledger>>
           \/ /\ Closed(r, "REJECTED")
              /\ \A q \in Rounds \ {r} : ledger'[q] = ledger[q]
              /\ Release
    BY <1>3 DEF DecideRisk, Bound, TypeOK
  <2>2. Unsettled(r)
    BY <2>1 DEF Unsettled, UnsettledStatus
  <2>3. CASE Approved(r) /\ UNCHANGED <<session, ledger>>
    BY <2>2, <2>3, ApproveView DEF Proceeds, UnsettledStatus
  <2>4. CASE /\ Closed(r, "REJECTED")
             /\ \A q \in Rounds \ {r} : ledger'[q] = ledger[q]
             /\ Release
    BY <2>1, <2>2, <2>4, ClosedLeaves, ReleaseView DEF Rejects
  <2>5. QED
    BY <2>1, <2>3, <2>4
<1>4. CASE expireRiskLocked(r)
  <2>1. /\ rounds[r].status = "RISK_PENDING"
        /\ session.pending = r
        /\ \A q \in Rounds \ {r} : ledger'[q] = ledger[q]
        /\ \/ Closed(r, "REJECTED") /\ Release
           \/ /\ Closed(r, "MANUAL_REVIEW")
              /\ session' = [session EXCEPT !.status = "BLOCKED"]
    BY <1>4 DEF expireRiskLocked, TypeOK
  <2>2. Unsettled(r)
    BY <2>1 DEF Unsettled, UnsettledStatus
  <2>3. CASE Closed(r, "REJECTED") /\ Release
    BY <2>1, <2>2, <2>3, ClosedLeaves, ReleaseView DEF Rejects
  <2>4. CASE /\ Closed(r, "MANUAL_REVIEW")
             /\ session' = [session EXCEPT !.status = "BLOCKED"]
    BY <2>1, <2>2, <2>4, ClosedLeaves, BlockView DEF Reviews
  <2>5. QED
    BY <2>1, <2>3, <2>4
<1>5. CASE quarantineCorruptRound(r)
  <2>1. /\ rounds[r].status # "NONE"
        /\ ledger'[r] = QuarantinedLedger(r)
        /\ \A q \in Rounds \ {r} : ledger'[q] = ledger[q]
        /\ session' = [session EXCEPT !.status = "BLOCKED"]
    BY <1>5 DEF quarantineCorruptRound, TypeOK
  <2>2. CASE rounds[r].status = "COMMITTED"
    <3>1. /\ QuarantinedStatus(r) = rounds[r].status
          /\ QuarantinedLedger(r) = ledger[r]
      BY <2>2 DEF QuarantinedStatus, QuarantinedLedger, economicallyFinal
    <3>2. QED
      BY <1>5, <2>1, <3>1, QuarantineView, BlockView DEF Proceeds
  <2>3. CASE rounds[r].status # "COMMITTED"
    <3>1. QuarantinedStatus(r) = "MANUAL_REVIEW"
      BY <2>3 DEF QuarantinedStatus, economicallyFinal
    <3>2. QED
      BY <1>5, <2>1, <2>3, <3>1, QuarantineView, BlockView
      DEF Reviews, Leaves, OthersSame, SameRow
  <2>4. QED
    BY <2>2, <2>3
<1>6. QED
  BY <1>1, <1>2, <1>3, <1>4, <1>5

\* Every step of the settlement is of one of the six kinds.
LEMMA StepKinds ==
  ASSUME TypeOK, WorkOK, [Next]_vars
  PROVE  \/ Proceeds
         \/ \E r \in Rounds : \/ Delivers(r) \/ Starts(r) \/ Commits(r)
                             \/ Rejects(r) \/ Reviews(r)
<1> USE SettlementAssumption
<1>1. ASSUME NEW e \in Executors, NEW r \in Rounds, NEW lease \in Nat,
             claimWalletLocked(e, r, lease)
      PROVE  Proceeds
  <2>1. Open(r) /\ UNCHANGED <<session, ledger>>
    BY <1>1 DEF claimWalletLocked
  <2>2. Unsettled(r) /\ "WALLET_PENDING" \in UnsettledStatus
    BY <2>1 DEF Open, OpenStatus, Unsettled, UnsettledStatus
  <2>3. QED
    BY <1>1, <2>1, <2>2, ClaimView DEF Proceeds
<1>2. ASSUME NEW e \in Executors,
             \/ RefuseClaim(e) \/ FailBeforeSend(e) \/ SubmitRound(e)
             \/ ReceiveSubmitAnswer(e) \/ Resolve(e)
             \/ resolveStaleClaim(e) \/ Abandon(e)
      PROVE  Proceeds
  BY <1>2, StillProceeds DEF RefuseClaim, FailBeforeSend, SubmitRound,
     ReceiveSubmitAnswer, Resolve, resolveStaleClaim, Abandon, store
<1>3. ASSUME NEW r \in Rounds, Apply(r) \/ Rollback(r)
      PROVE  Proceeds
  BY <1>3, StillProceeds DEF Apply, Rollback, store
<1>4. ASSUME quarantineCorruptSession
      PROVE  Proceeds
  BY <1>4 DEF quarantineCorruptSession, Proceeds, TypeOK, Session
<1>5. ASSUME Tick \/ UNCHANGED vars
      PROVE  Proceeds
  BY <1>5, StillProceeds DEF Tick, store, vars
<1>6. QED
  BY <1>1, <1>2, <1>3, <1>4, <1>5, SettleKinds, RowKinds
  DEF Next, ExecutorStep, RoundStep, ClaimWallet, ClaimRecoverableRounds

-----------------------------------------------------------------------------
(* The pending pointer *)

\* No round is pending at first.
LEMMA InitPointer == Init => PendingPointer
<1>1. NoRow.status = "NONE"
  BY DEF NoRow
<1>2. Init => /\ \A r \in Rounds : rounds[r] = NoRow
              /\ session.pending = NoRound
  BY DEF Init
<1>3. QED
  BY <1>1, <1>2 DEF PendingPointer

\* At most one round is unsettled.
LEMMA OneUnsettled ==
  ASSUME PendingPointer, NEW r \in Rounds, Unsettled(r)
  PROVE  /\ session.pending = r
         /\ session.revision = rounds[r].startRevision
         /\ rounds[r].sequence = session.sequence + 1
         /\ ledger[r] = "PENDING"
         /\ \A q \in Rounds \ {r} : ~Unsettled(q)
  BY DEF PendingPointer, Bound, Unsettled, UnsettledStatus

\* A pending round is unsettled, or under review with the session blocked.
LEMMA PendingStatus ==
  ASSUME PendingPointer, session.pending # NoRound
  PROVE  \/ Unsettled(session.pending)
         \/ /\ rounds[session.pending].status = "MANUAL_REVIEW"
            /\ session.status = "BLOCKED"
  BY DEF PendingPointer, Unsettled, UnsettledStatus

\* The pointer and the rows agree after every step.
LEMMA NextPointer ==
  TypeOK /\ WorkOK /\ PendingPointer /\ [Next]_vars => PendingPointer'
<1> SUFFICES ASSUME TypeOK, WorkOK, PendingPointer, [Next]_vars
             PROVE  PendingPointer'
  OBVIOUS
<1> USE SettlementAssumption
<1>1. /\ session.sequence \in Nat
      /\ session.pending \in Rounds \cup {NoRound}
  BY DEF TypeOK, Session
<1>2. ASSUME \A q \in Rounds : Unsettled(q)' =>
               /\ session'.pending = q
               /\ session'.revision = rounds'[q].startRevision
               /\ rounds'[q].sequence = session'.sequence + 1
               /\ ledger'[q] = "PENDING",
             session'.pending # NoRound =>
               \/ rounds'[session'.pending].status \in UnsettledStatus
               \/ /\ rounds'[session'.pending].status = "MANUAL_REVIEW"
                  /\ session'.status = "BLOCKED"
      PROVE  PendingPointer'
  BY <1>2 DEF PendingPointer, Bound, Unsettled, UnsettledStatus
<1>3. ASSUME Proceeds
      PROVE  PendingPointer'
  <2>1. ASSUME NEW q \in Rounds, Unsettled(q)'
        PROVE  /\ session'.pending = q
               /\ session'.revision = rounds'[q].startRevision
               /\ rounds'[q].sequence = session'.sequence + 1
               /\ ledger'[q] = "PENDING"
    <3>1. Unsettled(q)
      BY <1>3, <2>1 DEF Proceeds, Unsettled
    <3>2. QED
      BY <1>3, <3>1, OneUnsettled DEF Proceeds
  <2>2. ASSUME session'.pending # NoRound
        PROVE  \/ rounds'[session'.pending].status \in UnsettledStatus
               \/ /\ rounds'[session'.pending].status = "MANUAL_REVIEW"
                  /\ session'.status = "BLOCKED"
    <3>1. /\ session'.pending = session.pending
          /\ session.pending \in Rounds
      BY <1>1, <1>3, <2>2 DEF Proceeds
    <3>2. QED
      BY <1>3, <2>2, <3>1, PendingStatus DEF Proceeds, Unsettled
  <2>3. QED
    BY <1>2, <2>1, <2>2
<1>4. ASSUME NEW r \in Rounds, Starts(r)
      PROVE  PendingPointer'
  <2>1. \A q \in Rounds : ~Unsettled(q)
    BY <1>4, OneUnsettled DEF Starts
  <2>2. \A q \in Rounds \ {r} : ~Unsettled(q)'
    BY <1>4, <2>1 DEF Starts, OthersSame, SameRow, Unsettled
  <2>3. rounds'[r].status \in UnsettledStatus
    BY <1>4 DEF Starts, UnsettledStatus
  <2>4. QED
    BY <1>2, <1>4, <2>2, <2>3 DEF Starts
<1>5. ASSUME NEW r \in Rounds, Commits(r) \/ Rejects(r)
      PROVE  PendingPointer'
  <2>1. /\ Unsettled(r)
        /\ session'.pending = NoRound
        /\ \E s \in {"COMMITTED", "REJECTED"} : Leaves(r, s)
    BY <1>5 DEF Commits, Rejects, Open, OpenStatus, Unsettled, UnsettledStatus
  <2>2. \A q \in Rounds \ {r} : ~Unsettled(q)'
    BY <2>1, OneUnsettled DEF Leaves, OthersSame, SameRow, Unsettled
  <2>3. ~Unsettled(r)'
    BY <2>1 DEF Leaves, Unsettled, UnsettledStatus
  <2>4. QED
    BY <1>2, <2>1, <2>2, <2>3
<1>6. ASSUME NEW r \in Rounds, Reviews(r)
      PROVE  PendingPointer'
  <2>1. ~Unsettled(r)' /\ rounds'[r].status = "MANUAL_REVIEW"
    BY <1>6 DEF Reviews, Leaves, Unsettled, UnsettledStatus
  <2>2. ASSUME NEW q \in Rounds, Unsettled(q)'
        PROVE  /\ session'.pending = q
               /\ session'.revision = rounds'[q].startRevision
               /\ rounds'[q].sequence = session'.sequence + 1
               /\ ledger'[q] = "PENDING"
    <3>1. q # r
      BY <2>1, <2>2
    <3>2. SameRow(q)
      BY <1>6, <3>1 DEF Reviews, Leaves, OthersSame
    <3>3. Unsettled(q)
      BY <2>2, <3>2 DEF SameRow, Unsettled
    <3>4. QED
      BY <1>6, <3>2, <3>3, OneUnsettled DEF Reviews, SameRow
  <2>3. ASSUME session'.pending # NoRound
        PROVE  \/ rounds'[session'.pending].status \in UnsettledStatus
               \/ /\ rounds'[session'.pending].status = "MANUAL_REVIEW"
                  /\ session'.status = "BLOCKED"
    <3>1. /\ session'.pending = session.pending
          /\ session'.status = "BLOCKED"
          /\ session.pending \in Rounds
      BY <1>1, <1>6, <2>3 DEF Reviews
    <3>2. CASE session.pending = r
      BY <2>1, <3>1, <3>2
    <3>3. CASE session.pending # r
      <4>1. SameRow(session.pending)
        BY <1>6, <3>1, <3>3 DEF Reviews, Leaves, OthersSame
      <4>2. QED
        BY <2>3, <3>1, <4>1, PendingStatus DEF SameRow, Unsettled
    <3>4. QED
      BY <3>2, <3>3
  <2>4. QED
    BY <1>2, <2>2, <2>3
<1>7. ASSUME NEW r \in Rounds, Delivers(r)
      PROVE  PendingPointer'
  <2>1. /\ UNCHANGED <<session, ledger>>
        /\ \A q \in Rounds : rounds'[q].status = rounds[q].status
        /\ \A q \in Rounds \ {r} : SameRow(q)
        /\ ~Unsettled(r)
    BY <1>7 DEF Delivers, OthersSame, SameRow, Unsettled, UnsettledStatus
  <2>2. \A q \in Rounds : Unsettled(q)' => q # r /\ Unsettled(q)
    BY <2>1 DEF Unsettled
  <2>3. \A q \in Rounds : Unsettled(q)' =>
          /\ session'.pending = q
          /\ session'.revision = rounds'[q].startRevision
          /\ rounds'[q].sequence = session'.sequence + 1
          /\ ledger'[q] = "PENDING"
    BY <2>1, <2>2, OneUnsettled DEF SameRow
  <2>4. session'.pending # NoRound =>
          \/ rounds'[session'.pending].status \in UnsettledStatus
          \/ /\ rounds'[session'.pending].status = "MANUAL_REVIEW"
             /\ session'.status = "BLOCKED"
    BY <1>1, <2>1, PendingStatus DEF Unsettled
  <2>5. QED
    BY <1>2, <2>3, <2>4
<1>8. QED
  BY <1>3, <1>4, <1>5, <1>6, <1>7, StepKinds

\* The pointer is an invariant together with the types of the rows.
LEMMA PointerInvariant == Spec => [](TypeOK /\ WorkOK /\ PendingPointer)
<1>1. Init => TypeOK /\ WorkOK /\ PendingPointer
  BY InitType, InitWork, InitPointer
<1>2. /\ TypeOK /\ WorkOK /\ PendingPointer
      /\ [Next]_vars
      => (TypeOK /\ WorkOK /\ PendingPointer)'
  BY NextType, NextWork, NextPointer
<1>3. QED
  BY <1>1, <1>2, PTL DEF Spec

\* The session's pending pointer and the round rows never disagree: the
\* integrity branches of the claim and settlement transactions are not taken.
THEOREM PointerAgrees == Spec => []PendingPointer
  BY PointerInvariant, PTL

-----------------------------------------------------------------------------
(* The delivery fence and the session cursor *)

\* Nothing is undelivered at first.
LEMMA InitFence == Init => DeliveryFence
<1>1. NoRow.status = "NONE"
  BY DEF NoRow
<1>2. Init => \A r \in Rounds : rounds[r] = NoRow
  BY DEF Init
<1>3. QED
  BY <1>1, <1>2 DEF DeliveryFence, Undelivered

\* An undelivered result stays the newest one.
LEMMA NextFence ==
  ASSUME TypeOK, WorkOK, PendingPointer, DeliveryFence, [Next]_vars
  PROVE  DeliveryFence'
<1> USE SettlementAssumption
<1>1. CASE Proceeds
  <2>1. ASSUME NEW q \in Rounds, Undelivered(q)'
        PROVE  /\ rounds'[q].sequence = session'.sequence
               /\ session'.pending = NoRound
    <3>1. Undelivered(q)
      BY <1>1, <2>1 DEF Proceeds, Undelivered, Unsettled, UnsettledStatus
    <3>2. QED
      BY <1>1, <3>1 DEF Proceeds, DeliveryFence
  <2>2. QED
    BY <2>1 DEF DeliveryFence
<1>2. ASSUME NEW r \in Rounds, Starts(r)
      PROVE  DeliveryFence'
  <2>1. \A q \in Rounds : ~Undelivered(q)'
    BY <1>2 DEF Starts, OthersSame, SameRow, Undelivered
  <2>2. QED
    BY <2>1 DEF DeliveryFence
<1>3. ASSUME NEW r \in Rounds, Commits(r)
      PROVE  DeliveryFence'
  <2>1. session.pending = r /\ r # NoRound
    BY <1>3 DEF Commits, Bound
  <2>2. \A q \in Rounds \ {r} : ~Undelivered(q)'
    BY <1>3, <2>1
    DEF Commits, Leaves, OthersSame, SameRow, Undelivered, DeliveryFence
  <2>3. /\ rounds'[r].sequence = session'.sequence
        /\ session'.pending = NoRound
    BY <1>3 DEF Commits, Leaves
  <2>4. QED
    BY <2>2, <2>3 DEF DeliveryFence
<1>4. ASSUME NEW r \in Rounds, Rejects(r) \/ Reviews(r)
      PROVE  DeliveryFence'
  <2>1. /\ \A q \in Rounds \ {r} : Undelivered(q)' => Undelivered(q)
        /\ ~Undelivered(r)'
        /\ \A q \in Rounds \ {r} : rounds'[q].sequence = rounds[q].sequence
        /\ session'.sequence = session.sequence
        /\ session'.pending \in {session.pending, NoRound}
    BY <1>4 DEF Rejects, Reviews, Leaves, OthersSame, SameRow, Undelivered
  <2>2. QED
    BY <2>1 DEF DeliveryFence
<1>5. ASSUME NEW r \in Rounds, Delivers(r)
      PROVE  DeliveryFence'
  <2>1. \A q \in Rounds : Undelivered(q)' => q # r /\ Undelivered(q)
    BY <1>5 DEF Delivers, OthersSame, SameRow, Undelivered
  <2>2. QED
    BY <1>5, <2>1 DEF Delivers, OthersSame, SameRow, DeliveryFence
<1>6. QED
  BY <1>1, <1>2, <1>3, <1>4, <1>5, StepKinds

\* At most one committed result waits for its client, the newest one, and
\* nothing is pending while it waits.
THEOREM FenceHolds == Spec => []DeliveryFence
<1> DEFINE Inv == TypeOK /\ WorkOK /\ PendingPointer /\ DeliveryFence
<1>1. Init => Inv
  BY InitType, InitWork, InitPointer, InitFence
<1>2. Inv /\ [Next]_vars => Inv'
  BY NextType, NextWork, NextPointer, NextFence
<1>3. Inv => DeliveryFence
  OBVIOUS
<1>4. QED
  BY <1>1, <1>2, <1>3, PTL DEF Spec

Committed == {r \in Rounds : rounds[r].status = "COMMITTED"}

\* SessionCursor, with the committed rounds finite as a cardinality needs.
CursorOK ==
  /\ session.revision = session.sequence
  /\ IsFiniteSet(Committed)
  /\ Cardinality(Committed) = session.sequence
  /\ {rounds[r].sequence : r \in Committed} = 1..session.sequence

\* The session starts with no committed round.
LEMMA InitCursor == Init => CursorOK
<1> SUFFICES ASSUME Init PROVE CursorOK
  OBVIOUS
<1>1. NoRow.status = "NONE"
  BY DEF NoRow
<1>2. Committed = {}
  BY <1>1 DEF Init, Committed
<1>3. session.sequence = 0 /\ session.revision = 0
  BY DEF Init
<1>4. 1..0 = {}
  OBVIOUS
<1>5. QED
  BY <1>2, <1>3, <1>4, FS_EmptySet DEF CursorOK

\* The cursor counts the committed rounds after every step.
LEMMA NextCursor ==
  ASSUME TypeOK, WorkOK, PendingPointer, CursorOK, [Next]_vars
  PROVE  CursorOK'
<1>1. session.sequence \in Nat
  BY DEF TypeOK, Session
<1>2. ASSUME Committed' = Committed,
             \A q \in Committed : rounds'[q].sequence = rounds[q].sequence,
             session'.revision = session.revision,
             session'.sequence = session.sequence
      PROVE  CursorOK'
  BY <1>2 DEF CursorOK
<1>3. CASE Proceeds
  BY <1>2, <1>3 DEF Proceeds, Committed, Unsettled, UnsettledStatus
<1>4. ASSUME NEW r \in Rounds, Starts(r) \/ Rejects(r) \/ Reviews(r)
      PROVE  CursorOK'
  <2>1. /\ rounds[r].status # "COMMITTED"
        /\ rounds'[r].status # "COMMITTED"
        /\ OthersSame(r)
        /\ session'.revision = session.revision
        /\ session'.sequence = session.sequence
    BY <1>4 DEF Starts, Rejects, Reviews, Leaves, Unsettled, UnsettledStatus
  <2>2. Committed' = Committed
    BY <2>1 DEF OthersSame, SameRow, Committed
  <2>3. \A q \in Committed : rounds'[q].sequence = rounds[q].sequence
    BY <2>1 DEF OthersSame, SameRow, Committed
  <2>4. QED
    BY <1>2, <2>1, <2>2, <2>3
<1>5. ASSUME NEW r \in Rounds, Commits(r)
      PROVE  CursorOK'
  <2>1. /\ Unsettled(r)
        /\ rounds'[r].status = "COMMITTED"
        /\ rounds'[r].sequence = rounds[r].sequence
        /\ OthersSame(r)
        /\ session'.revision = rounds[r].startRevision + 1
        /\ session'.sequence = rounds[r].sequence
    BY <1>5 DEF Commits, Leaves, Open, OpenStatus, Unsettled, UnsettledStatus
  <2>2. /\ rounds[r].sequence = session.sequence + 1
        /\ rounds[r].startRevision = session.revision
    BY <2>1, OneUnsettled
  <2>3. r \notin Committed
    BY <2>1 DEF Committed, Unsettled, UnsettledStatus
  <2>4. Committed' = Committed \cup {r}
    BY <2>1 DEF OthersSame, SameRow, Committed
  <2>5. \A q \in Committed : rounds'[q].sequence = rounds[q].sequence
    BY <2>1, <2>3 DEF OthersSame, SameRow, Committed
  <2>6. /\ IsFiniteSet(Committed')
        /\ Cardinality(Committed') = session.sequence + 1
    BY <2>3, <2>4, FS_AddElement DEF CursorOK
  <2>7. {rounds'[q].sequence : q \in Committed'} = 1..session.sequence + 1
    <3>1. {rounds'[q].sequence : q \in Committed'}
            = {rounds[q].sequence : q \in Committed} \cup {session.sequence + 1}
      BY <2>1, <2>2, <2>4, <2>5
    <3>2. 1..session.sequence + 1 = (1..session.sequence) \cup {session.sequence + 1}
      BY <1>1
    <3>3. QED
      BY <3>1, <3>2 DEF CursorOK
  <2>8. QED
    BY <2>1, <2>2, <2>6, <2>7 DEF CursorOK
<1>6. ASSUME NEW r \in Rounds, Delivers(r)
      PROVE  CursorOK'
  BY <1>2, <1>6 DEF Delivers, OthersSame, SameRow, Committed
<1>7. QED
  BY <1>3, <1>4, <1>5, <1>6, StepKinds

\* The committed rounds of a session are numbered 1, 2, ... without a gap or a
\* duplicate, and sequence and revision count them.
THEOREM CursorCounts == Spec => []SessionCursor
<1> DEFINE Inv == TypeOK /\ WorkOK /\ PendingPointer /\ CursorOK
<1>1. Init => Inv
  BY InitType, InitWork, InitPointer, InitCursor
<1>2. Inv /\ [Next]_vars => Inv'
  BY NextType, NextWork, NextPointer, NextCursor
<1>3. Inv => SessionCursor
  BY DEF CursorOK, Committed, SessionCursor
<1>4. QED
  BY <1>1, <1>2, <1>3, PTL DEF Spec

-----------------------------------------------------------------------------
(* Settled for good *)

\* A settled round is settled for good: no crash, takeover, late answer or
\* quarantine takes a commit or a review back.
THEOREM SettledForGood == Spec => TerminalStable
<1> DEFINE Stable(r) ==
      /\ rounds[r].status = "COMMITTED" =>
           /\ rounds'[r].status = "COMMITTED"
           /\ rounds'[r].sequence = rounds[r].sequence
           /\ ledger'[r] = ledger[r]
      /\ rounds[r].status = "MANUAL_REVIEW" => rounds'[r].status = "MANUAL_REVIEW"
      /\ rounds[r].status = "REJECTED" =>
           \/ rounds'[r].status = "REJECTED"
           \/ /\ rounds'[r].status = "MANUAL_REVIEW"
              /\ rounds'[r].quarantinedAt = "SET"
<1>1. ASSUME TypeOK, WorkOK, [Next]_vars, NEW q \in Rounds
      PROVE  Stable(q)
  <2>1. CASE Proceeds
    BY <2>1 DEF Proceeds, Unsettled, UnsettledStatus
  <2>2. ASSUME NEW r \in Rounds,
               \/ Delivers(r) \/ Starts(r) \/ Commits(r)
               \/ Rejects(r) \/ Reviews(r)
        PROVE  Stable(q)
    <3>1. OthersSame(r)
      BY <2>2 DEF Delivers, Starts, Commits, Rejects, Reviews, Leaves
    <3>2. CASE q # r
      BY <3>1, <3>2 DEF OthersSame, SameRow
    <3>3. CASE q = r
      BY <2>2, <3>3 DEF Delivers, Starts, Commits, Rejects, Reviews, Leaves,
         Open, OpenStatus, Unsettled, UnsettledStatus
    <3>4. QED
      BY <3>2, <3>3
  <2>3. QED
    BY <1>1, <2>1, <2>2, StepKinds
<1>2. TypeOK /\ WorkOK /\ [Next]_vars => [\A r \in Rounds : Stable(r)]_vars
  BY <1>1
<1>3. Spec => [](TypeOK /\ WorkOK)
  BY PointerInvariant, PTL
<1>4. QED
  BY <1>2, <1>3, PTL DEF Spec, TerminalStable

-----------------------------------------------------------------------------
(***************************************************************************)
(* RoundSettlement implements RoundLifecycle: every step of the machinery  *)
(* is a step of the abstract lifecycle, or none, under the refinement      *)
(* mapping Lifecycle of RoundSettlement.                                   *)
(***************************************************************************)

-----------------------------------------------------------------------------
(* The abstract variables *)

outcome == [r \in Rounds |-> OutcomeOf(rounds[r].status)]
funds == [r \in Rounds |-> FundsOf(wallet[r])]
position == [r \in Rounds |-> IF rounds[r].status = "COMMITTED"
                              THEN rounds[r].sequence ELSE 0]
delivered == {r \in Rounds : rounds[r].acknowledgedAt = "SET"}

\* Only committed results are acknowledged.
AcknowledgedOK ==
  \A r \in Rounds :
    rounds[r].acknowledgedAt = "SET" => rounds[r].status = "COMMITTED"

\* What the mapping makes of each status and decision.
LEMMA Mapped ==
  /\ OutcomeOf("NONE") = "absent"
  /\ OutcomeOf("COMMITTED") = "committed"
  /\ OutcomeOf("REJECTED") = "rejected"
  /\ OutcomeOf("MANUAL_REVIEW") = "review"
  /\ \A s \in UnsettledStatus : OutcomeOf(s) = "open"
  /\ FundsOf("NONE") = "none"
  /\ FundsOf("APPLIED") = "moved"
  /\ FundsOf("REJECTED") = "refused"
  /\ FundsOf("ROLLED_BACK") = "reversed"
  BY DEF OutcomeOf, FundsOf, UnsettledStatus

\* Nothing is acknowledged at first.
LEMMA InitAcknowledged == Init => AcknowledgedOK
<1>1. NoRow.acknowledgedAt = "NULL"
  BY DEF NoRow
<1>2. Init => \A r \in Rounds : rounds[r] = NoRow
  BY DEF Init
<1>3. QED
  BY <1>1, <1>2 DEF AcknowledgedOK

\* Only committed results are acknowledged by any step.
LEMMA NextAcknowledged ==
  ASSUME TypeOK, WorkOK, AcknowledgedOK, [Next]_vars
  PROVE  AcknowledgedOK'
<1>1. CASE Proceeds
  BY <1>1 DEF Proceeds, AcknowledgedOK, Unsettled, UnsettledStatus
<1>2. ASSUME NEW r \in Rounds,
             \/ Delivers(r) \/ Starts(r) \/ Commits(r) \/ Rejects(r) \/ Reviews(r)
      PROVE  AcknowledgedOK'
  <2>1. OthersSame(r)
    BY <1>2 DEF Delivers, Starts, Commits, Rejects, Reviews, Leaves
  <2>2. \A q \in Rounds \ {r} :
          rounds'[q].acknowledgedAt = "SET" => rounds'[q].status = "COMMITTED"
    BY <2>1 DEF OthersSame, SameRow, AcknowledgedOK
  <2>3. rounds'[r].acknowledgedAt = "SET" => rounds'[r].status = "COMMITTED"
    BY <1>2 DEF Delivers, Starts, Commits, Rejects, Reviews, Leaves, Open,
       OpenStatus, Unsettled, UnsettledStatus, AcknowledgedOK
  <2>4. QED
    BY <2>2, <2>3 DEF AcknowledgedOK
<1>3. QED
  BY <1>1, <1>2, StepKinds

\* The wallet changes only when it decides or reverses.
LEMMA WalletSteps ==
  ASSUME [Next]_vars
  PROVE  UNCHANGED wallet \/ \E r \in Rounds : Apply(r) \/ Rollback(r)
<1>1. ASSUME NEW e \in Executors, ExecutorStep(e)
      PROVE  UNCHANGED wallet
  BY <1>1 DEF ExecutorStep, ClaimWallet, ClaimRecoverableRounds,
     claimWalletLocked, RefuseClaim, FailBeforeSend, SubmitRound,
     ReceiveSubmitAnswer, Resolve, CommitClaim, RejectClaim,
     MarkClaimManualReview, ScheduleWalletRecovery, resolveStaleClaim, Abandon
<1>2. ASSUME NEW r \in Rounds, RoundStep(r)
      PROVE  UNCHANGED wallet \/ Apply(r) \/ Rollback(r)
  BY <1>2 DEF RoundStep, PrepareRound, AcknowledgeResultDelivery, DecideRisk,
     expireRiskLocked, quarantineCorruptRound
<1>3. ASSUME quarantineCorruptSession \/ Tick \/ UNCHANGED vars
      PROVE  UNCHANGED wallet
  BY <1>3 DEF quarantineCorruptSession, Tick, vars
<1>4. QED
  BY <1>1, <1>2, <1>3 DEF Next

-----------------------------------------------------------------------------
(* Each kind of step is an abstract step *)

\* The abstract step taken by a row that leaves the unsettled statuses.
LEMMA LeavesView ==
  ASSUME AcknowledgedOK, AcknowledgedOK', NEW r \in Rounds, NEW s,
         Leaves(r, s), rounds[r].status # "COMMITTED"
  PROVE  /\ outcome' = [outcome EXCEPT ![r] = OutcomeOf(s)]
         /\ delivered' = delivered
         /\ s # "COMMITTED" => position' = position
         /\ s = "COMMITTED" =>
              position' = [position EXCEPT ![r] = rounds[r].sequence]
  BY DEF Leaves, OthersSame, SameRow, outcome, delivered, position

\* A step within the unsettled statuses is a block or nothing.
LEMMA ProceedsAbstractly ==
  ASSUME TypeOK, Proceeds, UNCHANGED wallet
  PROVE  Lifecycle!Block \/ UNCHANGED Lifecycle!vars
<1>1. ASSUME NEW q \in Rounds
      PROVE  /\ OutcomeOf(rounds'[q].status) = OutcomeOf(rounds[q].status)
             /\ rounds'[q].acknowledgedAt = rounds[q].acknowledgedAt
             /\ rounds'[q].sequence = rounds[q].sequence
             /\ rounds'[q].status = "COMMITTED" <=> rounds[q].status = "COMMITTED"
  BY Mapped DEF Proceeds, Unsettled, UnsettledStatus
<1>2. UNCHANGED <<outcome, funds, position, delivered>>
  BY <1>1 DEF outcome, funds, position, delivered
<1>3. /\ session'.pending = session.pending
      /\ session'.sequence = session.sequence
      /\ session'.status \in {session.status, "BLOCKED"}
  BY DEF Proceeds
<1>4. QED
  BY <1>2, <1>3
  DEF Lifecycle!Block, Lifecycle!vars, outcome, funds, position, delivered

\* Preparing a round starts it.
LEMMA StartsAbstractly ==
  ASSUME TypeOK, AcknowledgedOK, NEW r \in Rounds, Starts(r), UNCHANGED wallet
  PROVE  Lifecycle!Start(r)
<1>1. /\ outcome[r] = "absent"
      /\ outcome' = [outcome EXCEPT ![r] = "open"]
  <2>1. rounds'[r].status \in UnsettledStatus /\ rounds[r].status = "NONE"
    BY DEF Starts, UnsettledStatus
  <2>2. QED
    BY <2>1, Mapped DEF Starts, OthersSame, SameRow, outcome
<1>2. \A q \in Rounds : outcome[q] = "committed" => q \in delivered
  <2>1. \A q \in Rounds : /\ rounds[q].status = "COMMITTED"
                          => rounds[q].acknowledgedAt = "SET"
    BY DEF Starts, Undelivered, TypeOK, Round, Mark
  <2>2. \A q \in Rounds :
          outcome[q] = "committed" => rounds[q].status = "COMMITTED"
    BY DEF outcome, OutcomeOf
  <2>3. QED
    BY <2>1, <2>2 DEF delivered
<1>3. UNCHANGED <<funds, position, delivered>>
  <2>1. rounds[r].acknowledgedAt # "SET" /\ rounds'[r].acknowledgedAt # "SET"
    BY DEF Starts, AcknowledgedOK
  <2>2. QED
    BY <2>1 DEF Starts, OthersSame, SameRow, funds, position, delivered
<1>4. /\ session.pending = NoRound
      /\ session.status # "BLOCKED"
      /\ session'.pending = r
      /\ session'.sequence = session.sequence
      /\ session'.status = session.status
  BY DEF Starts
<1>5. QED
  BY <1>1, <1>2, <1>3, <1>4
  DEF Lifecycle!Start, outcome, funds, position, delivered

\* A settled receipt commits the round that is current, in its place.
LEMMA CommitsAbstractly ==
  ASSUME TypeOK, AcknowledgedOK, AcknowledgedOK', PendingPointer, BooksOK',
         NEW r \in Rounds, Commits(r), UNCHANGED wallet
  PROVE  Lifecycle!Commit(r)
<1>1. Unsettled(r) /\ rounds[r].status # "COMMITTED" /\ Leaves(r, "COMMITTED")
  BY DEF Commits, Open, OpenStatus, Unsettled, UnsettledStatus
<1>2. /\ outcome[r] = "open"
      /\ outcome' = [outcome EXCEPT ![r] = "committed"]
      /\ position' = [position EXCEPT ![r] = rounds[r].sequence]
      /\ UNCHANGED delivered
  BY <1>1, LeavesView, Mapped DEF outcome, Unsettled
<1>3. rounds[r].sequence = session.sequence + 1 /\ session.pending = r
  BY <1>1, OneUnsettled
<1>4. funds[r] \in {"moved", "reversed"} /\ UNCHANGED funds
  <2>1. wallet[r] \in {"APPLIED", "ROLLED_BACK"}
    BY <1>1 DEF BooksOK, BooksAgree, Leaves
  <2>2. QED
    BY <2>1, Mapped DEF funds
<1>5. /\ session'.pending = NoRound
      /\ session'.sequence = rounds[r].sequence
      /\ session'.status = session.status
  BY DEF Commits
<1>6. QED
  BY <1>2, <1>3, <1>4, <1>5
  DEF Lifecycle!Commit, outcome, funds, position, delivered

\* A rejection, by wallet, reviewer or expiry, rejects the current round.
LEMMA RejectsAbstractly ==
  ASSUME TypeOK, AcknowledgedOK, AcknowledgedOK', BooksOK',
         NEW r \in Rounds, Rejects(r), UNCHANGED wallet
  PROVE  Lifecycle!Reject(r)
<1>1. /\ Unsettled(r)
      /\ rounds[r].status # "COMMITTED"
      /\ session.pending = r
      /\ Leaves(r, "REJECTED")
  BY DEF Rejects, Unsettled, UnsettledStatus
<1>2. /\ outcome[r] = "open"
      /\ outcome' = [outcome EXCEPT ![r] = "rejected"]
      /\ UNCHANGED <<position, delivered>>
  BY <1>1, LeavesView, Mapped DEF outcome, Unsettled
<1>3. funds[r] \in {"none", "refused"} /\ UNCHANGED funds
  <2>1. wallet[r] \in {"NONE", "REJECTED"}
    BY <1>1 DEF BooksOK, BooksAgree, Leaves
  <2>2. QED
    BY <2>1, Mapped DEF funds
<1>4. /\ session'.pending = NoRound
      /\ session'.sequence = session.sequence
      /\ session'.status = session.status
  BY DEF Rejects
<1>5. QED
  BY <1>1, <1>2, <1>3, <1>4
  DEF Lifecycle!Reject, outcome, funds, position, delivered

\* Handing a round to staff reviews it and blocks the session.
LEMMA ReviewsAbstractly ==
  ASSUME TypeOK, AcknowledgedOK, AcknowledgedOK', NEW r \in Rounds, Reviews(r),
         UNCHANGED wallet
  PROVE  Lifecycle!Review(r)
<1>1. /\ rounds[r].status \in UnsettledStatus \cup {"REJECTED", "MANUAL_REVIEW"}
      /\ rounds[r].status # "COMMITTED"
      /\ Leaves(r, "MANUAL_REVIEW")
  BY DEF Reviews, TypeOK, Round, RoundStatus, UnsettledStatus
<1>2. /\ outcome[r] \in {"open", "rejected", "review"}
      /\ outcome' = [outcome EXCEPT ![r] = "review"]
      /\ UNCHANGED <<position, delivered>>
  BY <1>1, LeavesView, Mapped DEF outcome
<1>3. /\ session'.pending = session.pending
      /\ session'.sequence = session.sequence
      /\ session'.status = "BLOCKED"
      /\ UNCHANGED funds
  BY DEF Reviews, funds
<1>4. QED
  BY <1>2, <1>3 DEF Lifecycle!Review, outcome, funds, position, delivered

\* An acknowledgement delivers a committed result.
LEMMA DeliversAbstractly ==
  ASSUME TypeOK, NEW r \in Rounds, Delivers(r), UNCHANGED wallet
  PROVE  Lifecycle!Deliver(r)
<1>1. outcome[r] = "committed"
  BY Mapped DEF Delivers, outcome
<1>2. /\ delivered' = delivered \cup {r}
      /\ UNCHANGED <<outcome, funds, position>>
  BY DEF Delivers, OthersSame, SameRow, outcome, funds, position, delivered
<1>3. QED
  BY <1>1, <1>2
  DEF Delivers, Lifecycle!Deliver, outcome, funds, position, delivered

\* The wallet decides an open or reviewed round, once, and may reverse it.
LEMMA WalletAbstractly ==
  ASSUME TypeOK, BooksOK, NEW r \in Rounds, Apply(r) \/ Rollback(r)
  PROVE  Lifecycle!Decide(r) \/ Lifecycle!Reverse(r)
<1>1. UNCHANGED <<rounds, session>>
  BY DEF Apply, Rollback, store
<1>2. UNCHANGED <<outcome, position, delivered>>
  BY <1>1 DEF outcome, position, delivered
<1>3. CASE Apply(r)
  <2>1. PICK d \in {"APPLIED", "REJECTED"} :
          /\ r \in network
          /\ wallet[r] = "NONE"
          /\ wallet' = [wallet EXCEPT ![r] = d]
    BY <1>3 DEF Apply
  <2>2. rounds[r].status \in UnsettledStatus \cup {"MANUAL_REVIEW"}
    <3>1. rounds[r].status \notin {"NONE", "COMMITTED", "REJECTED"}
      BY <2>1 DEF BooksOK, BooksAgree
    <3>2. QED
      BY <3>1 DEF TypeOK, Round, RoundStatus, UnsettledStatus
  <2>3. outcome[r] \in {"open", "review"}
    BY <2>2, Mapped DEF outcome
  <2>4. /\ funds[r] = "none"
        /\ funds' = [funds EXCEPT ![r] = FundsOf(d)]
        /\ FundsOf(d) \in {"moved", "refused"}
    BY <2>1, Mapped DEF funds, TypeOK
  <2>5. QED
    BY <1>1, <1>2, <2>3, <2>4
    DEF Lifecycle!Decide, outcome, funds, position, delivered
<1>4. CASE Rollback(r)
  <2>1. /\ funds[r] = "moved"
        /\ funds' = [funds EXCEPT ![r] = "reversed"]
    BY <1>4, Mapped DEF Rollback, funds, TypeOK
  <2>2. QED
    BY <1>1, <1>2, <2>1
    DEF Lifecycle!Reverse, outcome, funds, position, delivered
<1>5. QED
  BY <1>3, <1>4

\* The initial state is an abstract initial state.
LEMMA InitAbstractly == Init => Lifecycle!Init
<1> SUFFICES ASSUME Init PROVE Lifecycle!Init
  OBVIOUS
<1>1. NoRow.status = "NONE" /\ NoRow.acknowledgedAt = "NULL"
  BY DEF NoRow
<1>2. \A r \in Rounds : rounds[r].status = "NONE"
                        /\ rounds[r].acknowledgedAt = "NULL"
                        /\ wallet[r] = "NONE"
  BY <1>1 DEF Init
<1>3. /\ outcome = [r \in Rounds |-> "absent"]
      /\ funds = [r \in Rounds |-> "none"]
      /\ position = [r \in Rounds |-> 0]
      /\ delivered = {}
  BY <1>2, Mapped DEF outcome, funds, position, delivered
<1>4. /\ session.pending = NoRound
      /\ session.status # "BLOCKED"
      /\ session.sequence = 0
  BY DEF Init
<1>5. QED
  BY <1>3, <1>4 DEF Lifecycle!Init, outcome, funds, position, delivered

\* What the simulation of a step needs to know about the state it starts in.
Linked == /\ TypeOK /\ WorkOK /\ AnswersBacked /\ BooksOK
          /\ PendingPointer /\ AcknowledgedOK

\* Every step is an abstract step or changes nothing abstract.
LEMMA StepAbstractly ==
  ASSUME Linked, Linked', [Next]_vars
  PROVE  [Lifecycle!Next]_(Lifecycle!vars)
<1>1. CASE UNCHANGED wallet
  <2>1. CASE Proceeds
    BY <1>1, <2>1, ProceedsAbstractly DEF Linked, Lifecycle!Next
  <2>2. ASSUME NEW r \in Rounds,
               \/ Delivers(r) \/ Starts(r) \/ Commits(r)
               \/ Rejects(r) \/ Reviews(r)
        PROVE  Lifecycle!Next
    BY <1>1, <2>2, DeliversAbstractly, StartsAbstractly, CommitsAbstractly,
       RejectsAbstractly, ReviewsAbstractly DEF Linked, Lifecycle!Next
  <2>3. QED
    BY <2>1, <2>2, StepKinds DEF Linked
<1>2. ASSUME NEW r \in Rounds, Apply(r) \/ Rollback(r)
      PROVE  Lifecycle!Next
  BY <1>2, WalletAbstractly DEF Linked, Lifecycle!Next
<1>3. QED
  BY <1>1, <1>2, WalletSteps

\* The settlement machinery, with its leases, retries, late messages, crashes
\* and quarantines, implements the abstract lifecycle of a round.
THEOREM Implements == Spec => ImplementsLifecycle
<1>1. Init => Linked
  BY InitType, InitWork, InitAnswers, InitBooks, InitPointer, InitAcknowledged
  DEF Linked
<1>2. Linked /\ [Next]_vars => Linked'
  BY NextType, NextWork, NextAnswers, NextBooks, NextPointer, NextAcknowledged
  DEF Linked
<1>3. Spec => []Linked
  BY <1>1, <1>2, PTL DEF Spec
<1>4. Linked /\ Linked' /\ [Next]_vars => [Lifecycle!Next]_(Lifecycle!vars)
  BY StepAbstractly
<1>5. QED
  BY InitAbstractly, <1>3, <1>4, PTL
  DEF Spec, ImplementsLifecycle, Lifecycle!Spec

-----------------------------------------------------------------------------
(***************************************************************************)
(* Part 4.  Retries and the audit trail.                                   *)
(***************************************************************************)

-----------------------------------------------------------------------------
(* The inductive invariants *)

\* The retry state of a row goes with its status: only an open row carries a
\* lease, a leased one waits for a LOOKUP, and nothing was sent before the
\* round was prepared and passed its review.
RowShape(r) ==
  /\ ~Open(r) => rounds[r].leaseUntil = 0
  /\ rounds[r].status = "NONE" => rounds[r].applyAttempts = 0
  /\ rounds[r].status \in {"NONE", "RISK_PENDING"} => lastSeen[r] = "NEVER"
  /\ rounds[r].status = "PREPARED" =>
       rounds[r].phase = "APPLY" /\ rounds[r].leaseUntil = 0
  /\ Open(r) /\ rounds[r].leaseUntil # 0 => rounds[r].phase = "LOOKUP"

RowsShaped == \A r \in Rounds : RowShape(r)

\* An executor that may send an APPLY, or make the row offer one again, and
\* still owns the row: the last request is not unanswered.
OwnerKnows(e) ==
  Working(e) /\ ownsWalletClaim(e) =>
    /\ exec[e].pc = "claimed" /\ exec[e].action = "APPLY" =>
         lastSeen[exec[e].round] # "SENT"
    /\ exec[e].pc = "answered" /\ exec[e].answer = "NOT_FOUND" =>
         lastSeen[exec[e].round] = "ABSENT"
    /\ exec[e].pc = "answered" /\ ApplyNotSent(e) =>
         lastSeen[exec[e].round] # "SENT"

OwnersKnow == \A e \in Executors : OwnerKnows(e)

\* Executors with an APPLY attempt of the round in hand that has not left.
HoldsUnsent(e, r) ==
  /\ exec[e].round = r
  /\ exec[e].action = "APPLY"
  /\ exec[e].pc = "claimed" \/ (exec[e].pc = "answered" /\ ApplyNotSent(e))

Unsent(r) == {e \in Executors : HoldsUnsent(e, r)}

\* Every request that left or may still leave was paid for by an attempt the
\* row still counts and by an event in the outbox.
Budgeted(r) ==
  /\ IsFiniteSet(Unsent(r))
  /\ applySent[r] + Cardinality(Unsent(r)) <= MaxWalletAttempts
  /\ applySent[r] + Cardinality(Unsent(r)) <= rounds[r].applyAttempts
  /\ applySent[r] + Cardinality(Unsent(r)) <= Cardinality(Claims(r))

BudgetOK == \A r \in Rounds : Budgeted(r)

CommittedIn(trail) == \E i \in DOMAIN trail : trail[i] = "ROUND_COMMITTED"

TrailOK ==
  \A r \in Rounds :
    /\ Replayed(outbox[r]) = rounds[r].status
    /\ CommittedIn(outbox[r]) <=> rounds[r].status = "COMMITTED"

-----------------------------------------------------------------------------
(* What each kind of write does to the phase and the attempts of a row *)

\* Closing a row keeps its attempts.
LEMMA ClosedAttempts ==
  ASSUME TypeOK, NEW r \in Rounds, NEW s, Closed(r, s)
  PROVE  rounds'[r].applyAttempts = rounds[r].applyAttempts
<1>1. rounds[r] \in Round
  BY DEF TypeOK
<1>2. rounds'[r] = [rounds[r] EXCEPT !.status = s, !.phase = "",
                                     !.nextAttemptAt = 0, !.leaseUntil = 0]
  BY DEF TypeOK, Closed
<1>3. QED
  BY <1>1, <1>2 DEF Round

\* So does a quarantine.
LEMMA QuarantineAttempts ==
  ASSUME TypeOK, NEW r \in Rounds, quarantineCorruptRound(r)
  PROVE  rounds'[r].applyAttempts = rounds[r].applyAttempts
<1>1. rounds[r] \in Round
  BY DEF TypeOK
<1>2. rounds'[r] =
        [rounds[r] EXCEPT !.status = QuarantinedStatus(r), !.phase = "",
                          !.nextAttemptAt = 0, !.leaseUntil = 0,
                          !.quarantinedAt = "SET"]
  BY DEF TypeOK, quarantineCorruptRound
<1>3. QED
  BY <1>1, <1>2 DEF Round

\* A claim leaves LOOKUP behind and counts an APPLY before it is handed out;
\* one that counts past the budget is handed out exhausted.
LEMMA ClaimAttempts ==
  ASSUME TypeOK, NEW e \in Executors, NEW r \in Rounds, NEW lease \in Nat,
         claimWalletLocked(e, r, lease)
  PROVE  /\ rounds'[r].phase = "LOOKUP"
         /\ exec'[e].action = rounds[r].phase
         /\ rounds[r].phase = "APPLY" =>
              /\ rounds'[r].applyAttempts = rounds[r].applyAttempts + 1
              /\ exec'[e].pc = "claimed" =>
                   ~(rounds'[r].applyAttempts > MaxWalletAttempts)
         /\ rounds[r].phase # "APPLY" =>
              rounds'[r].applyAttempts = rounds[r].applyAttempts
<1>1. rounds[r] \in Round /\ exec[e] \in Claim
  BY DEF TypeOK
<1>2. PICK until, applies, lookups, spent, p :
        /\ rounds[r].phase = "APPLY" => applies = rounds[r].applyAttempts + 1
        /\ rounds[r].phase # "APPLY" => applies = rounds[r].applyAttempts + 0
        /\ rounds[r].phase = "APPLY" => spent = applies
        /\ p = "claimed" => ~(spent > MaxWalletAttempts)
        /\ rounds' = [rounds EXCEPT ![r] =
             [@ EXCEPT !.status = "WALLET_PENDING", !.phase = "LOOKUP",
                       !.leaseUntil = until, !.nextAttemptAt = until,
                       !.applyAttempts = applies,
                       !.lookupAttempts = lookups]]
        /\ exec' = [exec EXCEPT ![e] =
             [pc |-> p, round |-> r, leaseUntil |-> until,
              action |-> rounds[r].phase, answer |-> ""]]
  BY Zenon DEF claimWalletLocked, ClaimedPhase
<1>3. /\ rounds'[r].phase = "LOOKUP"
      /\ rounds'[r].applyAttempts = applies
  <2>1. rounds'[r] =
           [rounds[r] EXCEPT !.status = "WALLET_PENDING", !.phase = "LOOKUP",
                             !.leaseUntil = until, !.nextAttemptAt = until,
                             !.applyAttempts = applies,
                             !.lookupAttempts = lookups]
    BY <1>2 DEF TypeOK
  <2>2. QED
    BY <1>1, <2>1 DEF Round
<1>4. /\ exec'[e].action = rounds[r].phase
      /\ exec'[e].pc = p
  <2>1. exec'[e] =
           [pc |-> p, round |-> r, leaseUntil |-> until,
            action |-> rounds[r].phase, answer |-> ""]
    BY <1>2 DEF TypeOK
  <2>2. ASSUME NEW claim, NEW a,
               claim = [pc |-> p, round |-> r, leaseUntil |-> until,
                        action |-> a, answer |-> ""]
        PROVE  claim.action = a /\ claim.pc = p
    BY <2>2
  <2>3. QED
    BY <2>1, <2>2, Zenon
<1>5. rounds[r].applyAttempts \in Nat
  BY <1>1 DEF Round
<1>6. rounds[r].applyAttempts + 0 = rounds[r].applyAttempts
  BY <1>5
<1>7. QED
  BY <1>2, <1>3, <1>4, <1>6, Zenon

\* A scheduled row waits for the action the answer leads to, and an attempt
\* proved unsent is given back.
LEMMA ScheduleAttempts ==
  ASSUME TypeOK, NEW e \in Executors, exec[e].round \in Rounds,
         ScheduleWalletRecovery(e)
  PROVE  LET r == exec[e].round IN
         /\ rounds'[r].phase = NextAction(e)
         /\ rounds'[r].applyAttempts = rounds[r].applyAttempts - Refund(e)
<1> DEFINE r == exec[e].round
<1>1. rounds[r] \in Round
  BY DEF TypeOK
<1>2. PICK due, applies :
        /\ applies = rounds[r].applyAttempts - Refund(e)
        /\ rounds' = [rounds EXCEPT ![r] =
             [@ EXCEPT !.phase = NextAction(e), !.nextAttemptAt = due,
                       !.leaseUntil = 0, !.applyAttempts = applies]]
  BY Zenon DEF ScheduleWalletRecovery
<1>3. rounds'[r] =
        [rounds[r] EXCEPT !.phase = NextAction(e), !.nextAttemptAt = due,
                          !.leaseUntil = 0, !.applyAttempts = applies]
  BY <1>2 DEF TypeOK
<1>4. rounds'[r].phase = NextAction(e) /\ rounds'[r].applyAttempts = applies
  BY <1>1, <1>3 DEF Round
<1>5. QED
  BY <1>2, <1>4

\* A row that becomes PREPARED waits for its first APPLY.
LEMMA PrepareAttempts ==
  ASSUME TypeOK, NEW r \in Rounds, PrepareRound(r)
  PROVE  /\ rounds'[r].applyAttempts = 0
         /\ PreparedStatus(r) = "PREPARED" => rounds'[r].phase = "APPLY"
<1>1. PICK s, p, due, sequence :
        /\ PreparedStatus(r) = "PREPARED" => p = "APPLY"
        /\ rounds' = [rounds EXCEPT ![r] =
             [NoRow EXCEPT !.status = s, !.phase = p,
                           !.nextAttemptAt = due,
                           !.startRevision = session.revision,
                           !.sequence = sequence]]
  BY Zenon DEF PrepareRound
<1>2. rounds'[r] =
        [NoRow EXCEPT !.status = s, !.phase = p,
                      !.nextAttemptAt = due,
                      !.startRevision = session.revision,
                      !.sequence = sequence]
  BY <1>1 DEF TypeOK
<1>3. rounds'[r].applyAttempts = 0 /\ rounds'[r].phase = p
  BY <1>2 DEF NoRow
<1>4. QED
  BY <1>1, <1>3, Zenon

\* An approved row too.
LEMMA ApproveAttempts ==
  ASSUME TypeOK, NEW r \in Rounds, Approved(r)
  PROVE  /\ rounds'[r].applyAttempts = rounds[r].applyAttempts
         /\ rounds'[r].phase = "APPLY"
<1>1. rounds[r] \in Round
  BY DEF TypeOK
<1>2. PICK due : rounds'[r] = [rounds[r] EXCEPT !.status = "PREPARED",
                                                !.phase = "APPLY",
                                                !.nextAttemptAt = due]
  BY DEF TypeOK, Approved
<1>3. QED
  BY <1>1, <1>2 DEF Round

\* An acknowledgement has nothing to do with retries.
LEMMA AcknowledgeAttempts ==
  ASSUME TypeOK, NEW r \in Rounds, AcknowledgeResultDelivery(r)
  PROVE  /\ rounds'[r].applyAttempts = rounds[r].applyAttempts
         /\ rounds'[r].phase = rounds[r].phase
<1>1. rounds[r] \in Round
  BY DEF TypeOK
<1>2. rounds'[r] = [rounds[r] EXCEPT !.acknowledgedAt = "SET"]
  BY DEF TypeOK, AcknowledgeResultDelivery
<1>3. QED
  BY <1>1, <1>2 DEF Round

-----------------------------------------------------------------------------
(* What a step does to the retry state of rows and claims: six kinds *)

OthersKept(r) == \A q \in Rounds \ {r} : rounds'[q] = rounds[q]

ClaimsKept(e) == \A f \in Executors \ {e} : exec'[f] = exec[f]

SameRetry(q) ==
  /\ rounds'[q].status = rounds[q].status
  /\ rounds'[q].phase = rounds[q].phase
  /\ rounds'[q].leaseUntil = rounds[q].leaseUntil
  /\ rounds'[q].applyAttempts = rounds[q].applyAttempts

\* At most a claim ends.
ClaimsEnd == \A f \in Executors : exec'[f] = exec[f] \/ exec'[f].pc = "idle"

Rests ==
  /\ \A q \in Rounds : SameRetry(q)
  /\ ClaimsEnd
  /\ UNCHANGED <<applySent, lastSeen>>

\* A round that was never claimable is prepared or approved.
Opens(r) ==
  /\ rounds[r].status \in {"NONE", "RISK_PENDING"}
  /\ OthersKept(r)
  /\ rounds'[r].status \in {"RISK_PENDING", "PREPARED"}
  /\ rounds'[r].leaseUntil = 0
  /\ rounds'[r].applyAttempts = rounds[r].applyAttempts
  /\ rounds'[r].status = "PREPARED" => rounds'[r].phase = "APPLY"
  /\ UNCHANGED <<exec, applySent, lastSeen>>

\* A round leaves the open statuses.
Settles(r) ==
  /\ OthersKept(r)
  /\ rounds'[r].status \in {"COMMITTED", "REJECTED", "MANUAL_REVIEW"}
  /\ rounds'[r].leaseUntil = 0
  /\ rounds'[r].applyAttempts = rounds[r].applyAttempts
  /\ ClaimsEnd
  /\ UNCHANGED <<applySent, lastSeen>>

\* A claim is handed out.
Hands(e, r) ==
  /\ exec[e].pc = "idle"
  /\ Open(r)
  /\ rounds[r].phase \in Actions
  /\ OthersKept(r)
  /\ rounds'[r].status = "WALLET_PENDING"
  /\ rounds'[r].phase = "LOOKUP"
  /\ rounds'[r].leaseUntil = exec'[e].leaseUntil
  /\ rounds[r].phase = "APPLY" =>
       /\ rounds'[r].applyAttempts = rounds[r].applyAttempts + 1
       /\ exec'[e].pc = "claimed" =>
            ~(rounds'[r].applyAttempts > MaxWalletAttempts)
       /\ Emit(r, "WALLET_CLAIMED")
  /\ rounds[r].phase # "APPLY" =>
       rounds'[r].applyAttempts = rounds[r].applyAttempts
  /\ ClaimsKept(e)
  /\ exec'[e].pc \in {"claimed", "exhausted"}
  /\ exec'[e].round = r
  /\ exec'[e].action = rounds[r].phase
  /\ UNCHANGED <<applySent, lastSeen>>

\* A claim keeps its round, its token and its action.
SameClaim(e) ==
  /\ exec'[e].round = exec[e].round
  /\ exec'[e].leaseUntil = exec[e].leaseUntil
  /\ exec'[e].action = exec[e].action

\* A claim gets its answer; only a claim not yet sent may be proved unsent.
Answered(e, a) ==
  /\ Working(e)
  /\ exec'[e].pc = "answered"
  /\ exec'[e].answer = a
  /\ a = "NOT_SENT" => exec[e].pc = "claimed"
  /\ lastSeen' = IF a = "NOT_FOUND"
                 THEN [lastSeen EXCEPT ![exec[e].round] = "ABSENT"]
                 ELSE lastSeen
  /\ ClaimsKept(e)
  /\ SameClaim(e)
  /\ UNCHANGED <<rounds, applySent>>

\* The APPLY of a claim leaves.
Sends(e) ==
  /\ exec[e].pc = "claimed"
  /\ exec[e].action = "APPLY"
  /\ TimelyDeadlines => now < exec[e].leaseUntil
  /\ exec'[e].pc = "sent"
  /\ applySent' = [applySent EXCEPT ![exec[e].round] = @ + 1]
  /\ lastSeen' = [lastSeen EXCEPT ![exec[e].round] = "SENT"]
  /\ ClaimsKept(e)
  /\ SameClaim(e)
  /\ UNCHANGED rounds

\* The owner of a row gives its lease back and schedules the next action.
Schedules(e) ==
  LET r == exec[e].round IN
  /\ exec[e].pc = "answered"
  /\ exec[e].answer \in {"UNKNOWN", "NOT_SENT", "NOT_FOUND"}
  /\ ownsWalletClaim(e)
  /\ OthersKept(r)
  /\ rounds'[r].status = rounds[r].status
  /\ rounds'[r].phase = NextAction(e)
  /\ rounds'[r].leaseUntil = 0
  /\ rounds'[r].applyAttempts = rounds[r].applyAttempts - Refund(e)
  /\ ClaimsKept(e)
  /\ exec'[e].pc = "idle"
  /\ UNCHANGED <<applySent, lastSeen>>

\* The six kinds are all there is.
LEMMA RetryKinds ==
  ASSUME TypeOK, WorkOK, RowsShaped, [Next]_vars
  PROVE  \/ Rests
         \/ \E r \in Rounds : Opens(r) \/ Settles(r)
         \/ \E e \in Executors, r \in Rounds : Hands(e, r)
         \/ \E e \in Executors, a \in Answers : Answered(e, a)
         \/ \E e \in Executors : Sends(e) \/ Schedules(e)
<1> USE SettlementAssumption
<1>1. ASSUME NEW e \in Executors, NEW r \in Rounds, NEW lease \in Nat,
             claimWalletLocked(e, r, lease)
      PROVE  Hands(e, r)
  <2>1. /\ exec[e].pc = "idle" /\ Open(r) /\ rounds[r].phase \in Actions
        /\ rounds[r].phase = "APPLY" => Emit(r, "WALLET_CLAIMED")
        /\ UNCHANGED <<applySent, lastSeen>>
    BY <1>1, Zenon DEF claimWalletLocked, ClaimEvent, history
  <2>2. /\ OthersKept(r)
        /\ rounds'[r].status = "WALLET_PENDING"
        /\ rounds'[r].leaseUntil = exec'[e].leaseUntil
        /\ ClaimsKept(e)
        /\ exec'[e].pc \in {"claimed", "exhausted"}
        /\ exec'[e].round = r
    BY <1>1, ClaimView DEF OthersKept, ClaimsKept
  <2>3. /\ rounds'[r].phase = "LOOKUP"
        /\ exec'[e].action = rounds[r].phase
        /\ rounds[r].phase = "APPLY" =>
             /\ rounds'[r].applyAttempts = rounds[r].applyAttempts + 1
             /\ exec'[e].pc = "claimed" =>
                  ~(rounds'[r].applyAttempts > MaxWalletAttempts)
        /\ rounds[r].phase # "APPLY" =>
             rounds'[r].applyAttempts = rounds[r].applyAttempts
    BY <1>1, ClaimAttempts, Zenon
  <2>4. QED
    BY <2>1, <2>2, <2>3, Zenon DEF Hands
<1>2. ASSUME NEW e \in Executors,
             \/ RefuseClaim(e) \/ FailBeforeSend(e)
             \/ ReceiveSubmitAnswer(e) \/ Resolve(e)
      PROVE  \E a \in Answers : Answered(e, a)
  <2>1. PICK a \in Answers :
          /\ Answer(e, a)
          /\ a = "NOT_SENT" => exec[e].pc = "claimed"
          /\ lastSeen' = IF a = "NOT_FOUND"
                         THEN [lastSeen EXCEPT ![exec[e].round] = "ABSENT"]
                         ELSE lastSeen
    <3>1. CASE RefuseClaim(e)
      BY <3>1 DEF RefuseClaim, history, Answers
    <3>2. CASE FailBeforeSend(e)
      BY <3>2 DEF FailBeforeSend, history, Answers
    <3>3. CASE ReceiveSubmitAnswer(e)
      BY <3>3 DEF ReceiveSubmitAnswer, submitRoundAnswers, history
    <3>4. CASE Resolve(e)
      BY <3>4 DEF Resolve, resolveAnswers, submitRoundAnswers
    <3>5. QED
      BY <1>2, <3>1, <3>2, <3>3, <3>4
  <2>2. Working(e) /\ UNCHANGED <<rounds, applySent>>
    BY <1>2 DEF Working, RefuseClaim, FailBeforeSend, ReceiveSubmitAnswer,
       Resolve, store, history
  <2>3. QED
    BY <2>1, <2>2, AnswerView, Zenon DEF Answered, ClaimsKept, SameClaim
<1>3. ASSUME NEW e \in Executors, SubmitRound(e)
      PROVE  Sends(e)
  <2>1. UNCHANGED rounds
    BY <1>3 DEF SubmitRound, store
  <2>2. QED
    BY <1>3, <2>1, SendView, Zenon
    DEF SubmitRound, Sends, ClaimsKept, SameClaim
<1>4. ASSUME NEW e \in Executors,
             CommitClaim(e) \/ RejectClaim(e) \/ MarkClaimManualReview(e)
      PROVE  \E r \in Rounds : Settles(r)
  <2>1. PICK s \in {"COMMITTED", "REJECTED", "MANUAL_REVIEW"} :
          /\ Working(e)
          /\ Finish(e)
          /\ Closed(exec[e].round, s)
          /\ UNCHANGED <<applySent, lastSeen>>
    BY <1>4 DEF CommitClaim, RejectClaim, MarkClaimManualReview, Working,
       history
  <2>2. PICK r \in Rounds : r = exec[e].round
    BY <2>1 DEF WorkOK
  <2>3. ClaimsEnd
    BY <2>1, FinishView DEF ClaimsEnd
  <2>4. QED
    BY <2>1, <2>2, <2>3, ClosedView, ClosedAttempts DEF Settles, OthersKept
<1>5. ASSUME NEW e \in Executors, ScheduleWalletRecovery(e)
      PROVE  Schedules(e)
  <2>1. /\ Working(e) /\ Finish(e)
        /\ exec[e].pc = "answered"
        /\ exec[e].answer \in {"UNKNOWN", "NOT_SENT", "NOT_FOUND"}
        /\ ownsWalletClaim(e)
        /\ UNCHANGED <<applySent, lastSeen>>
    BY <1>5 DEF ScheduleWalletRecovery, Working, history
  <2>2. exec[e].round \in Rounds
    BY <2>1 DEF WorkOK
  <2>3. QED
    BY <1>5, <2>1, <2>2, FinishView, ScheduleView, ScheduleAttempts, Zenon
    DEF Schedules, OthersKept, ClaimsKept
<1>6. ASSUME NEW e \in Executors, resolveStaleClaim(e) \/ Abandon(e)
      PROVE  Rests
  <2>1. Finish(e) /\ UNCHANGED <<rounds, applySent, lastSeen>>
    BY <1>6 DEF resolveStaleClaim, Abandon, store, history
  <2>2. QED
    BY <2>1, FinishView DEF Rests, SameRetry, ClaimsEnd
<1>7. ASSUME NEW r \in Rounds, PrepareRound(r)
      PROVE  Opens(r)
  <2>1. /\ rounds[r].status = "NONE"
        /\ UNCHANGED <<exec, applySent, lastSeen>>
    BY <1>7 DEF PrepareRound, history
  <2>2. rounds[r].applyAttempts = 0
    BY <2>1 DEF RowsShaped, RowShape
  <2>3. PreparedStatus(r) \in {"RISK_PENDING", "PREPARED"}
    BY DEF PreparedStatus
  <2>4. QED
    BY <1>7, <2>1, <2>2, <2>3, PrepareView, PrepareAttempts
    DEF Opens, OthersKept
<1>8. ASSUME NEW r \in Rounds, AcknowledgeResultDelivery(r)
      PROVE  Rests
  <2>1. UNCHANGED <<exec, applySent, lastSeen>>
    BY <1>8 DEF AcknowledgeResultDelivery, history
  <2>2. \A q \in Rounds : SameRetry(q)
    BY <1>8, AcknowledgeView, AcknowledgeAttempts DEF SameRetry
  <2>3. QED
    BY <2>1, <2>2 DEF Rests, ClaimsEnd
<1>9. ASSUME NEW r \in Rounds, DecideRisk(r) \/ expireRiskLocked(r)
      PROVE  Opens(r) \/ Settles(r)
  <2>1. /\ rounds[r].status = "RISK_PENDING"
        /\ UNCHANGED <<exec, applySent, lastSeen>>
        /\ \/ Approved(r)
           \/ \E s \in {"REJECTED", "MANUAL_REVIEW"} : Closed(r, s)
    BY <1>9 DEF DecideRisk, expireRiskLocked, history
  <2>2. CASE Approved(r)
    <3>1. rounds[r].leaseUntil = 0
      BY <2>1 DEF RowsShaped, RowShape, Open, OpenStatus
    <3>2. QED
      BY <2>1, <2>2, <3>1, ApproveView, ApproveAttempts DEF Opens, OthersKept
  <2>3. CASE \E s \in {"REJECTED", "MANUAL_REVIEW"} : Closed(r, s)
    BY <2>1, <2>3, ClosedView, ClosedAttempts
    DEF Settles, OthersKept, ClaimsEnd
  <2>4. QED
    BY <2>1, <2>2, <2>3
<1>10. ASSUME NEW r \in Rounds, quarantineCorruptRound(r)
       PROVE  Settles(r)
  <2>1. UNCHANGED <<exec, applySent, lastSeen>>
    BY <1>10 DEF quarantineCorruptRound, history
  <2>2. QuarantinedStatus(r) \in {"COMMITTED", "MANUAL_REVIEW"}
    BY DEF QuarantinedStatus, economicallyFinal
  <2>3. QED
    BY <1>10, <2>1, <2>2, QuarantineView, QuarantineAttempts
    DEF Settles, OthersKept, ClaimsEnd
<1>11. ASSUME UNCHANGED <<rounds, exec, applySent, lastSeen>>
       PROVE  Rests
  BY <1>11 DEF Rests, SameRetry, ClaimsEnd
<1>12. QED
  BY <1>1, <1>2, <1>3, <1>4, <1>5, <1>6, <1>7, <1>8, <1>9, <1>10, <1>11
  DEF Next, ExecutorStep, RoundStep, ClaimWallet, ClaimRecoverableRounds,
      Apply, Rollback, quarantineCorruptSession, Tick, store, history, vars

-----------------------------------------------------------------------------
(* The shape of the rows *)

\* Initially no row carries a lease and nothing was sent.
LEMMA InitShape == Init => RowsShaped
<1> SUFFICES ASSUME Init, NEW r \in Rounds PROVE RowShape(r)
  BY DEF RowsShaped
<1>1. rounds[r] = NoRow /\ lastSeen[r] = "NEVER"
  BY DEF Init
<1>2. NoRow.status = "NONE" /\ NoRow.leaseUntil = 0 /\ NoRow.applyAttempts = 0
  BY DEF NoRow
<1>3. QED
  BY <1>1, <1>2 DEF RowShape, Open, OpenStatus

\* Every kind of step keeps the shape.
LEMMA NextShape ==
  ASSUME TypeOK, WorkOK, RowsShaped, [Next]_vars
  PROVE  RowsShaped'
<1> SUFFICES ASSUME NEW q \in Rounds PROVE RowShape(q)'
  BY DEF RowsShaped
<1>0. RowShape(q)
  BY DEF RowsShaped
<1>1. CASE Rests
  BY <1>0, <1>1 DEF Rests, SameRetry, RowShape, Open
<1>2. ASSUME NEW r \in Rounds, Opens(r)
      PROVE  RowShape(q)'
  <2>1. CASE q = r
    BY <1>0, <1>2, <2>1 DEF Opens, RowShape, Open, OpenStatus
  <2>2. CASE q # r
    BY <1>0, <1>2, <2>2 DEF Opens, OthersKept, RowShape, Open
  <2>3. QED
    BY <2>1, <2>2
<1>3. ASSUME NEW r \in Rounds, Settles(r)
      PROVE  RowShape(q)'
  <2>1. CASE q = r
    BY <1>3, <2>1 DEF Settles, RowShape, Open, OpenStatus
  <2>2. CASE q # r
    BY <1>0, <1>3, <2>2 DEF Settles, OthersKept, RowShape, Open
  <2>3. QED
    BY <2>1, <2>2
<1>4. ASSUME NEW e \in Executors, NEW r \in Rounds, Hands(e, r)
      PROVE  RowShape(q)'
  <2>1. CASE q = r
    BY <1>4, <2>1 DEF Hands, RowShape, Open, OpenStatus
  <2>2. CASE q # r
    BY <1>0, <1>4, <2>2 DEF Hands, OthersKept, RowShape, Open
  <2>3. QED
    BY <2>1, <2>2
<1>5. ASSUME NEW e \in Executors,
             Sends(e) \/ \E a \in Answers : Answered(e, a)
      PROVE  RowShape(q)'
  <2>1. Working(e) /\ UNCHANGED rounds
    BY <1>5 DEF Answered, Sends, Working
  <2>2. \/ lastSeen' = lastSeen
        \/ \E s : lastSeen' = [lastSeen EXCEPT ![exec[e].round] = s]
    BY <1>5, Zenon DEF Answered, Sends
  <2>3. rounds[exec[e].round].status \notin {"NONE", "RISK_PENDING"}
    BY <2>1 DEF WorkOK
  <2>4. rounds[q].status \in {"NONE", "RISK_PENDING"} =>
          lastSeen'[q] = lastSeen[q]
    BY <2>2, <2>3 DEF TypeOK
  <2>5. QED
    BY <1>0, <2>1, <2>4 DEF RowShape, Open
<1>6. ASSUME NEW e \in Executors, Schedules(e)
      PROVE  RowShape(q)'
  <2>1. /\ Working(e)
        /\ Open(exec[e].round)
        /\ rounds[exec[e].round].leaseUntil # 0
    BY <1>6 DEF Schedules, ownsWalletClaim, Working
  <2>2. PICK r \in Rounds : r = exec[e].round
    BY <2>1 DEF WorkOK
  <2>3. rounds[r].status = "WALLET_PENDING"
    BY <2>1, <2>2 DEF RowsShaped, RowShape, Open, OpenStatus
  <2>4. CASE q = r
    BY <1>6, <2>2, <2>3, <2>4 DEF Schedules, RowShape, Open, OpenStatus
  <2>5. CASE q # r
    BY <1>0, <1>6, <2>2, <2>5 DEF Schedules, OthersKept, RowShape, Open
  <2>6. QED
    BY <2>4, <2>5
<1>7. QED
  BY <1>1, <1>2, <1>3, <1>4, <1>5, <1>6, RetryKinds

\* All that the retry proofs know of the claims and the rows.
LEMMA ShapedClaims == Spec => [](TypeOK /\ WorkOK /\ TokenOrder /\ RowsShaped)
<1>1. Init => RowsShaped
  BY InitShape
<1>2. TypeOK /\ WorkOK /\ RowsShaped /\ [Next]_vars => RowsShaped'
  BY NextShape
<1>3. QED
  BY <1>1, <1>2, ClaimsInOrder, PTL DEF Spec

-----------------------------------------------------------------------------
(* No blind repetition *)

\* An owner of an open row is the only one.
LEMMA OneOwner ==
  ASSUME TokenOrder,
         NEW e \in Executors, Working(e), ownsWalletClaim(e),
         NEW f \in Executors \ {e}, Working(f), exec[f].round = exec[e].round
  PROVE  ~ownsWalletClaim(f)
  BY DEF TokenOrder, ownsWalletClaim

\* With deadlines that fire in time, the sender of an APPLY owns its row.
LEMMA SenderOwns ==
  ASSUME TypeOK, WorkOK, TokenOrder, TimelyDeadlines,
         NEW e \in Executors, Sends(e), Open(exec[e].round)
  PROVE  ownsWalletClaim(e)
<1>1. Working(e) /\ now < exec[e].leaseUntil
  BY DEF Sends, Working
<1>2. now \in Nat /\ exec[e].leaseUntil \in Nat
  BY TokenTypes
<1>3. exec[e].leaseUntil = rounds[exec[e].round].leaseUntil
  BY <1>1, <1>2 DEF TokenOrder
<1>4. QED
  BY <1>1, <1>3 DEF ownsWalletClaim, WorkOK

\* Nothing is known, and nothing offered, that an answer did not say.
LEMMA NextKnows ==
  ASSUME TypeOK, WorkOK, TokenOrder, TokenOrder', RowsShaped, TimelyDeadlines,
         NoBlindReapply, OwnersKnow, [Next]_vars
  PROVE  (NoBlindReapply /\ OwnersKnow)'
<1>1. CASE Rests
  <2>1. NoBlindReapply'
    BY <1>1 DEF Rests, SameRetry, NoBlindReapply, Open
  <2>2. ASSUME NEW f \in Executors, Working(f)', ownsWalletClaim(f)'
        PROVE  OwnerKnows(f)'
    <3>1. exec'[f] = exec[f] /\ Working(f) /\ exec[f].round \in Rounds
      BY <1>1, <2>2 DEF Rests, ClaimsEnd, Working, WorkOK
    <3>2. ownsWalletClaim(f)
      BY <1>1, <2>2, <3>1 DEF Rests, SameRetry, ownsWalletClaim, Open
    <3>3. OwnerKnows(f)
      BY DEF OwnersKnow
    <3>4. QED
      BY <1>1, <3>1, <3>2, <3>3 DEF Rests, OwnerKnows, ApplyNotSent
  <2>3. QED
    BY <2>1, <2>2 DEF OwnersKnow, OwnerKnows
<1>2. ASSUME NEW r \in Rounds, Opens(r) \/ Settles(r)
      PROVE  (NoBlindReapply /\ OwnersKnow)'
  <2>1. /\ OthersKept(r)
        /\ rounds'[r].leaseUntil = 0
        /\ ClaimsEnd
        /\ UNCHANGED lastSeen
        /\ Open(r)' => lastSeen[r] = "NEVER"
    BY <1>2 DEF Opens, Settles, ClaimsEnd, RowsShaped, RowShape, Open,
       OpenStatus
  <2>2. NoBlindReapply'
    BY <2>1 DEF OthersKept, NoBlindReapply, Open
  <2>3. ASSUME NEW f \in Executors, Working(f)', ownsWalletClaim(f)'
        PROVE  OwnerKnows(f)'
    <3>1. exec'[f] = exec[f] /\ Working(f) /\ exec[f].round \in Rounds
      BY <2>1, <2>3 DEF ClaimsEnd, Working, WorkOK
    <3>2. exec[f].round # r
      BY <2>1, <2>3, <3>1 DEF ownsWalletClaim
    <3>3. ownsWalletClaim(f)
      BY <2>1, <2>3, <3>1, <3>2 DEF OthersKept, ownsWalletClaim, Open
    <3>4. OwnerKnows(f)
      BY DEF OwnersKnow
    <3>5. QED
      BY <2>1, <3>1, <3>3, <3>4 DEF OwnerKnows, ApplyNotSent
  <2>4. QED
    BY <2>2, <2>3 DEF OwnersKnow, OwnerKnows
<1>3. ASSUME NEW e \in Executors, NEW r \in Rounds, Hands(e, r)
      PROVE  (NoBlindReapply /\ OwnersKnow)'
  <2>1. /\ OthersKept(r) /\ ClaimsKept(e) /\ UNCHANGED lastSeen
        /\ rounds'[r].phase = "LOOKUP"
        /\ rounds'[r].leaseUntil = exec'[e].leaseUntil
        /\ Open(r) /\ Open(r)'
        /\ exec'[e].pc \in {"claimed", "exhausted"}
        /\ exec'[e].round = r
        /\ exec'[e].action = rounds[r].phase
    BY <1>3 DEF Hands, Open, OpenStatus
  <2>2. NoBlindReapply'
    BY <2>1 DEF OthersKept, NoBlindReapply, Open
  <2>3. OwnerKnows(e)'
    BY <2>1 DEF OwnerKnows, NoBlindReapply
  <2>4. ASSUME NEW f \in Executors \ {e}, Working(f)', ownsWalletClaim(f)'
        PROVE  OwnerKnows(f)'
    <3>1. exec'[f] = exec[f] /\ Working(f) /\ exec[f].round \in Rounds
      BY <2>1, <2>4 DEF ClaimsKept, Working, WorkOK
    <3>2. exec[f].round # r
      <4>1. Working(e)'
        BY <2>1 DEF Working
      <4>2. exec'[f].round = r =>
              exec'[f].leaseUntil # exec'[e].leaseUntil
        BY <2>1, <2>4, <4>1 DEF TokenOrder
      <4>3. QED
        BY <2>1, <2>4, <3>1, <4>2 DEF ownsWalletClaim
    <3>3. ownsWalletClaim(f)
      BY <2>1, <2>4, <3>1, <3>2 DEF OthersKept, ownsWalletClaim, Open
    <3>4. OwnerKnows(f)
      BY DEF OwnersKnow
    <3>5. QED
      BY <2>1, <3>1, <3>3, <3>4 DEF OwnerKnows, ApplyNotSent
  <2>5. QED
    BY <2>2, <2>3, <2>4 DEF OwnersKnow, OwnerKnows
<1>4. ASSUME NEW e \in Executors, NEW a \in Answers, Answered(e, a)
      PROVE  (NoBlindReapply /\ OwnersKnow)'
  <2>1. /\ Working(e) /\ ClaimsKept(e) /\ SameClaim(e) /\ UNCHANGED rounds
        /\ exec'[e].pc = "answered"
        /\ exec'[e].answer = a
        /\ a = "NOT_SENT" => exec[e].pc = "claimed"
        /\ a # "NOT_FOUND" => lastSeen' = lastSeen
        /\ a = "NOT_FOUND" =>
             lastSeen' = [lastSeen EXCEPT ![exec[e].round] = "ABSENT"]
    BY <1>4, Zenon DEF Answered
  <2>2. exec[e].round \in Rounds
    BY <2>1 DEF WorkOK
  <2>3. /\ \A q \in Rounds : lastSeen'[q] \in {lastSeen[q], "ABSENT"}
        /\ \A q \in Rounds \ {exec[e].round} : lastSeen'[q] = lastSeen[q]
        /\ a = "NOT_FOUND" => lastSeen'[exec[e].round] = "ABSENT"
    BY <2>1, <2>2 DEF TypeOK
  <2>4. NoBlindReapply'
    BY <2>1, <2>3 DEF NoBlindReapply, Open
  <2>5. OwnerKnows(e)'
    <3>1. ownsWalletClaim(e)' => ownsWalletClaim(e)
      BY <2>1 DEF SameClaim, ownsWalletClaim, Open
    <3>2. OwnerKnows(e)
      BY DEF OwnersKnow
    <3>3. CASE a = "NOT_FOUND"
      BY <2>1, <2>3, <3>3 DEF OwnerKnows, ApplyNotSent, SameClaim
    <3>4. CASE a # "NOT_FOUND"
      BY <2>1, <3>1, <3>2, <3>4 DEF OwnerKnows, ApplyNotSent, SameClaim
    <3>5. QED
      BY <3>3, <3>4
  <2>6. ASSUME NEW f \in Executors \ {e}, Working(f)', ownsWalletClaim(f)'
        PROVE  OwnerKnows(f)'
    <3>1. exec'[f] = exec[f] /\ Working(f) /\ exec[f].round \in Rounds
      BY <2>1, <2>6 DEF ClaimsKept, Working, WorkOK
    <3>2. ownsWalletClaim(f)
      BY <2>1, <2>6, <3>1 DEF ownsWalletClaim, Open
    <3>3. OwnerKnows(f)
      BY DEF OwnersKnow
    <3>4. lastSeen'[exec[f].round] \in {lastSeen[exec[f].round], "ABSENT"}
      BY <2>3, <3>1
    <3>5. QED
      BY <3>1, <3>2, <3>3, <3>4 DEF OwnerKnows, ApplyNotSent
  <2>7. QED
    BY <2>4, <2>5, <2>6 DEF OwnersKnow, OwnerKnows
<1>5. ASSUME NEW e \in Executors, Sends(e)
      PROVE  (NoBlindReapply /\ OwnersKnow)'
  <2>1. /\ Working(e) /\ ClaimsKept(e) /\ SameClaim(e) /\ UNCHANGED rounds
        /\ exec'[e].pc = "sent"
        /\ lastSeen' = [lastSeen EXCEPT ![exec[e].round] = "SENT"]
    BY <1>5 DEF Sends, Working
  <2>2. exec[e].round \in Rounds
    BY <2>1 DEF WorkOK
  <2>3. \A q \in Rounds \ {exec[e].round} : lastSeen'[q] = lastSeen[q]
    BY <2>1 DEF TypeOK
  <2>4. Open(exec[e].round) => ownsWalletClaim(e)
    BY <1>5, SenderOwns
  <2>5. Open(exec[e].round) => rounds[exec[e].round].phase = "LOOKUP"
    BY <2>2, <2>4 DEF ownsWalletClaim, RowsShaped, RowShape
  <2>6. NoBlindReapply'
    BY <2>1, <2>3, <2>5 DEF NoBlindReapply, Open
  <2>7. OwnerKnows(e)'
    BY <2>1 DEF OwnerKnows
  <2>8. ASSUME NEW f \in Executors \ {e}, Working(f)', ownsWalletClaim(f)'
        PROVE  OwnerKnows(f)'
    <3>1. exec'[f] = exec[f] /\ Working(f) /\ exec[f].round \in Rounds
      BY <2>1, <2>8 DEF ClaimsKept, Working, WorkOK
    <3>2. ownsWalletClaim(f)
      BY <2>1, <2>8, <3>1 DEF ownsWalletClaim, Open
    <3>3. exec[f].round # exec[e].round
      BY <2>1, <2>4, <3>1, <3>2, OneOwner DEF ownsWalletClaim
    <3>4. OwnerKnows(f)
      BY DEF OwnersKnow
    <3>5. QED
      BY <2>3, <3>1, <3>2, <3>3, <3>4 DEF OwnerKnows, ApplyNotSent
  <2>9. QED
    BY <2>6, <2>7, <2>8 DEF OwnersKnow, OwnerKnows
<1>6. ASSUME NEW e \in Executors, Schedules(e)
      PROVE  (NoBlindReapply /\ OwnersKnow)'
  <2>1. /\ ClaimsKept(e) /\ UNCHANGED lastSeen
        /\ exec[e].pc = "answered" /\ Working(e)
        /\ ownsWalletClaim(e)
        /\ exec'[e].pc = "idle"
    BY <1>6 DEF Schedules, Working
  <2>2. PICK r \in Rounds : r = exec[e].round
    BY <2>1 DEF WorkOK
  <2>3. /\ OthersKept(r)
        /\ rounds'[r].phase = NextAction(e)
        /\ rounds'[r].leaseUntil = 0
    BY <1>6, <2>2 DEF Schedules
  <2>4. NextAction(e) = "APPLY" => lastSeen[r] # "SENT"
    <3>1. OwnerKnows(e)
      BY DEF OwnersKnow
    <3>2. QED
      BY <2>1, <2>2, <3>1 DEF OwnerKnows, NextAction, ApplyNotSent
  <2>5. NoBlindReapply'
    BY <2>1, <2>3, <2>4 DEF OthersKept, NoBlindReapply, Open
  <2>6. ASSUME NEW f \in Executors, Working(f)', ownsWalletClaim(f)'
        PROVE  OwnerKnows(f)'
    <3>1. exec'[f] = exec[f] /\ Working(f) /\ exec[f].round \in Rounds
      BY <2>1, <2>6 DEF ClaimsKept, Working, WorkOK
    <3>2. exec[f].round # r
      BY <2>3, <2>6, <3>1 DEF ownsWalletClaim
    <3>3. ownsWalletClaim(f)
      BY <2>3, <2>6, <3>1, <3>2 DEF OthersKept, ownsWalletClaim, Open
    <3>4. OwnerKnows(f)
      BY DEF OwnersKnow
    <3>5. QED
      BY <2>1, <3>1, <3>3, <3>4 DEF OwnerKnows, ApplyNotSent
  <2>7. QED
    BY <2>5, <2>6 DEF OwnersKnow, OwnerKnows
<1>7. QED
  BY <1>1, <1>2, <1>3, <1>4, <1>5, <1>6, RetryKinds

\* The theorem of the run takeover for any rounds, executors, leases and
\* budgets: while the last APPLY is unanswered the stored phase is LOOKUP,
\* provided every request deadline fires before its lease ends
\* (scheduleWalletRecovery, claimWalletLocked).
THEOREM RepeatsKnowingly ==
  ASSUME TimelyDeadlines
  PROVE  Spec => []NoBlindReapply
<1>1. Init => NoBlindReapply /\ OwnersKnow
  <2>1. Init => OwnersKnow
    BY InitIdle DEF OwnersKnow, OwnerKnows
  <2>2. Init => NoBlindReapply
    BY DEF Init, NoBlindReapply
  <2>3. QED
    BY <2>1, <2>2
<1>2. /\ TypeOK /\ WorkOK /\ TokenOrder /\ RowsShaped
      /\ TokenOrder'
      /\ NoBlindReapply /\ OwnersKnow
      /\ [Next]_vars
      => (NoBlindReapply /\ OwnersKnow)'
  BY NextKnows
<1>3. QED
  BY <1>1, <1>2, ShapedClaims, PTL DEF Spec

-----------------------------------------------------------------------------
(* What the outbox tells *)

\* The status a round has once its stream goes on with an event.
Told(event, before) ==
  CASE event \in {"ROUND_PREPARED", "ROUND_RISK_APPROVED"} -> "PREPARED"
    [] event = "ROUND_RISK_PENDING" -> "RISK_PENDING"
    [] event = "WALLET_CLAIMED" -> "WALLET_PENDING"
    [] event = "ROUND_COMMITTED" -> "COMMITTED"
    [] event \in {"ROUND_REJECTED", "ROUND_RISK_REJECTED",
                  "ROUND_RISK_EXPIRED_REJECTED"} -> "REJECTED"
    [] event = "ROUND_INTEGRITY_FAILED" /\ before = "COMMITTED" -> "COMMITTED"
    [] OTHER -> "MANUAL_REVIEW"

\* The status of the round changes only together with an event that tells it,
\* and nothing but an integrity failure is told of a committed round.
TellsTruth(r) ==
  \/ outbox'[r] = outbox[r] /\ rounds'[r].status = rounds[r].status
  \/ \E event \in Events :
       /\ outbox'[r] = Append(outbox[r], event)
       /\ rounds'[r].status = Told(event, rounds[r].status)
       /\ rounds[r].status = "COMMITTED" => event = "ROUND_INTEGRITY_FAILED"

\* Emitting an event changes one stream.
LEMMA EmitView ==
  ASSUME TypeOK, NEW a \in Rounds \cup {"session"}, NEW event, Emit(a, event)
  PROVE  /\ outbox'[a] = Append(outbox[a], event)
         /\ \A b \in (Rounds \cup {"session"}) \ {a} : outbox'[b] = outbox[b]
  BY DEF TypeOK, Emit

\* A write of one row with the event that tells it.
LEMMA RowTold ==
  ASSUME TypeOK, NEW r \in Rounds, NEW event \in Events,
         Emit(r, event), OthersKept(r),
         rounds'[r].status = Told(event, rounds[r].status),
         rounds[r].status = "COMMITTED" => event = "ROUND_INTEGRITY_FAILED"
  PROVE  \A q \in Rounds : TellsTruth(q)
<1> SUFFICES ASSUME NEW q \in Rounds PROVE TellsTruth(q)
  OBVIOUS
<1>1. CASE q = r
  BY <1>1, EmitView DEF TellsTruth
<1>2. CASE q # r
  BY <1>2, EmitView DEF TellsTruth, OthersKept
<1>3. QED
  BY <1>1, <1>2

\* Every step tells the truth about every round.
LEMMA StepTells ==
  ASSUME TypeOK, WorkOK, RowsShaped, [Next]_vars
  PROVE  \A q \in Rounds : TellsTruth(q)
<1> USE SettlementAssumption
<1>1. ASSUME NEW e \in Executors, NEW r \in Rounds, NEW lease \in Nat,
             claimWalletLocked(e, r, lease)
      PROVE  \A q \in Rounds : TellsTruth(q)
  <2>1. /\ Open(r) /\ rounds[r].phase \in Actions
        /\ rounds[r].phase = "APPLY" => Emit(r, "WALLET_CLAIMED")
        /\ rounds[r].phase # "APPLY" => UNCHANGED outbox
    BY <1>1, Zenon DEF claimWalletLocked, ClaimEvent
  <2>2. OthersKept(r) /\ rounds'[r].status = "WALLET_PENDING"
    BY <1>1, ClaimView DEF OthersKept
  <2>3. CASE rounds[r].phase = "APPLY"
    <3>1. /\ "WALLET_CLAIMED" \in Events
          /\ Told("WALLET_CLAIMED", rounds[r].status) = "WALLET_PENDING"
          /\ rounds[r].status # "COMMITTED"
      BY <2>1 DEF Events, Told, Open, OpenStatus
    <3>2. QED
      BY <2>1, <2>2, <2>3, <3>1, RowTold
  <2>4. CASE rounds[r].phase # "APPLY"
    <3>1. rounds[r].status = "WALLET_PENDING"
      BY <2>1, <2>4 DEF RowsShaped, RowShape, Open, OpenStatus
    <3>2. QED
      BY <2>1, <2>2, <2>4, <3>1 DEF OthersKept, TellsTruth
  <2>5. QED
    BY <2>3, <2>4
<1>2. ASSUME NEW e \in Executors,
             CommitClaim(e) \/ RejectClaim(e) \/ MarkClaimManualReview(e)
      PROVE  \A q \in Rounds : TellsTruth(q)
  <2>1. Working(e) /\ Open(exec[e].round)
    BY <1>2 DEF CommitClaim, RejectClaim, MarkClaimManualReview,
       ownsWalletClaim, Working
  <2>2. PICK r \in Rounds : r = exec[e].round /\ rounds[r].status # "COMMITTED"
    BY <2>1 DEF WorkOK, Open, OpenStatus
  <2>3. \E event \in {"ROUND_COMMITTED", "ROUND_REJECTED",
                      "ROUND_MANUAL_REVIEW"} :
          Emit(r, event) /\ Closed(r, Told(event, rounds[r].status))
    BY <1>2, <2>2 DEF CommitClaim, RejectClaim, MarkClaimManualReview, Told
  <2>4. QED
    BY <2>2, <2>3, ClosedView, RowTold DEF OthersKept, Events
<1>3. ASSUME NEW e \in Executors, ScheduleWalletRecovery(e)
      PROVE  \A q \in Rounds : TellsTruth(q)
  <2>1. Working(e) /\ UNCHANGED outbox
    BY <1>3 DEF ScheduleWalletRecovery, Working
  <2>2. exec[e].round \in Rounds
    BY <2>1 DEF WorkOK
  <2>3. QED
    BY <1>3, <2>1, <2>2, ScheduleView DEF TellsTruth
<1>4. ASSUME NEW r \in Rounds, PrepareRound(r)
      PROVE  \A q \in Rounds : TellsTruth(q)
  <2>1. \E event \in {"ROUND_RISK_PENDING", "ROUND_PREPARED"} :
          /\ Emit(r, event)
          /\ PreparedStatus(r) = Told(event, rounds[r].status)
    BY <1>4 DEF PrepareRound, PreparedStatus, Told
  <2>2. rounds[r].status # "COMMITTED"
    BY <1>4 DEF PrepareRound
  <2>3. QED
    BY <1>4, <2>1, <2>2, PrepareView, RowTold DEF OthersKept, Events
<1>5. ASSUME NEW r \in Rounds, AcknowledgeResultDelivery(r)
      PROVE  \A q \in Rounds : TellsTruth(q)
  <2>1. UNCHANGED outbox
    BY <1>5 DEF AcknowledgeResultDelivery
  <2>2. QED
    BY <1>5, <2>1, AcknowledgeView DEF TellsTruth
<1>6. ASSUME NEW r \in Rounds, DecideRisk(r) \/ expireRiskLocked(r)
      PROVE  \A q \in Rounds : TellsTruth(q)
  <2>1. rounds[r].status # "COMMITTED"
    BY <1>6 DEF DecideRisk, expireRiskLocked
  <2>2. CASE Approved(r) /\ Emit(r, "ROUND_RISK_APPROVED")
    <3>1. "ROUND_RISK_APPROVED" \in Events
      BY DEF Events
    <3>2. Told("ROUND_RISK_APPROVED", rounds[r].status) = "PREPARED"
      BY DEF Told
    <3>3. QED
      BY <2>1, <2>2, <3>1, <3>2, ApproveView, RowTold DEF OthersKept
  <2>3. ASSUME NEW event \in {"ROUND_RISK_REJECTED",
                              "ROUND_RISK_EXPIRED_REJECTED",
                              "ROUND_RISK_EXPIRED_MANUAL_REVIEW"},
               Closed(r, Told(event, rounds[r].status)), Emit(r, event)
        PROVE  \A q \in Rounds : TellsTruth(q)
    BY <2>1, <2>3, ClosedView, RowTold DEF OthersKept, Events
  <2>4. /\ Told("ROUND_RISK_REJECTED", rounds[r].status) = "REJECTED"
        /\ Told("ROUND_RISK_EXPIRED_REJECTED", rounds[r].status) = "REJECTED"
        /\ Told("ROUND_RISK_EXPIRED_MANUAL_REVIEW", rounds[r].status)
             = "MANUAL_REVIEW"
    BY DEF Told
  <2>5. QED
    BY <1>6, <2>2, <2>3, <2>4 DEF DecideRisk, expireRiskLocked
<1>7. ASSUME NEW r \in Rounds, quarantineCorruptRound(r)
      PROVE  \A q \in Rounds : TellsTruth(q)
  <2>1. Emit(r, "ROUND_INTEGRITY_FAILED") /\ "ROUND_INTEGRITY_FAILED" \in Events
    BY <1>7 DEF quarantineCorruptRound, Events
  <2>2. QuarantinedStatus(r) = Told("ROUND_INTEGRITY_FAILED", rounds[r].status)
    BY DEF QuarantinedStatus, economicallyFinal, Told
  <2>3. QED
    BY <1>7, <2>1, <2>2, QuarantineView, RowTold DEF OthersKept
<1>8. CASE quarantineCorruptSession
  BY <1>8, EmitView DEF quarantineCorruptSession, TellsTruth
<1>9. ASSUME UNCHANGED <<rounds, outbox>>
      PROVE  \A q \in Rounds : TellsTruth(q)
  BY <1>9 DEF TellsTruth
<1>10. QED
  BY <1>1, <1>2, <1>3, <1>4, <1>5, <1>6, <1>7, <1>8, <1>9
  DEF Next, ExecutorStep, RoundStep, ClaimWallet, ClaimRecoverableRounds,
      RefuseClaim, FailBeforeSend, SubmitRound, ReceiveSubmitAnswer, Resolve,
      resolveStaleClaim, Abandon, Apply, Rollback, Tick, store, vars

\* Appending keeps what a stream said and adds one event.
LEMMA AppendView ==
  ASSUME NEW trail \in Seq(Events), NEW event \in Events
  PROVE  LET longer == Append(trail, event) IN
         /\ longer \in Seq(Events)
         /\ Len(longer) = Len(trail) + 1
         /\ DOMAIN longer = DOMAIN trail \cup {Len(trail) + 1}
         /\ Len(trail) + 1 \notin DOMAIN trail
         /\ longer[Len(trail) + 1] = event
         /\ \A i \in DOMAIN trail : longer[i] = trail[i]
         /\ longer # <<>>
  OBVIOUS

\* What a longer stream says of its round.
LEMMA AppendTells ==
  ASSUME NEW trail \in Seq(Events), NEW event \in Events, NEW status,
         CommittedIn(trail) <=> status = "COMMITTED",
         status = "COMMITTED" => event = "ROUND_INTEGRITY_FAILED"
  PROVE  /\ Replayed(Append(trail, event)) = Told(event, status)
         /\ CommittedIn(Append(trail, event))
              <=> Told(event, status) = "COMMITTED"
<1> DEFINE longer == Append(trail, event)
<1>1. /\ Len(longer) = Len(trail) + 1
      /\ DOMAIN longer = DOMAIN trail \cup {Len(trail) + 1}
      /\ longer[Len(trail) + 1] = event
      /\ \A i \in DOMAIN trail : longer[i] = trail[i]
      /\ longer # <<>>
  BY AppendView
<1> HIDE DEF longer
<1>2. longer[Len(longer)] = event
  BY <1>1
<1>3. CommittedIn(longer) <=> event = "ROUND_COMMITTED" \/ CommittedIn(trail)
  BY <1>1 DEF CommittedIn
<1>4. Replayed(longer) = Told(event, status)
  <2>1. event = "ROUND_INTEGRITY_FAILED" =>
          (CommittedIn(longer) <=> status = "COMMITTED")
    BY <1>3
  <2>2. QED
    BY <1>1, <1>2, <2>1 DEF Replayed, Told, CommittedIn
<1>5. CommittedIn(longer) <=> Told(event, status) = "COMMITTED"
  BY <1>3 DEF Told
<1>6. QED
  BY <1>4, <1>5 DEF longer

\* The streams of the rounds follow their status.
LEMMA NextTrail ==
  ASSUME TypeOK, WorkOK, RowsShaped, TrailOK, [Next]_vars
  PROVE  TrailOK'
<1> SUFFICES ASSUME NEW r \in Rounds
             PROVE  (/\ Replayed(outbox[r]) = rounds[r].status
                     /\ CommittedIn(outbox[r]) <=>
                          rounds[r].status = "COMMITTED")'
  BY DEF TrailOK
<1>1. /\ Replayed(outbox[r]) = rounds[r].status
      /\ CommittedIn(outbox[r]) <=> rounds[r].status = "COMMITTED"
      /\ outbox[r] \in Seq(Events)
  BY DEF TrailOK, TypeOK
<1>2. TellsTruth(r)
  BY StepTells
<1>3. CASE outbox'[r] = outbox[r] /\ rounds'[r].status = rounds[r].status
  BY <1>1, <1>3
<1>4. ASSUME NEW event \in Events,
             outbox'[r] = Append(outbox[r], event),
             rounds'[r].status = Told(event, rounds[r].status),
             rounds[r].status = "COMMITTED" => event = "ROUND_INTEGRITY_FAILED"
      PROVE  /\ Replayed(outbox'[r]) = rounds'[r].status
             /\ CommittedIn(outbox'[r]) <=> rounds'[r].status = "COMMITTED"
  BY <1>1, <1>4, AppendTells
<1>5. QED
  BY <1>2, <1>3, <1>4 DEF TellsTruth

-----------------------------------------------------------------------------
(* The budget *)

\* The claim events of a round are finitely many and none is ever lost.
LEMMA FinitelyMany ==
  ASSUME NEW trail \in Seq(Events)
  PROVE  IsFiniteSet({i \in DOMAIN trail : trail[i] = "WALLET_CLAIMED"})
<1>1. {i \in DOMAIN trail : trail[i] = "WALLET_CLAIMED"} \subseteq 1..Len(trail)
  OBVIOUS
<1>2. IsFiniteSet(1..Len(trail))
  BY FS_Interval
<1>3. QED
  BY <1>1, <1>2, FS_Subset

LEMMA ClaimsFinite ==
  ASSUME NEW r \in Rounds
  PROVE  /\ TypeOK => IsFiniteSet(Claims(r))
         /\ TypeOK' => IsFiniteSet(Claims(r)')
<1>1. TypeOK => outbox[r] \in Seq(Events)
  BY DEF TypeOK
<1>2. TypeOK' => outbox'[r] \in Seq(Events)
  BY DEF TypeOK
<1>3. QED
  BY <1>1, <1>2, FinitelyMany DEF Claims

LEMMA ClaimsGrow ==
  ASSUME TypeOK, NEW r \in Rounds, TellsTruth(r)
  PROVE  Claims(r) \subseteq Claims(r)'
<1>1. outbox[r] \in Seq(Events)
  BY DEF TypeOK
<1>2. CASE outbox'[r] = outbox[r]
  BY <1>2 DEF Claims
<1>3. ASSUME NEW event \in Events, outbox'[r] = Append(outbox[r], event)
      PROVE  Claims(r) \subseteq Claims(r)'
  BY <1>1, <1>3, AppendView DEF Claims
<1>4. QED
  BY <1>2, <1>3 DEF TellsTruth

\* An emitted claim event counts.
LEMMA ClaimCounts ==
  ASSUME TypeOK, TypeOK', NEW r \in Rounds, Emit(r, "WALLET_CLAIMED")
  PROVE  Cardinality(Claims(r)') >= Cardinality(Claims(r)) + 1
<1> DEFINE i == Len(outbox[r]) + 1
<1>1. outbox[r] \in Seq(Events) /\ "WALLET_CLAIMED" \in Events
  BY DEF TypeOK, Events
<1>2. outbox'[r] = Append(outbox[r], "WALLET_CLAIMED")
  BY EmitView
<1>3. Claims(r) \cup {i} \subseteq Claims(r)' /\ i \notin Claims(r)
  BY <1>1, <1>2, AppendView DEF Claims
<1>4. IsFiniteSet(Claims(r)) /\ IsFiniteSet(Claims(r)')
  BY ClaimsFinite
<1> HIDE DEF i
<1>5. Cardinality(Claims(r) \cup {i}) = Cardinality(Claims(r)) + 1
  BY <1>3, <1>4, FS_AddElement
<1>6. Cardinality(Claims(r) \cup {i}) <= Cardinality(Claims(r)')
  BY <1>3, <1>4, FS_Subset
<1>7. Cardinality(Claims(r)') \in Nat /\ Cardinality(Claims(r)) \in Nat
  BY <1>4, FS_CardinalityType
<1>8. QED
  BY <1>5, <1>6, <1>7

\* The numbers of the budget are numbers.
LEMMA BudgetTypes ==
  ASSUME TypeOK, NEW r \in Rounds, Budgeted(r)
  PROVE  /\ applySent[r] \in Nat
         /\ rounds[r].applyAttempts \in Nat
         /\ Cardinality(Unsent(r)) \in Nat
         /\ IsFiniteSet(Claims(r))
         /\ Cardinality(Claims(r)) \in Nat
<1>1. applySent[r] \in Nat /\ rounds[r] \in Round
  BY DEF TypeOK
<1>2. rounds[r].applyAttempts \in Nat
  BY <1>1 DEF Round
<1>3. IsFiniteSet(Claims(r))
  BY ClaimsFinite
<1>4. Cardinality(Claims(r)) \in Nat /\ Cardinality(Unsent(r)) \in Nat
  BY <1>3, FS_CardinalityType DEF Budgeted
<1>5. QED
  BY <1>1, <1>2, <1>3, <1>4

\* A step after which no more attempts are in hand, none was sent and none was
\* given back stays in the budget.
LEMMA BudgetKept ==
  ASSUME TypeOK, TypeOK', NEW r \in Rounds, Budgeted(r), TellsTruth(r),
         Unsent(r)' \subseteq Unsent(r),
         applySent'[r] = applySent[r],
         rounds'[r].applyAttempts = rounds[r].applyAttempts
  PROVE  Budgeted(r)'
<1>1. IsFiniteSet(Unsent(r)')
  BY FS_Subset DEF Budgeted
<1>2. Cardinality(Unsent(r)') <= Cardinality(Unsent(r))
  BY FS_Subset DEF Budgeted
<1>3. Cardinality(Unsent(r)') \in Nat
  BY <1>1, FS_CardinalityType
<1>4. IsFiniteSet(Claims(r)')
  BY ClaimsFinite
<1>5. Cardinality(Claims(r)) <= Cardinality(Claims(r)')
  BY <1>4, ClaimsGrow, FS_Subset
<1>6. Cardinality(Claims(r)') \in Nat
  BY <1>4, FS_CardinalityType
<1>7. /\ applySent[r] + Cardinality(Unsent(r)) <= MaxWalletAttempts
      /\ applySent[r] + Cardinality(Unsent(r)) <= rounds[r].applyAttempts
      /\ applySent[r] + Cardinality(Unsent(r)) <= Cardinality(Claims(r))
  BY DEF Budgeted
<1>8. /\ applySent[r] + Cardinality(Unsent(r)') <= MaxWalletAttempts
      /\ applySent[r] + Cardinality(Unsent(r)') <= rounds[r].applyAttempts
      /\ applySent[r] + Cardinality(Unsent(r)') <= Cardinality(Claims(r)')
  BY <1>2, <1>3, <1>5, <1>6, <1>7, BudgetTypes, SettlementAssumption
<1>9. QED
  BY <1>1, <1>8 DEF Budgeted

\* An executor whose claim stays, or ends, holds nothing new.
LEMMA UnsentView ==
  ASSUME NEW r \in Rounds, NEW f \in Executors,
         exec'[f] = exec[f] \/ exec'[f].pc = "idle"
  PROVE  HoldsUnsent(f, r)' => HoldsUnsent(f, r)
  BY DEF HoldsUnsent, ApplyNotSent

\* One attempt in hand was used: sent, or proved unsent and given back.
LEMMA OneLess ==
  ASSUME NEW r \in Rounds, Budgeted(r), NEW e \in Unsent(r),
         Unsent(r)' \subseteq Unsent(r) \ {e}
  PROVE  /\ IsFiniteSet(Unsent(r)')
         /\ Cardinality(Unsent(r)') \in Nat
         /\ Cardinality(Unsent(r)') + 1 <= Cardinality(Unsent(r))
<1>1. IsFiniteSet(Unsent(r))
  BY DEF Budgeted
<1>2. /\ IsFiniteSet(Unsent(r) \ {e})
      /\ Cardinality(Unsent(r) \ {e}) = Cardinality(Unsent(r)) - 1
  BY <1>1, FS_RemoveElement
<1>3. IsFiniteSet(Unsent(r)')
  BY <1>2, FS_Subset
<1>4. Cardinality(Unsent(r)') <= Cardinality(Unsent(r) \ {e})
  BY <1>2, FS_Subset
<1>5. Cardinality(Unsent(r)') \in Nat /\ Cardinality(Unsent(r)) \in Nat
  BY <1>1, <1>3, FS_CardinalityType
<1>6. QED
  BY <1>2, <1>3, <1>4, <1>5

\* Every kind of step stays in the budget.
LEMMA NextBudget ==
  ASSUME TypeOK, TypeOK', WorkOK, RowsShaped, BudgetOK, [Next]_vars
  PROVE  BudgetOK'
<1> SUFFICES ASSUME NEW q \in Rounds PROVE Budgeted(q)'
  BY DEF BudgetOK
<1>0. Budgeted(q) /\ TellsTruth(q)
  BY StepTells DEF BudgetOK
<1>1. CASE Rests \/ \E r \in Rounds : Opens(r) \/ Settles(r)
  <2>1. /\ ClaimsEnd
        /\ applySent'[q] = applySent[q]
        /\ rounds'[q].applyAttempts = rounds[q].applyAttempts
    BY <1>1 DEF Rests, SameRetry, Opens, Settles, OthersKept, ClaimsEnd
  <2>2. Unsent(q)' \subseteq Unsent(q)
    BY <2>1, UnsentView DEF ClaimsEnd, Unsent
  <2>3. QED
    BY <1>0, <2>1, <2>2, BudgetKept
<1>2. ASSUME NEW e \in Executors, NEW r \in Rounds, Hands(e, r)
      PROVE  Budgeted(q)'
  <2>1. Unsent(q)' \ {e} \subseteq Unsent(q)
    BY <1>2, UnsentView DEF Hands, ClaimsKept, Unsent
  <2>2. applySent'[q] = applySent[q]
    BY <1>2 DEF Hands
  <2>3. CASE q # r
    <3>1. e \notin Unsent(q)'
      BY <1>2, <2>3 DEF Hands, Unsent, HoldsUnsent
    <3>2. rounds'[q].applyAttempts = rounds[q].applyAttempts
      BY <1>2, <2>3 DEF Hands, OthersKept
    <3>3. QED
      BY <1>0, <2>1, <2>2, <3>1, <3>2, BudgetKept
  <2>4. CASE q = r /\ rounds[r].phase # "APPLY"
    <3>1. e \notin Unsent(q)'
      BY <1>2, <2>4 DEF Hands, Unsent, HoldsUnsent
    <3>2. rounds'[q].applyAttempts = rounds[q].applyAttempts
      BY <1>2, <2>4 DEF Hands
    <3>3. QED
      BY <1>0, <2>1, <2>2, <3>1, <3>2, BudgetKept
  <2>5. CASE q = r /\ rounds[r].phase = "APPLY"
    <3>1. /\ rounds'[q].applyAttempts = rounds[q].applyAttempts + 1
          /\ exec'[e].pc = "claimed" =>
               ~(rounds'[q].applyAttempts > MaxWalletAttempts)
          /\ Emit(q, "WALLET_CLAIMED")
      BY <1>2, <2>5 DEF Hands
    <3>2. Cardinality(Claims(q)') >= Cardinality(Claims(q)) + 1
      BY <3>1, ClaimCounts
    <3>3. e \in Unsent(q)' => exec'[e].pc = "claimed"
      BY <1>2 DEF Hands, Unsent, HoldsUnsent
    <3>4. Unsent(q)' \subseteq Unsent(q) \cup {e} /\ e \notin Unsent(q)
      BY <1>2, <2>1 DEF Hands, Unsent, HoldsUnsent
    <3>5. IsFiniteSet(Unsent(q))
      BY <1>0 DEF Budgeted
    <3>6. /\ IsFiniteSet(Unsent(q) \cup {e})
          /\ Cardinality(Unsent(q) \cup {e}) = Cardinality(Unsent(q)) + 1
      BY <3>4, <3>5, FS_AddElement
    <3>7. /\ IsFiniteSet(Unsent(q)')
          /\ Cardinality(Unsent(q)') <= Cardinality(Unsent(q) \cup {e})
      BY <3>4, <3>6, FS_Subset
    <3>8. e \notin Unsent(q)' => Cardinality(Unsent(q)') <= Cardinality(Unsent(q))
      BY <2>1, <3>5, FS_Subset
    <3>9. Cardinality(Unsent(q)') \in Nat /\ Cardinality(Claims(q)') \in Nat
      BY <3>7, ClaimsFinite, FS_CardinalityType
    <3>10. /\ applySent[q] + Cardinality(Unsent(q)) <= MaxWalletAttempts
           /\ applySent[q] + Cardinality(Unsent(q)) <= rounds[q].applyAttempts
           /\ applySent[q] + Cardinality(Unsent(q)) <= Cardinality(Claims(q))
      BY <1>0 DEF Budgeted
    <3>11. /\ applySent[q] + Cardinality(Unsent(q)') <= rounds'[q].applyAttempts
           /\ applySent[q] + Cardinality(Unsent(q)') <= Cardinality(Claims(q)')
      BY <1>0, <3>1, <3>2, <3>6, <3>7, <3>9, <3>10, BudgetTypes
    <3>12. applySent[q] + Cardinality(Unsent(q)') <= MaxWalletAttempts
      BY <1>0, <3>1, <3>3, <3>8, <3>9, <3>10, <3>11, BudgetTypes,
         SettlementAssumption
    <3>13. QED
      BY <2>2, <3>7, <3>11, <3>12 DEF Budgeted
  <2>6. QED
    BY <2>3, <2>4, <2>5
<1>3. ASSUME NEW e \in Executors, NEW a \in Answers, Answered(e, a)
      PROVE  Budgeted(q)'
  <2>1. HoldsUnsent(e, q)' => HoldsUnsent(e, q)
    BY <1>3 DEF Answered, SameClaim, HoldsUnsent, ApplyNotSent
  <2>2. Unsent(q)' \subseteq Unsent(q)
    BY <1>3, <2>1, UnsentView DEF Answered, ClaimsKept, Unsent
  <2>3. QED
    BY <1>0, <1>3, <2>2, BudgetKept DEF Answered
<1>4. ASSUME NEW e \in Executors, Sends(e)
      PROVE  Budgeted(q)'
  <2>1. /\ exec[e].pc = "claimed" /\ exec[e].action = "APPLY" /\ Working(e)
        /\ applySent' = [applySent EXCEPT ![exec[e].round] = @ + 1]
        /\ UNCHANGED rounds
    BY <1>4 DEF Sends, Working
  <2>2. Unsent(q)' \subseteq Unsent(q) \ {e}
    BY <1>4, UnsentView
    DEF Sends, ClaimsKept, SameClaim, Unsent, HoldsUnsent, ApplyNotSent
  <2>3. CASE exec[e].round # q
    <3>1. applySent'[q] = applySent[q]
      BY <2>1, <2>3 DEF TypeOK
    <3>2. QED
      BY <1>0, <2>1, <2>2, <3>1, BudgetKept
  <2>4. CASE exec[e].round = q
    <3>1. e \in Unsent(q)
      BY <2>1, <2>4 DEF Unsent, HoldsUnsent
    <3>2. applySent'[q] = applySent[q] + 1
      BY <2>1, <2>4, Zenon DEF TypeOK
    <3>3. /\ IsFiniteSet(Unsent(q)')
          /\ Cardinality(Unsent(q)') \in Nat
          /\ Cardinality(Unsent(q)') + 1 <= Cardinality(Unsent(q))
      BY <1>0, <2>2, <3>1, OneLess
    <3>4. /\ IsFiniteSet(Claims(q)')
          /\ Cardinality(Claims(q)') \in Nat
          /\ Cardinality(Claims(q)) <= Cardinality(Claims(q)')
      BY <1>0, ClaimsFinite, ClaimsGrow, FS_Subset, FS_CardinalityType
    <3>5. /\ applySent[q] + Cardinality(Unsent(q)) <= MaxWalletAttempts
          /\ applySent[q] + Cardinality(Unsent(q)) <= rounds[q].applyAttempts
          /\ applySent[q] + Cardinality(Unsent(q)) <= Cardinality(Claims(q))
      BY <1>0 DEF Budgeted
    <3>6. /\ applySent[q] + 1 + Cardinality(Unsent(q)') <= MaxWalletAttempts
          /\ applySent[q] + 1 + Cardinality(Unsent(q)')
               <= rounds[q].applyAttempts
          /\ applySent[q] + 1 + Cardinality(Unsent(q)')
               <= Cardinality(Claims(q)')
      BY <1>0, <3>3, <3>4, <3>5, BudgetTypes, SettlementAssumption
    <3>7. QED
      BY <2>1, <3>2, <3>3, <3>6 DEF Budgeted
  <2>5. QED
    BY <2>3, <2>4
<1>5. ASSUME NEW e \in Executors, Schedules(e)
      PROVE  Budgeted(q)'
  <2>1. /\ exec[e].pc = "answered" /\ Working(e)
        /\ exec'[e].pc = "idle"
        /\ applySent'[q] = applySent[q]
    BY <1>5 DEF Schedules, Working
  <2>2. Unsent(q)' \subseteq Unsent(q) \ {e}
    BY <1>5, UnsentView
    DEF Schedules, ClaimsKept, Unsent, HoldsUnsent, ApplyNotSent
  <2>3. CASE exec[e].round # q
    <3>1. rounds'[q] = rounds[q]
      BY <1>5, <2>3 DEF Schedules, OthersKept
    <3>2. QED
      BY <1>0, <2>1, <2>2, <3>1, BudgetKept
  <2>4. CASE exec[e].round = q /\ ~ApplyNotSent(e)
    <3>1. rounds'[q].applyAttempts = rounds[q].applyAttempts - 0
      BY <1>5, <2>4, Zenon DEF Schedules, Refund
    <3>2. rounds'[q].applyAttempts = rounds[q].applyAttempts
      BY <1>0, <3>1, BudgetTypes
    <3>3. QED
      BY <1>0, <2>1, <2>2, <3>2, BudgetKept
  <2>5. CASE exec[e].round = q /\ ApplyNotSent(e)
    <3>1. rounds'[q].applyAttempts = rounds[q].applyAttempts - 1
      BY <1>5, <2>5, Zenon DEF Schedules, Refund
    <3>2. e \in Unsent(q)
      BY <2>1, <2>5 DEF Unsent, HoldsUnsent, ApplyNotSent
    <3>3. /\ IsFiniteSet(Unsent(q)')
          /\ Cardinality(Unsent(q)') \in Nat
          /\ Cardinality(Unsent(q)') + 1 <= Cardinality(Unsent(q))
      BY <1>0, <2>2, <3>2, OneLess
    <3>4. /\ IsFiniteSet(Claims(q)')
          /\ Cardinality(Claims(q)') \in Nat
          /\ Cardinality(Claims(q)) <= Cardinality(Claims(q)')
      BY <1>0, ClaimsFinite, ClaimsGrow, FS_Subset, FS_CardinalityType
    <3>5. /\ applySent[q] + Cardinality(Unsent(q)) <= MaxWalletAttempts
          /\ applySent[q] + Cardinality(Unsent(q)) <= rounds[q].applyAttempts
          /\ applySent[q] + Cardinality(Unsent(q)) <= Cardinality(Claims(q))
      BY <1>0 DEF Budgeted
    <3>6. /\ applySent[q] + Cardinality(Unsent(q)') <= MaxWalletAttempts
          /\ applySent[q] + Cardinality(Unsent(q)')
               <= rounds[q].applyAttempts - 1
          /\ applySent[q] + Cardinality(Unsent(q)') <= Cardinality(Claims(q)')
      BY <1>0, <3>3, <3>4, <3>5, BudgetTypes, SettlementAssumption
    <3>7. QED
      BY <2>1, <3>1, <3>3, <3>6 DEF Budgeted
  <2>6. QED
    BY <2>3, <2>4, <2>5
<1>6. QED
  BY <1>1, <1>2, <1>3, <1>4, <1>5, RetryKinds

\* Nothing is in hand and nothing was sent before the first step.
LEMMA InitBudget == Init => BudgetOK /\ TrailOK
<1> SUFFICES ASSUME Init, NEW r \in Rounds
             PROVE  /\ Budgeted(r)
                    /\ Replayed(outbox[r]) = rounds[r].status
                    /\ CommittedIn(outbox[r]) <=> rounds[r].status = "COMMITTED"
  BY DEF BudgetOK, TrailOK
<1>1. /\ rounds[r] = NoRow /\ outbox[r] = <<>> /\ applySent[r] = 0
      /\ NoRow.status = "NONE" /\ NoRow.applyAttempts = 0
  BY DEF Init, NoRow
<1>2. Unsent(r) = {}
  BY InitIdle DEF Unsent, HoldsUnsent, Working
<1>3. Claims(r) = {}
  BY <1>1 DEF Claims
<1>4. IsFiniteSet({}) /\ Cardinality({}) = 0
  BY FS_EmptySet
<1>5. Budgeted(r)
  BY <1>1, <1>2, <1>3, <1>4, SettlementAssumption DEF Budgeted
<1>6. QED
  BY <1>1, <1>5 DEF Replayed, CommittedIn

\* Budget and trail hold for ever.
LEMMA BudgetInvariant == Spec => [](TypeOK /\ BudgetOK /\ TrailOK)
<1>1. /\ TypeOK /\ WorkOK /\ RowsShaped /\ TypeOK'
      /\ BudgetOK /\ TrailOK
      /\ [Next]_vars
      => (BudgetOK /\ TrailOK)'
  BY NextBudget, NextTrail
<1>2. QED
  BY <1>1, InitBudget, ShapedClaims, PTL DEF Spec

\* The budget of the run takeover for any budget and any number of executors:
\* however often a round is claimed, taken over and refunded, no more APPLY
\* requests leave than the profile allows (claimWalletLocked, apply_attempts).
THEOREM NeverOverspent == Spec => []ApplyBudget
<1>1. TypeOK /\ BudgetOK => ApplyBudget
  <2> SUFFICES ASSUME TypeOK, BudgetOK, NEW r \in Rounds
               PROVE  applySent[r] <= MaxWalletAttempts
    BY DEF ApplyBudget
  <2>1. Budgeted(r)
    BY DEF BudgetOK
  <2>2. QED
    BY <2>1, BudgetTypes, SettlementAssumption DEF Budgeted
<1>2. QED
  BY <1>1, BudgetInvariant, PTL

\* The outbox tells the truth in every behaviour: replaying a round's events
\* gives its status, and every APPLY that left has a stored claim event
\* (insertOutbox in the transactions of repository.go and risk.go).
THEOREM TrailTells == Spec => []AuditTrail
<1>1. TypeOK /\ BudgetOK /\ TrailOK => AuditTrail
  <2> SUFFICES ASSUME TypeOK, BudgetOK, TrailOK, NEW r \in Rounds
               PROVE  /\ Replayed(outbox[r]) = rounds[r].status
                      /\ applySent[r] <= Cardinality(Claims(r))
    BY DEF AuditTrail
  <2>1. Budgeted(r)
    BY DEF BudgetOK
  <2>2. applySent[r] <= Cardinality(Claims(r))
    BY <2>1, BudgetTypes DEF Budgeted
  <2>3. QED
    BY <2>2 DEF TrailOK
<1>2. QED
  BY <1>1, BudgetInvariant, PTL
=============================================================================
