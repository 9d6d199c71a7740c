----------------------------- MODULE OutboxProofs -----------------------------
(***************************************************************************)
(* What OutboxDelivery promises for any number of aggregates, events,      *)
(* replicas and tokens: types, the count of publish slots, the fence of    *)
(* the leases, the order of delivery, that no event is lost, and that the  *)
(* abstract EventStream is implemented.                                    *)
(***************************************************************************)
EXTENDS OutboxDelivery, FiniteSetTheorems, TLAPS

-----------------------------------------------------------------------------
(* Operators and what they return *)

LEMMA InsertedType ==
  ASSUME NEW s \in Seq(Ids), NEW i \in 1..Len(s) + 1, NEW e \in Ids
  PROVE  InsertedAt(s, i, e) \in Seq(Ids)
BY DEF InsertedAt

LEMMA WithoutType ==
  ASSUME NEW s \in Seq(Ids), NEW e
  PROVE  Without(s, e) \in Seq(Ids)
<1>1. CASE \E i \in DOMAIN s : s[i] = e
  <2> DEFINE k == CHOOSE i \in DOMAIN s : s[i] = e
  <2>1. k \in 1..Len(s)
    BY <1>1
  <2>2. Without(s, e) = SubSeq(s, 1, k - 1) \o SubSeq(s, k + 1, Len(s))
    BY <1>1 DEF Without
  <2> HIDE DEF k
  <2>3. /\ SubSeq(s, 1, k - 1) \in Seq(Ids)
        /\ SubSeq(s, k + 1, Len(s)) \in Seq(Ids)
    BY <2>1
  <2>4. QED
    BY <2>2, <2>3
<1>2. CASE ~\E i \in DOMAIN s : s[i] = e
  BY <1>2 DEF Without
<1>3. QED
  BY <1>1, <1>2

\* A delivery moves to another stage and no other does.
LEMMA StageView ==
  ASSUME TypeOK, NEW d \in Dispatchers, NEW e \in Ids, NEW s \in Stages,
         Stage(d, e, s)
  PROVE  /\ work' \in [Dispatchers -> [Ids -> Stages]]
         /\ \A x \in Dispatchers, f \in Ids :
              work'[x][f] = IF x = d /\ f = e THEN s ELSE work[x][f]
BY DEF TypeOK, Stage

\* A delivery ends, and its pass with it if it was the last.
LEMMA EndView ==
  ASSUME TypeOK, NEW d \in Dispatchers, NEW e \in Ids, EndDelivery(d, e)
  PROVE  /\ work' \in [Dispatchers -> [Ids -> Stages]]
         /\ \A x \in Dispatchers, f \in Ids :
              work'[x][f] = IF x = d /\ f = e THEN "none" ELSE work[x][f]
         /\ token' \in [Dispatchers -> Tokens \cup {None}]
         /\ \A x \in Dispatchers \ {d} : token'[x] = token[x]
         /\ \/ token'[d] = token[d]
            \/ token'[d] = None /\ \A f \in Ids : work'[d][f] = "none"
<1>1. Stage(d, e, "none")
  BY DEF EndDelivery
<1>2. "none" \in Stages
  BY DEF Stages
<1>3. /\ work' \in [Dispatchers -> [Ids -> Stages]]
      /\ \A x \in Dispatchers, f \in Ids :
           work'[x][f] = IF x = d /\ f = e THEN "none" ELSE work[x][f]
  BY <1>1, <1>2, StageView
<1>4. CASE \E f \in Ids \ {e} : work[d][f] # "none"
  BY <1>3, <1>4 DEF EndDelivery, TypeOK
<1>5. CASE ~\E f \in Ids \ {e} : work[d][f] # "none"
  BY <1>3, <1>5 DEF EndDelivery, TypeOK
<1>6. QED
  BY <1>3, <1>4, <1>5

\* The statement of a claim leases candidates to a token nobody uses.
LEMMA LeaseView ==
  ASSUME TypeOK, NEW t \in Tokens, LeaseBatch(t)
  PROVE  /\ lease' \in [Ids -> Tokens \cup {None}]
         /\ attempts' \in [Ids -> 0..AttemptLimit]
         /\ expired' \subseteq Ids
         /\ Fresh(t)
         /\ \A e \in Ids : lease'[e] = IF e \in Batch THEN t ELSE lease[e]
         /\ \A e \in Batch : e \in Ids /\ Candidate(e)
         /\ UNCHANGED <<nextId, status, aggregate, due>>
<1>1. \A e \in Batch : e \in Ids /\ Candidate(e)
  BY DEF Batch
<1>2. \A e \in Batch : attempts[e] + 1 \in 0..AttemptLimit
  BY <1>1, OutboxAssumption DEF Candidate, TypeOK
<1>3. attempts' \in [Ids -> 0..AttemptLimit]
  BY <1>2 DEF LeaseBatch, TypeOK
<1>4. QED
  BY <1>1, <1>3 DEF LeaseBatch, TypeOK

-----------------------------------------------------------------------------
(* Types *)

CallsOf(d) == {c \in running : c.owner = d}

\* Only a running pass has deliveries.
Busy == \A d \in Dispatchers, e \in Ids : work[d][e] # "none" => token[d] # None

\* Cardinality needs finite sets.
SlotsOK ==
  \A d \in Dispatchers :
    /\ IsFiniteSet(CallsOf(d))
    /\ slots[d] = Cardinality(CallsOf(d))
    /\ slots[d] <= MaxParallel

LEMMA InitType == Init => TypeOK /\ Busy /\ SlotsOK
<1> SUFFICES ASSUME Init PROVE TypeOK /\ Busy /\ SlotsOK
  OBVIOUS
<1>1. TypeOK
  BY OutboxAssumption DEF Init, TypeOK, Ids, RowStatus, Stages
<1>2. Busy
  BY DEF Init, Busy
<1>3. \A d \in Dispatchers : CallsOf(d) = {}
  BY DEF Init, CallsOf
<1>4. SlotsOK
  <2> SUFFICES ASSUME NEW d \in Dispatchers
               PROVE  /\ IsFiniteSet(CallsOf(d))
                      /\ slots[d] = Cardinality(CallsOf(d))
                      /\ slots[d] <= MaxParallel
    BY DEF SlotsOK
  <2>1. slots[d] = 0 /\ 0 <= MaxParallel
    BY OutboxAssumption DEF Init
  <2>2. IsFiniteSet(CallsOf(d)) /\ Cardinality(CallsOf(d)) = 0
    BY <1>3, FS_EmptySet
  <2>3. QED
    BY <2>1, <2>2
<1>5. QED
  BY <1>1, <1>2, <1>4

\* A slot is taken while a call runs, so giving it back is a subtraction of
\* natural numbers.
LEMMA SlotTaken ==
  ASSUME TypeOK, SlotsOK, NEW c \in running
  PROVE  slots[c.owner] - 1 \in Nat
<1>1. c.owner \in Dispatchers /\ c \in CallsOf(c.owner)
  BY DEF TypeOK, Calls, CallsOf
<1>2. Cardinality(CallsOf(c.owner)) # 0
  BY <1>1, FS_EmptySet DEF SlotsOK
<1>3. slots[c.owner] \in Nat /\ slots[c.owner] # 0
  BY <1>1, <1>2 DEF SlotsOK, TypeOK
<1>4. QED
  BY <1>3

LEMMA NextType == TypeOK /\ Busy /\ SlotsOK /\ [Next]_vars => TypeOK'
<1> SUFFICES ASSUME TypeOK, Busy, SlotsOK, [Next]_vars PROVE TypeOK'
  OBVIOUS
<1> USE DEF rows, passes, calls
<1>1. ASSUME NEW a \in Aggregates, Insert(a) PROVE TypeOK'
  BY <1>1, OutboxAssumption DEF Insert, TypeOK, RowStatus, Ids
<1>2. ASSUME NEW e \in Ids, CommitInsert(e) PROVE TypeOK'
  <2>1. due' \in Seq(Ids)
    BY <1>2, InsertedType DEF CommitInsert, TypeOK
  <2>2. QED
    BY <1>2, <2>1 DEF CommitInsert, TypeOK, RowStatus
<1>3. ASSUME NEW e \in Ids, RollbackInsert(e) PROVE TypeOK'
  BY <1>3 DEF RollbackInsert, TypeOK, RowStatus
<1>4. ASSUME NEW e \in Ids, LeaseExpires(e) PROVE TypeOK'
  BY <1>4 DEF LeaseExpires, TypeOK
<1>5. ASSUME NEW e \in Ids, BecomesDue(e) PROVE TypeOK'
  BY <1>5 DEF BecomesDue, TypeOK
<1>6. ASSUME NEW e \in Ids, ReceiveLate(e) PROVE TypeOK'
  BY <1>6 DEF ReceiveLate, TypeOK
<1>7. ASSUME NEW d \in Dispatchers, Claim(d) PROVE TypeOK'
  <2>1. PICK t \in Tokens :
          /\ LeaseBatch(t)
          /\ token' = [token EXCEPT ![d] = t]
          /\ work' = [work EXCEPT ![d] = [e \in Ids |-> IF e \in Batch THEN "queued"
                                                                      ELSE "none"]]
    BY <1>7 DEF Claim
  <2>2. work' \in [Dispatchers -> [Ids -> Stages]]
    BY <2>1 DEF TypeOK, Stages
  <2>3. QED
    BY <1>7, <2>1, <2>2, LeaseView DEF Claim, TypeOK
<1>8. ASSUME NEW d \in Dispatchers, ClaimFails(d) PROVE TypeOK'
  BY <1>8, LeaseView DEF ClaimFails, TypeOK
<1>9. ASSUME NEW d \in Dispatchers, Crash(d) PROVE TypeOK'
  <2>1. {c.event : c \in {c \in running \ answered : c.owner = d}} \subseteq Ids
    BY DEF TypeOK, Calls
  <2>2. work' \in [Dispatchers -> [Ids -> Stages]]
    BY <1>9 DEF Crash, TypeOK, Stages
  <2>3. QED
    BY <1>9, <2>1, <2>2 DEF Crash, TypeOK
<1>10. ASSUME NEW d \in Dispatchers, NEW e \in Ids, StartPublish(d, e) PROVE TypeOK'
  <2>1. "calling" \in Stages
    BY DEF Stages
  <2>2. CallOf(d, e) \in Calls
    BY <1>10 DEF StartPublish, Admitted, CallOf, Calls, Busy, TypeOK
  <2>3. QED
    BY <1>10, <2>1, <2>2, StageView DEF StartPublish, TypeOK
<1>11. ASSUME NEW d \in Dispatchers, NEW e \in Ids,
              SlotTimeout(d, e) \/ PublishTimeout(d, e)
       PROVE  TypeOK'
  <2>1. "failed" \in Stages
    BY DEF Stages
  <2>2. QED
    BY <1>11, <2>1, StageView DEF SlotTimeout, PublishTimeout, TypeOK
<1>12. ASSUME NEW d \in Dispatchers, NEW e \in Ids,
              MarkPublished(d, e) \/ MarkFailed(d, e)
       PROVE  TypeOK'
  <2>1. EndDelivery(d, e) /\ Release(e)
    BY <1>12 DEF MarkPublished, MarkFailed
  <2>2. due' \in Seq(Ids)
    BY <2>1, WithoutType DEF Release, TypeOK
  <2>3. lease' \in [Ids -> Tokens \cup {None}] /\ expired' \subseteq Ids
    BY <2>1 DEF Release, TypeOK
  <2>4. status' \in [Ids -> RowStatus]
    BY <1>12 DEF MarkPublished, MarkFailed, TypeOK, RowStatus
  <2>5. QED
    BY <1>12, <2>1, <2>2, <2>3, <2>4, EndView DEF MarkPublished, MarkFailed, TypeOK
<1>13. ASSUME NEW d \in Dispatchers, NEW e \in Ids,
              LeaseLost(d, e) \/ CompletionFails(d, e)
       PROVE  TypeOK'
  BY <1>13, EndView DEF LeaseLost, CompletionFails, TypeOK
<1>14. ASSUME NEW c \in running, Receive(c) PROVE TypeOK'
  BY <1>14 DEF Receive, TypeOK, Calls
<1>15. ASSUME NEW c \in running, PublishReturns(c) PROVE TypeOK'
  <2>1. c.owner \in Dispatchers /\ c.event \in Ids
    BY DEF TypeOK, Calls
  <2>2. slots' \in [Dispatchers -> Nat]
    BY <1>15, <2>1, SlotTaken DEF PublishReturns, TypeOK
  <2>3. work' \in [Dispatchers -> [Ids -> Stages]]
    <3>1. CASE Awaited(c)
      <4>1. PICK s \in {"ok", "failed"} : Stage(c.owner, c.event, s)
        BY <1>15, <3>1 DEF PublishReturns
      <4>2. s \in Stages
        BY DEF Stages
      <4>3. QED
        BY <2>1, <4>1, <4>2, StageView
    <3>2. CASE ~Awaited(c)
      BY <1>15, <3>2 DEF PublishReturns, TypeOK
    <3>3. QED
      BY <3>1, <3>2
  <2>4. late' \subseteq Ids
    BY <1>15, <2>1 DEF PublishReturns, TypeOK
  <2>5. QED
    BY <1>15, <2>2, <2>3, <2>4 DEF PublishReturns, TypeOK
<1>16. CASE UNCHANGED vars
  BY <1>16 DEF vars, TypeOK
<1>17. QED
  BY <1>1, <1>2, <1>3, <1>4, <1>5, <1>6, <1>7, <1>8, <1>9, <1>10, <1>11,
     <1>12, <1>13, <1>14, <1>15, <1>16 DEF Next

-----------------------------------------------------------------------------
(* Publish slots *)

\* A delivery that has not started has no call under its token, so the call it
\* starts is a new one.
OneCall ==
  \A c \in running :
    token[c.owner] = c.token => work[c.owner][c.event] # "queued"

ProcessOK == TypeOK /\ Busy /\ OneCall /\ SlotsOK

\* The processes' part of a step that moves one delivery on, or ends it.
Moves(d, e) ==
  /\ work' \in [Dispatchers -> [Ids -> Stages]]
  /\ \A x \in Dispatchers, f \in Ids :
       IF x = d /\ f = e
       THEN work[x][f] # "none" /\ work'[x][f] # "queued"
       ELSE work'[x][f] = work[x][f]
  /\ \A x \in Dispatchers \ {d} : token'[x] = token[x]
  /\ \/ token'[d] = token[d]
     \/ token'[d] = None /\ \A f \in Ids : work'[d][f] = "none"

LEMMA MovesBusy ==
  ASSUME TypeOK, Busy, NEW d \in Dispatchers, NEW e \in Ids, Moves(d, e)
  PROVE  Busy'
BY DEF Busy, Moves

LEMMA MovesOneCall ==
  ASSUME TypeOK, OneCall, NEW d \in Dispatchers, NEW e \in Ids, Moves(d, e),
         running' \subseteq running
  PROVE  OneCall'
<1> SUFFICES ASSUME NEW c \in running', token'[c.owner] = c.token
             PROVE  work'[c.owner][c.event] # "queued"
  BY DEF OneCall
<1>1. /\ c \in running /\ c.owner \in Dispatchers /\ c.event \in Ids
      /\ c.token # None
  BY OutboxAssumption DEF TypeOK, Calls
<1>2. token[c.owner] = c.token
  BY <1>1 DEF Moves
<1>3. QED
  BY <1>1, <1>2 DEF OneCall, Moves

LEMMA SlotsFrame ==
  ASSUME SlotsOK, UNCHANGED <<slots, running>>
  PROVE  SlotsOK'
<1>1. \A d \in Dispatchers : CallsOf(d)' = CallsOf(d)
  BY DEF CallsOf
<1>2. QED
  BY <1>1 DEF SlotsOK

\* A stage change or the end of a delivery is a move.
LEMMA StageMoves ==
  ASSUME TypeOK, NEW d \in Dispatchers, NEW e \in Ids,
         NEW s \in Stages \ {"queued"},
         work[d][e] # "none", Stage(d, e, s), UNCHANGED token
  PROVE  Moves(d, e)
BY StageView DEF Moves

LEMMA EndMoves ==
  ASSUME TypeOK, NEW d \in Dispatchers, NEW e \in Ids,
         work[d][e] # "none", EndDelivery(d, e)
  PROVE  Moves(d, e)
BY EndView DEF Moves

LEMMA InitProcess == Init => ProcessOK
BY InitType DEF ProcessOK, OneCall, Init

LEMMA NextProcess == ProcessOK /\ [Next]_vars => ProcessOK'
<1> SUFFICES ASSUME ProcessOK, [Next]_vars PROVE ProcessOK'
  OBVIOUS
<1> USE DEF rows, passes, calls
<1>0. TypeOK /\ Busy /\ OneCall /\ SlotsOK
  BY DEF ProcessOK
<1>1. TypeOK'
  BY <1>0, NextType
<1>2. ASSUME UNCHANGED <<passes, slots, running>>
      PROVE  Busy' /\ OneCall' /\ SlotsOK'
  BY <1>0, <1>2, SlotsFrame DEF Busy, OneCall
<1>3. ASSUME NEW d \in Dispatchers, Claim(d)
      PROVE  Busy' /\ OneCall' /\ SlotsOK'
  <2>1. PICK t \in Tokens :
          /\ Fresh(t)
          /\ token' = [token EXCEPT ![d] = t]
          /\ work' = [work EXCEPT ![d] = [e \in Ids |-> IF e \in Batch THEN "queued"
                                                                      ELSE "none"]]
    BY <1>3 DEF Claim, LeaseBatch
  <2>2. UNCHANGED <<slots, running>>
    BY <1>3 DEF Claim
  <2>3. Busy'
    BY <1>0, <2>1, OutboxAssumption DEF Busy, TypeOK
  <2>4. OneCall'
    <3> SUFFICES ASSUME NEW c \in running, token'[c.owner] = c.token
                 PROVE  work'[c.owner][c.event] # "queued"
      BY <2>2 DEF OneCall
    <3>1. c.token # t /\ c.owner \in Dispatchers
      BY <1>0, <2>1 DEF Fresh, TypeOK, Calls
    <3>2. c.owner # d
      BY <1>0, <2>1, <3>1 DEF TypeOK
    <3>3. token'[c.owner] = token[c.owner] /\ work'[c.owner] = work[c.owner]
      BY <1>0, <2>1, <3>1, <3>2 DEF TypeOK
    <3>4. QED
      BY <1>0, <3>3 DEF OneCall
  <2>5. QED
    BY <1>0, <2>2, <2>3, <2>4, SlotsFrame
<1>4. ASSUME NEW d \in Dispatchers, Crash(d)
      PROVE  Busy' /\ OneCall' /\ SlotsOK'
  <2>1. Busy' /\ OneCall'
    BY <1>0, <1>4 DEF Crash, Busy, OneCall, TypeOK, Calls
  <2>2. SlotsOK'
    <3> SUFFICES ASSUME NEW x \in Dispatchers
                 PROVE  /\ IsFiniteSet(CallsOf(x)')
                        /\ slots'[x] = Cardinality(CallsOf(x)')
                        /\ slots'[x] <= MaxParallel
      BY DEF SlotsOK
    <3>1. CASE x = d
      <4>1. CallsOf(x)' = {}
        BY <1>4, <3>1 DEF Crash, CallsOf
      <4>2. slots'[x] = 0 /\ 0 <= MaxParallel
        BY <1>0, <1>4, <3>1, OutboxAssumption DEF Crash, TypeOK
      <4>3. IsFiniteSet(CallsOf(x)') /\ Cardinality(CallsOf(x)') = 0
        BY <4>1, FS_EmptySet
      <4>4. QED
        BY <4>2, <4>3
    <3>2. CASE x # d
      <4>1. CallsOf(x)' = CallsOf(x)
        BY <1>4, <3>2 DEF Crash, CallsOf
      <4>2. slots'[x] = slots[x]
        BY <1>0, <1>4, <3>2 DEF Crash, TypeOK
      <4>3. QED
        BY <1>0, <4>1, <4>2 DEF SlotsOK
    <3>3. QED
      BY <3>1, <3>2
  <2>3. QED
    BY <2>1, <2>2
<1>5. ASSUME NEW d \in Dispatchers, NEW e \in Ids, StartPublish(d, e)
      PROVE  Busy' /\ OneCall' /\ SlotsOK'
  <2> DEFINE new == CallOf(d, e)
  <2>1. Moves(d, e)
    BY <1>0, <1>5, StageMoves DEF StartPublish, Admitted, Stages
  <2>2. new.owner = d /\ new.token = token[d] /\ new.event = e
    BY DEF CallOf
  <2>3. token[d] # None /\ work[d][e] = "queued"
    BY <1>0, <1>5 DEF StartPublish, Admitted, Busy
  <2>4. new \notin running
    BY <1>0, <2>2, <2>3 DEF OneCall
  <2>5. running' = running \cup {new} /\ token' = token
    BY <1>5 DEF StartPublish
  <2>6. OneCall'
    <3> SUFFICES ASSUME NEW c \in running', token'[c.owner] = c.token
                 PROVE  work'[c.owner][c.event] # "queued"
      BY DEF OneCall
    <3>1. CASE c = new
      BY <2>1, <2>2, <3>1 DEF Moves
    <3>2. CASE c # new
      <4>1. c \in running /\ c.owner \in Dispatchers /\ c.event \in Ids
        BY <1>0, <2>5, <3>2 DEF TypeOK, Calls
      <4>2. work[c.owner][c.event] # "queued"
        BY <1>0, <2>5, <4>1 DEF OneCall
      <4>3. QED
        BY <2>1, <4>1, <4>2 DEF Moves
    <3>3. QED
      BY <3>1, <3>2
  <2> HIDE DEF new
  <2>7. SlotsOK'
    <3> SUFFICES ASSUME NEW x \in Dispatchers
                 PROVE  /\ IsFiniteSet(CallsOf(x)')
                        /\ slots'[x] = Cardinality(CallsOf(x)')
                        /\ slots'[x] <= MaxParallel
      BY DEF SlotsOK
    <3>1. CASE x = d
      <4>1. CallsOf(x)' = CallsOf(x) \cup {new}
        BY <2>2, <2>5, <3>1 DEF CallsOf
      <4>2. new \notin CallsOf(x)
        BY <2>4 DEF CallsOf
      <4>3. /\ IsFiniteSet(CallsOf(x)')
            /\ Cardinality(CallsOf(x)') = Cardinality(CallsOf(x)) + 1
        BY <1>0, <4>1, <4>2, FS_AddElement DEF SlotsOK
      <4>4. slots'[x] = slots[x] + 1 /\ slots[x] < MaxParallel /\ slots[x] \in Nat
        BY <1>0, <1>5, <3>1 DEF StartPublish, TypeOK
      <4>5. slots[x] = Cardinality(CallsOf(x))
        BY <1>0 DEF SlotsOK
      <4>6. QED
        BY <4>3, <4>4, <4>5, OutboxAssumption
    <3>2. CASE x # d
      <4>1. CallsOf(x)' = CallsOf(x)
        BY <2>2, <2>5, <3>2 DEF CallsOf
      <4>2. slots'[x] = slots[x]
        BY <1>0, <1>5, <3>2 DEF StartPublish, TypeOK
      <4>3. QED
        BY <1>0, <4>1, <4>2 DEF SlotsOK
    <3>3. QED
      BY <3>1, <3>2
  <2>8. QED
    BY <1>0, <2>1, <2>6, <2>7, MovesBusy
<1>6. ASSUME NEW d \in Dispatchers, NEW e \in Ids,
             SlotTimeout(d, e) \/ PublishTimeout(d, e)
      PROVE  Busy' /\ OneCall' /\ SlotsOK'
  <2>1. Moves(d, e)
    BY <1>0, <1>6, StageMoves DEF SlotTimeout, PublishTimeout, Admitted, Stages
  <2>2. UNCHANGED <<slots, running>>
    BY <1>6 DEF SlotTimeout, PublishTimeout
  <2>3. QED
    BY <1>0, <2>1, <2>2, MovesBusy, MovesOneCall, SlotsFrame
<1>7. ASSUME NEW d \in Dispatchers, NEW e \in Ids,
             \/ MarkPublished(d, e) \/ MarkFailed(d, e)
             \/ LeaseLost(d, e) \/ CompletionFails(d, e)
      PROVE  Busy' /\ OneCall' /\ SlotsOK'
  <2>1. Moves(d, e)
    BY <1>0, <1>7, EndMoves
    DEF MarkPublished, MarkFailed, LeaseLost, CompletionFails
  <2>2. UNCHANGED <<slots, running>>
    BY <1>7 DEF MarkPublished, MarkFailed, LeaseLost, CompletionFails
  <2>3. QED
    BY <1>0, <2>1, <2>2, MovesBusy, MovesOneCall, SlotsFrame
<1>8. ASSUME NEW c \in running, PublishReturns(c)
      PROVE  Busy' /\ OneCall' /\ SlotsOK'
  <2>1. c.owner \in Dispatchers /\ c.event \in Ids
    BY <1>0 DEF TypeOK, Calls
  <2>2. running' = running \ {c} /\ token' = token
    BY <1>8 DEF PublishReturns
  <2>3. Busy' /\ OneCall'
    <3>1. CASE Awaited(c)
      <4>1. Moves(c.owner, c.event)
        BY <1>0, <1>8, <2>1, <3>1, StageMoves DEF PublishReturns, Awaited, Stages
      <4>2. QED
        BY <1>0, <2>1, <2>2, <4>1, MovesBusy, MovesOneCall
    <3>2. CASE ~Awaited(c)
      BY <1>0, <1>8, <2>2, <3>2 DEF PublishReturns, Busy, OneCall
    <3>3. QED
      BY <3>1, <3>2
  <2>4. SlotsOK'
    <3> SUFFICES ASSUME NEW x \in Dispatchers
                 PROVE  /\ IsFiniteSet(CallsOf(x)')
                        /\ slots'[x] = Cardinality(CallsOf(x)')
                        /\ slots'[x] <= MaxParallel
      BY DEF SlotsOK
    <3>1. CASE x = c.owner
      <4>1. CallsOf(x)' = CallsOf(x) \ {c} /\ c \in CallsOf(x)
        BY <2>2, <3>1 DEF CallsOf
      <4>2. /\ IsFiniteSet(CallsOf(x)')
            /\ Cardinality(CallsOf(x)') = Cardinality(CallsOf(x)) - 1
        BY <1>0, <4>1, FS_RemoveElement DEF SlotsOK
      <4>3. slots'[x] = slots[x] - 1 /\ slots[x] \in Nat
        BY <1>0, <1>8, <3>1 DEF PublishReturns, TypeOK
      <4>4. slots[x] = Cardinality(CallsOf(x)) /\ slots[x] <= MaxParallel
        BY <1>0 DEF SlotsOK
      <4>5. QED
        BY <4>2, <4>3, <4>4, OutboxAssumption
    <3>2. CASE x # c.owner
      <4>1. CallsOf(x)' = CallsOf(x)
        BY <2>2, <3>2 DEF CallsOf
      <4>2. slots'[x] = slots[x]
        BY <1>0, <1>8, <3>2 DEF PublishReturns, TypeOK
      <4>3. QED
        BY <1>0, <4>1, <4>2 DEF SlotsOK
    <3>3. QED
      BY <3>1, <3>2
  <2>5. QED
    BY <2>3, <2>4
<1>9. Busy' /\ OneCall' /\ SlotsOK'
  BY <1>2, <1>3, <1>4, <1>5, <1>6, <1>7, <1>8
  DEF Next, vars, Insert, CommitInsert, RollbackInsert, LeaseExpires,
      BecomesDue, ReceiveLate, ClaimFails, Receive
<1>10. QED
  BY <1>1, <1>9 DEF ProcessOK

LEMMA ProcessInvariant == Spec => []ProcessOK
BY InitProcess, NextProcess, PTL DEF Spec

\* Every row, lease, pass and call keeps its type; in particular an attempt
\* counter never passes its limit and a slot is never given back twice.
THEOREM OutboxTypes == Spec => []TypeOK
<1>1. ProcessOK => TypeOK
  BY DEF ProcessOK
<1>2. QED
  BY <1>1, ProcessInvariant, PTL

\* The slots of every process count the publisher calls that run, abandoned
\* ones included, and never exceed MaxParallel.
THEOREM SlotsNeverLeak == Spec => []SlotsCountCalls
<1>1. ProcessOK => SlotsCountCalls
  BY DEF ProcessOK, SlotsOK, SlotsCountCalls, CallsOf
<1>2. QED
  BY <1>1, ProcessInvariant, PTL

-----------------------------------------------------------------------------
(* The fence of the leases *)

\* A lease that has not run out ends only by a completion of its own pass.
THEOREM LeasesFenced == Spec => LeaseFence
<1> DEFINE Fenced == \A e \in Ids : lease[e] # None /\ lease'[e] # lease[e] =>
                       \/ e \in expired
                       \/ \E d \in Dispatchers : /\ token[d] = lease[e]
                                                 /\ work[d][e] \in {"ok", "failed"}
                                                 /\ work'[d][e] = "none"
<1>1. ASSUME TypeOK, [Next]_vars PROVE Fenced
  <2>1. ASSUME NEW t \in Tokens, LeaseBatch(t) PROVE Fenced
    BY <1>1, <2>1, LeaseView DEF Candidate
  <2>2. ASSUME NEW d \in Dispatchers, NEW f \in Ids,
               MarkPublished(d, f) \/ MarkFailed(d, f)
        PROVE  Fenced
    <3>1. /\ EndDelivery(d, f) /\ Release(f)
          /\ work[d][f] \in {"ok", "failed"} /\ lease[f] = token[d]
      BY <2>2 DEF MarkPublished, MarkFailed, Owns
    <3>2. \A e \in Ids \ {f} : lease'[e] = lease[e]
      BY <1>1, <3>1 DEF Release, TypeOK
    <3>3. work'[d][f] = "none"
      BY <1>1, <3>1, EndView
    <3>4. QED
      BY <3>1, <3>2, <3>3
  <2>3. CASE UNCHANGED lease
    BY <2>3
  <2>4. QED
    BY <1>1, <2>1, <2>2, <2>3
    DEF Next, vars, rows, Insert, CommitInsert, RollbackInsert, LeaseExpires,
        BecomesDue, ReceiveLate, Claim, ClaimFails, Crash, StartPublish,
        SlotTimeout, PublishTimeout, LeaseLost, CompletionFails, Receive,
        PublishReturns
<1>2. TypeOK /\ [Next]_vars => [Fenced]_vars
  BY <1>1
<1>3. QED
  BY <1>2, OutboxTypes, PTL DEF Spec, LeaseFence

-----------------------------------------------------------------------------
(* Nothing is lost *)

\* Every good answer, and every row that says published, is backed by the sink.
Backed ==
  /\ \A c \in answered : c.event \in sink
  /\ \A d \in Dispatchers, e \in Ids : work[d][e] = "ok" => e \in sink
  /\ NothingLost

LEMMA InitBacked == Init => Backed
BY DEF Init, Backed, NothingLost

LEMMA NextBacked == TypeOK /\ Backed /\ [Next]_vars => Backed'
<1> SUFFICES ASSUME TypeOK, Backed, [Next]_vars PROVE Backed'
  OBVIOUS
<1> USE DEF rows, passes, calls
<1>1. ASSUME UNCHANGED <<passes, answered>>, sink \subseteq sink',
             \A e \in Ids : status'[e] = "published" => status[e] = "published"
      PROVE  Backed'
  BY <1>1 DEF Backed, NothingLost
<1>2. ASSUME NEW d \in Dispatchers, Claim(d) PROVE Backed'
  <2>1. /\ \A x \in Dispatchers, e \in Ids : work'[x][e] = "ok" => work[x][e] = "ok"
        /\ UNCHANGED <<status, answered, sink>>
    BY <1>2 DEF Claim, LeaseBatch, TypeOK
  <2>2. QED
    BY <2>1 DEF Backed, NothingLost
<1>3. ASSUME NEW d \in Dispatchers, Crash(d) PROVE Backed'
  BY <1>3 DEF Crash, Backed, NothingLost, TypeOK
<1>4. ASSUME NEW d \in Dispatchers, NEW e \in Ids,
             \/ StartPublish(d, e) \/ SlotTimeout(d, e) \/ PublishTimeout(d, e)
      PROVE  Backed'
  <2>1. PICK s \in {"calling", "failed"} : Stage(d, e, s)
    BY <1>4 DEF StartPublish, SlotTimeout, PublishTimeout
  <2>2. s \in Stages
    BY DEF Stages
  <2>3. \A x \in Dispatchers, f \in Ids : work'[x][f] = "ok" => work[x][f] = "ok"
    BY <2>1, <2>2, StageView
  <2>4. UNCHANGED <<status, answered, sink>>
    BY <1>4 DEF StartPublish, SlotTimeout, PublishTimeout
  <2>5. QED
    BY <2>3, <2>4 DEF Backed, NothingLost
<1>5. ASSUME NEW d \in Dispatchers, NEW e \in Ids,
             \/ MarkPublished(d, e) \/ MarkFailed(d, e)
             \/ LeaseLost(d, e) \/ CompletionFails(d, e)
      PROVE  Backed'
  <2>1. EndDelivery(d, e) /\ UNCHANGED <<answered, sink>>
    BY <1>5 DEF MarkPublished, MarkFailed, LeaseLost, CompletionFails
  <2>2. \A x \in Dispatchers, f \in Ids : work'[x][f] = "ok" => work[x][f] = "ok"
    BY <2>1, EndView
  <2>3. \A f \in Ids : status'[f] = "published" =>
          status[f] = "published" \/ (f = e /\ work[d][e] = "ok")
    BY <1>5 DEF MarkPublished, MarkFailed, LeaseLost, CompletionFails, TypeOK
  <2>4. QED
    BY <2>1, <2>2, <2>3 DEF Backed, NothingLost
<1>6. ASSUME NEW c \in running, Receive(c) PROVE Backed'
  BY <1>6 DEF Receive, Backed, NothingLost
<1>7. ASSUME NEW c \in running, PublishReturns(c) PROVE Backed'
  <2>1. c.owner \in Dispatchers /\ c.event \in Ids
    BY DEF TypeOK, Calls
  <2>2. answered' \subseteq answered /\ UNCHANGED <<status, sink>>
    BY <1>7 DEF PublishReturns
  <2>3. \A x \in Dispatchers, f \in Ids : work'[x][f] = "ok" =>
          work[x][f] = "ok" \/ (f = c.event /\ c \in answered)
    <3>1. CASE Awaited(c)
      <4>1. PICK s \in {"ok", "failed"} :
              (s = "ok" => c \in answered) /\ Stage(c.owner, c.event, s)
        BY <1>7, <3>1 DEF PublishReturns
      <4>2. s \in Stages
        BY DEF Stages
      <4>3. QED
        BY <2>1, <4>1, <4>2, StageView
    <3>2. CASE ~Awaited(c)
      BY <1>7, <3>2 DEF PublishReturns
    <3>3. QED
      BY <3>1, <3>2
  <2>4. QED
    BY <2>2, <2>3 DEF Backed, NothingLost
<1>8. ASSUME NEW e \in Ids,
             CommitInsert(e) \/ RollbackInsert(e)
      PROVE  Backed'
  BY <1>1, <1>8 DEF CommitInsert, RollbackInsert, TypeOK
<1>9. ASSUME NEW a \in Aggregates, Insert(a) PROVE Backed'
  BY <1>1, <1>9 DEF Insert, TypeOK
<1>10. QED
  BY <1>1, <1>2, <1>3, <1>4, <1>5, <1>6, <1>7, <1>8, <1>9
  DEF Next, vars, LeaseExpires, BecomesDue, ReceiveLate, ClaimFails, LeaseBatch

LEMMA BackedInvariant == Spec => []Backed
BY InitBacked, NextBacked, OutboxTypes, PTL DEF Spec

\* An event that the store calls published is durable at the sink.
THEOREM NothingIsLost == Spec => []NothingLost
<1>1. Backed => NothingLost
  BY DEF Backed
<1>2. QED
  BY <1>1, BackedInvariant, PTL

-----------------------------------------------------------------------------
(* Order *)

\* Identifiers are drawn in order, and a transaction that still writes has the
\* newest row of its aggregate.
RowsOK ==
  /\ \A e \in Ids : status[e] = "absent" <=> aggregate[e] = None
  /\ \A e \in Ids : status[e] # "absent" => e < nextId
  /\ \A e, p \in Ids :
       status[p] = "writing" /\ aggregate[e] = aggregate[p] => e <= p

\* All that comes before the event has been published.
Ready(e) ==
  /\ status[e] \in {"stored", "published"}
  /\ \A p \in Predecessors(e) : status[p] = "published"

\* The event has left the store, or is about to.
Touched(e) ==
  \/ \E d \in Dispatchers : work[d][e] # "none"
  \/ \E c \in running : c.event = e
  \/ e \in late
  \/ e \in sink
  \/ status[e] = "published"

HeadFirst == \A e \in Ids : Touched(e) => Ready(e)

LEMMA InitRows == Init => RowsOK /\ HeadFirst
BY OutboxAssumption DEF Init, RowsOK, HeadFirst, Touched

\* The claim offers an event only when all the earlier ones are published:
\* none of them can appear later, since their writers came first.
LEMMA CandidateReady ==
  ASSUME TypeOK, RowsOK, NEW e \in Ids, Candidate(e)
  PROVE  Ready(e)
<1>1. status[e] = "stored" /\ aggregate[e] # None
  BY DEF Candidate, Offered, RowsOK
<1>2. ASSUME NEW p \in Predecessors(e) PROVE status[p] = "published"
  <2>1. p \in Ids /\ p < e /\ aggregate[p] = aggregate[e]
    BY DEF Predecessors
  <2>2. status[p] # "absent" /\ status[p] # "stored"
    BY <1>1, <2>1 DEF RowsOK, Candidate
  <2>3. status[p] # "writing"
    BY <2>1 DEF RowsOK, Ids
  <2>4. QED
    BY <2>1, <2>2, <2>3 DEF TypeOK, RowStatus
<1>3. QED
  BY <1>1, <1>2 DEF Ready

LEMMA NextRows == TypeOK /\ RowsOK /\ [Next]_vars => RowsOK'
<1> SUFFICES ASSUME TypeOK, RowsOK, [Next]_vars PROVE RowsOK'
  OBVIOUS
<1> USE DEF rows, passes, calls
<1>1. CASE UNCHANGED <<status, aggregate, nextId>>
  BY <1>1 DEF RowsOK
<1>2. ASSUME NEW a \in Aggregates, Insert(a) PROVE RowsOK'
  <2>1. /\ nextId \in Ids /\ nextId' = nextId + 1
        /\ \A e \in Ids : status'[e] = IF e = nextId THEN "writing" ELSE status[e]
        /\ \A e \in Ids : aggregate'[e] = IF e = nextId THEN a ELSE aggregate[e]
        /\ Unlocked(a)
    BY <1>2 DEF Insert, TypeOK
  <2>2. \A e \in Ids : status'[e] = "absent" <=> aggregate'[e] = None
    BY <2>1, OutboxAssumption DEF RowsOK
  <2>3. \A e \in Ids : status'[e] # "absent" => e < nextId'
    BY <2>1 DEF RowsOK, Ids
  <2>4. ASSUME NEW e \in Ids, NEW p \in Ids,
               status'[p] = "writing", aggregate'[e] = aggregate'[p]
        PROVE  e <= p
    <3>1. CASE p = nextId
      <4>1. aggregate'[e] # None
        BY <2>1, <2>4, <3>1, OutboxAssumption
      <4>2. e < nextId'
        BY <2>2, <2>3, <4>1
      <4>3. QED
        BY <2>1, <3>1, <4>2 DEF Ids
    <3>2. CASE p # nextId
      <4>1. status[p] = "writing" /\ aggregate'[p] = aggregate[p]
        BY <2>1, <2>4, <3>2
      <4>2. aggregate[p] # a
        BY <2>1, <4>1 DEF Unlocked
      <4>3. e # nextId
        BY <2>1, <2>4, <4>1, <4>2
      <4>4. aggregate[e] = aggregate[p]
        BY <2>1, <2>4, <4>1, <4>3
      <4>5. QED
        BY <4>1, <4>4 DEF RowsOK
    <3>3. QED
      BY <3>1, <3>2
  <2>5. QED
    BY <2>2, <2>3, <2>4 DEF RowsOK
<1>3. ASSUME NEW x \in Ids, CommitInsert(x) PROVE RowsOK'
  <2>1. /\ status[x] = "writing"
        /\ \A e \in Ids : status'[e] = IF e = x THEN "stored" ELSE status[e]
        /\ UNCHANGED <<aggregate, nextId>>
    BY <1>3 DEF CommitInsert, TypeOK
  <2>2. QED
    BY <2>1 DEF RowsOK
<1>4. ASSUME NEW x \in Ids, RollbackInsert(x) PROVE RowsOK'
  <2>1. /\ status[x] = "writing"
        /\ \A e \in Ids : status'[e] = IF e = x THEN "absent" ELSE status[e]
        /\ \A e \in Ids : aggregate'[e] = IF e = x THEN None ELSE aggregate[e]
        /\ UNCHANGED nextId
    BY <1>4 DEF RollbackInsert, TypeOK
  <2>2. QED
    BY <2>1 DEF RowsOK
<1>5. ASSUME NEW d \in Dispatchers, NEW x \in Ids, MarkPublished(d, x) PROVE RowsOK'
  <2>1. /\ status[x] = "stored"
        /\ \A e \in Ids : status'[e] = IF e = x THEN "published" ELSE status[e]
        /\ UNCHANGED <<aggregate, nextId>>
    BY <1>5 DEF MarkPublished, Owns, TypeOK
  <2>2. QED
    BY <2>1 DEF RowsOK
<1>6. QED
  BY <1>1, <1>2, <1>3, <1>4, <1>5
  DEF Next, vars, LeaseExpires, BecomesDue, ReceiveLate, Claim, ClaimFails,
      LeaseBatch, Crash, StartPublish, SlotTimeout, PublishTimeout, MarkFailed,
      LeaseLost, CompletionFails, Receive, PublishReturns

\* Nothing makes an event wait again for earlier ones.
LEMMA ReadyStays ==
  ASSUME TypeOK, RowsOK, [Next]_vars, NEW e \in Ids, Ready(e)
  PROVE  Ready(e)'
<1> USE DEF rows, passes, calls
<1>1. CASE UNCHANGED <<status, aggregate>>
  BY <1>1 DEF Ready, Predecessors
<1>2. ASSUME NEW a \in Aggregates, Insert(a) PROVE Ready(e)'
  <2>1. /\ nextId \in Ids
        /\ \A f \in Ids \ {nextId} : status'[f] = status[f] /\ aggregate'[f] = aggregate[f]
    BY <1>2 DEF Insert, TypeOK
  <2>2. e < nextId
    BY DEF RowsOK, Ready
  <2>3. \A p \in Ids : p < e => p # nextId
    BY <2>1, <2>2 DEF Ids
  <2>4. e # nextId
    BY <2>2, <2>1 DEF Ids
  <2>5. QED
    BY <2>1, <2>3, <2>4 DEF Ready, Predecessors
<1>3. ASSUME NEW x \in Ids, CommitInsert(x) \/ RollbackInsert(x) PROVE Ready(e)'
  <2>1. /\ status[x] = "writing"
        /\ \A f \in Ids \ {x} : status'[f] = status[f] /\ aggregate'[f] = aggregate[f]
        /\ aggregate'[x] = aggregate[x] \/ aggregate'[x] = None
    BY <1>3 DEF CommitInsert, RollbackInsert, TypeOK
  <2>2. e # x /\ aggregate[e] # None
    BY <2>1 DEF Ready, RowsOK
  <2>3. x \notin Predecessors(e)
    BY <2>1 DEF Ready
  <2>4. Predecessors(e)' \subseteq Predecessors(e)
    BY <2>1, <2>2 DEF Predecessors
  <2>5. QED
    BY <2>1, <2>2, <2>3, <2>4 DEF Ready, Predecessors
<1>4. ASSUME NEW d \in Dispatchers, NEW x \in Ids, MarkPublished(d, x) PROVE Ready(e)'
  <2>1. /\ \A f \in Ids : status'[f] = IF f = x THEN "published" ELSE status[f]
        /\ UNCHANGED aggregate
    BY <1>4 DEF MarkPublished, TypeOK
  <2>2. QED
    BY <2>1 DEF Ready, Predecessors
<1>5. QED
  BY <1>1, <1>2, <1>3, <1>4
  DEF Next, vars, LeaseExpires, BecomesDue, ReceiveLate, Claim, ClaimFails,
      LeaseBatch, Crash, StartPublish, SlotTimeout, PublishTimeout, MarkFailed,
      LeaseLost, CompletionFails, Receive, PublishReturns

\* Only a claim touches an event for the first time.
LEMMA TouchedBefore ==
  ASSUME TypeOK, Backed, [Next]_vars, NEW e \in Ids, Touched(e)'
  PROVE  Touched(e) \/ Candidate(e)
<1> USE DEF rows, passes, calls
<1>1. CASE UNCHANGED <<passes, running, late, sink, status>>
  BY <1>1 DEF Touched
<1>2. ASSUME NEW a \in Aggregates, Insert(a) PROVE Touched(e)
  BY <1>2 DEF Insert, Touched, TypeOK
<1>3. ASSUME NEW x \in Ids, CommitInsert(x) \/ RollbackInsert(x) PROVE Touched(e)
  BY <1>3 DEF CommitInsert, RollbackInsert, Touched, TypeOK
<1>4. ASSUME NEW x \in Ids, ReceiveLate(x) PROVE Touched(e)
  BY <1>4 DEF ReceiveLate, Touched
<1>5. ASSUME NEW d \in Dispatchers, Claim(d) PROVE Touched(e) \/ Candidate(e)
  <2>1. /\ \A x \in Dispatchers : work'[x][e] # "none" =>
             work[x][e] # "none" \/ e \in Batch
        /\ UNCHANGED <<running, late, sink, status>>
    BY <1>5 DEF Claim, LeaseBatch, TypeOK
  <2>2. QED
    BY <2>1 DEF Touched, Batch
<1>6. ASSUME NEW d \in Dispatchers, Crash(d) PROVE Touched(e)
  <2>1. /\ \A x \in Dispatchers : work'[x][e] # "none" => work[x][e] # "none"
        /\ running' \subseteq running
        /\ \A f \in late' : f \in late \/ \E c \in running : c.event = f
        /\ UNCHANGED <<status, sink>>
    BY <1>6 DEF Crash, TypeOK
  <2>2. QED
    BY <2>1 DEF Touched
<1>7. ASSUME NEW d \in Dispatchers, NEW x \in Ids, Moves(d, x),
             \/ running' = running
             \/ running' = running \cup {CallOf(d, x)}
             \/ running' \subseteq running,
             \A f \in late' : f \in late \/ \E c \in running : c.event = f,
             sink' = sink,
             status'[e] = "published" => Touched(e)
      PROVE  Touched(e)
  <2>1. work[d][x] # "none"
    BY <1>7 DEF Moves
  <2>2. \A y \in Dispatchers : work'[y][e] # "none" => work[y][e] # "none"
    BY <1>7, <2>1 DEF Moves
  <2>3. \A c \in running' : c.event = e => Touched(e)
    BY <1>7, <2>1 DEF Touched, CallOf
  <2>4. QED
    BY <1>7, <2>2, <2>3 DEF Touched
<1>8. ASSUME NEW d \in Dispatchers, NEW x \in Ids,
             \/ StartPublish(d, x) \/ SlotTimeout(d, x) \/ PublishTimeout(d, x)
      PROVE  Touched(e)
  <2>1. Moves(d, x)
    BY <1>8, StageMoves
    DEF StartPublish, SlotTimeout, PublishTimeout, Admitted, Stages
  <2>2. UNCHANGED <<late, sink, status>>
    BY <1>8 DEF StartPublish, SlotTimeout, PublishTimeout
  <2>3. running' = running \/ running' = running \cup {CallOf(d, x)}
    BY <1>8 DEF StartPublish, SlotTimeout, PublishTimeout
  <2>4. QED
    BY <1>7, <2>1, <2>2, <2>3 DEF Touched
<1>9. ASSUME NEW d \in Dispatchers, NEW x \in Ids,
             \/ MarkPublished(d, x) \/ MarkFailed(d, x)
             \/ LeaseLost(d, x) \/ CompletionFails(d, x)
      PROVE  Touched(e)
  <2>1. Moves(d, x)
    BY <1>9, EndMoves DEF MarkPublished, MarkFailed, LeaseLost, CompletionFails
  <2>2. UNCHANGED <<running, late, sink>>
    BY <1>9 DEF MarkPublished, MarkFailed, LeaseLost, CompletionFails
  <2>3. status'[e] = "published" => status[e] = "published" \/ e = x
    BY <1>9 DEF MarkPublished, MarkFailed, LeaseLost, CompletionFails, TypeOK
  <2>4. work[d][x] # "none"
    BY <2>1 DEF Moves
  <2>5. status'[e] = "published" => Touched(e)
    BY <2>3, <2>4 DEF Touched
  <2>6. QED
    BY <1>7, <2>1, <2>2, <2>5
<1>10. ASSUME NEW c \in running, Receive(c) PROVE Touched(e)
  BY <1>10 DEF Receive, Touched
<1>11. ASSUME NEW c \in running, PublishReturns(c) PROVE Touched(e)
  <2>1. c.owner \in Dispatchers /\ c.event \in Ids
    BY DEF TypeOK, Calls
  <2>2. /\ running' \subseteq running
        /\ \A f \in late' : f \in late \/ \E k \in running : k.event = f
        /\ UNCHANGED <<sink, status, token>>
    BY <1>11 DEF PublishReturns
  <2>3. CASE Awaited(c)
    <3>1. Moves(c.owner, c.event)
      BY <1>11, <2>1, <2>3, StageMoves DEF PublishReturns, Awaited, Stages
    <3>2. QED
      BY <1>7, <2>1, <2>2, <3>1 DEF Touched
  <2>4. CASE ~Awaited(c)
    BY <1>11, <2>2, <2>4 DEF PublishReturns, Touched
  <2>5. QED
    BY <2>3, <2>4
<1>12. QED
  BY <1>1, <1>2, <1>3, <1>4, <1>5, <1>6, <1>8, <1>9, <1>10, <1>11
  DEF Next, vars, LeaseExpires, BecomesDue, ClaimFails, LeaseBatch

LEMMA HeadInvariant == Spec => [](RowsOK /\ HeadFirst)
<1>1. Init => RowsOK /\ HeadFirst
  BY InitRows
<1>2. TypeOK /\ Backed /\ RowsOK /\ HeadFirst /\ [Next]_vars => (RowsOK /\ HeadFirst)'
  <2> SUFFICES ASSUME TypeOK, Backed, RowsOK, HeadFirst, [Next]_vars
               PROVE  (RowsOK /\ HeadFirst)'
    OBVIOUS
  <2>1. ASSUME NEW e \in Ids, Touched(e)' PROVE Ready(e)'
    BY <2>1, TouchedBefore, CandidateReady, ReadyStays DEF HeadFirst
  <2>2. QED
    BY <2>1, NextRows DEF HeadFirst
<1>3. QED
  BY <1>1, <1>2, OutboxTypes, BackedInvariant, PTL DEF Spec

\* The sink never has an event of a round or a session without all the earlier
\* ones, for any number of replicas, stale leases and late requests.
THEOREM DeliveredInOrder == Spec => []InOrder
<1>1. TypeOK /\ HeadFirst /\ NothingLost => InOrder
  <2> SUFFICES ASSUME TypeOK, HeadFirst, NothingLost, NEW e \in sink,
                      NEW p \in Predecessors(e)
               PROVE  p \in sink
    BY DEF InOrder
  <2>0. e \in Ids
    BY DEF TypeOK
  <2>1. status[p] = "published"
    BY <2>0 DEF HeadFirst, Touched, Ready
  <2>2. QED
    BY <2>1 DEF NothingLost, Predecessors
<1>2. QED
  BY <1>1, OutboxTypes, HeadInvariant, NothingIsLost, PTL

-----------------------------------------------------------------------------
(* Sorted sequences of identifiers *)

Below(S, e) == {f \in S : f < e}

\* The rank of an event among a set of events grows with its identifier.
LEMMA Ranks ==
  ASSUME NEW S \in SUBSET Ids
  PROVE  /\ IsFiniteSet(S) /\ Cardinality(S) \in Nat
         /\ \A e \in S : /\ Cardinality(Below(S, e)) \in Nat
                         /\ Cardinality(Below(S, e)) < Cardinality(S)
         /\ \A e, f \in S : e < f =>
              Cardinality(Below(S, e)) < Cardinality(Below(S, f))
<1>1. IsFiniteSet(S) /\ Cardinality(S) \in Nat
  <2>1. IsFiniteSet(Ids)
    BY FS_Interval, OutboxAssumption DEF Ids
  <2>2. QED
    BY <2>1, FS_Subset, FS_CardinalityType
<1>2. ASSUME NEW e \in S
      PROVE  /\ IsFiniteSet(Below(S, e))
             /\ Cardinality(Below(S, e)) \in Nat
             /\ Cardinality(Below(S, e)) < Cardinality(S)
  <2>1. Below(S, e) \in SUBSET S /\ e \notin Below(S, e)
    BY DEF Below, Ids
  <2>2. /\ IsFiniteSet(Below(S, e))
        /\ Cardinality(Below(S, e)) <= Cardinality(S)
        /\ Cardinality(S) # Cardinality(Below(S, e))
    BY <1>1, <2>1, FS_Subset
  <2>3. Cardinality(Below(S, e)) \in Nat
    BY <2>2, FS_CardinalityType
  <2>4. QED
    BY <1>1, <2>2, <2>3
<1>3. ASSUME NEW e \in S, NEW f \in S, e < f
      PROVE  Cardinality(Below(S, e)) < Cardinality(Below(S, f))
  <2>0. \A g \in S : g \in Nat
    BY DEF Ids
  <2>1. Below(S, e) \cup {e} \in SUBSET Below(S, f) /\ e \notin Below(S, e)
    <3>1. \A g \in S : g < e => g < f
      BY <1>3, <2>0
    <3>2. ~(e < e)
      BY <2>0
    <3>3. QED
      BY <1>3, <3>1, <3>2 DEF Below
  <2>2. Cardinality(Below(S, e) \cup {e}) = Cardinality(Below(S, e)) + 1
    BY <1>2, <2>1, FS_AddElement
  <2>3. Cardinality(Below(S, e) \cup {e}) <= Cardinality(Below(S, f))
    BY <1>2, <2>1, FS_Subset
  <2>4. QED
    BY <1>2, <2>2, <2>3
<1>4. QED
  BY <1>1, <1>2, <1>3

\* No two events of a set have the same rank.
LEMMA RankUnique ==
  ASSUME NEW S \in SUBSET Ids, NEW e \in S, NEW f \in S,
         Cardinality(Below(S, e)) = Cardinality(Below(S, f))
  PROVE  e = f
<1>1. e \in Nat /\ f \in Nat
  BY DEF Ids
<1>2. Cardinality(Below(S, e)) \in Nat
  BY Ranks
<1>3. ~(e < f) /\ ~(f < e)
  BY <1>2, Ranks
<1>4. QED
  BY <1>1, <1>3

\* Every rank below the size of the set is somebody's.
LEMMA RankExists ==
  ASSUME NEW S \in SUBSET Ids, NEW i \in 1..Cardinality(S)
  PROVE  \E e \in S : Cardinality(Below(S, e)) = i - 1
<1> DEFINE n == Cardinality(S)
           rank == [e \in S |-> Cardinality(Below(S, e)) + 1]
<1>1. n \in Nat
  BY Ranks
<1>2. \A e \in S : Cardinality(Below(S, e)) + 1 \in 1..n
  BY Ranks
<1>3. rank \in [S -> 1..n]
  BY <1>2
<1>4. \A e, f \in S : rank[e] = rank[f] => e = f
  BY Ranks, RankUnique
<1>5. rank \in Injection(S, 1..n)
  BY <1>3, <1>4 DEF Injection, IsInjective
<1>6. IsFiniteSet(1..n) /\ Cardinality(1..n) = n
  BY <1>1, FS_Interval
<1> HIDE DEF rank
<1>7. rank \in Surjection(S, 1..n)
  BY <1>5, <1>6, FS_Injection
<1>8. PICK e \in S : rank[e] = i
  BY <1>7 DEF Surjection
<1>9. Cardinality(Below(S, e)) \in Nat /\ i \in Nat
  BY <1>1, Ranks
<1>10. QED
  BY <1>8, <1>9 DEF rank

\* The sorted sequence has the event of each rank at its place.
LEMMA SortedAt ==
  ASSUME NEW S \in SUBSET Ids
  PROVE  /\ SortedSeq(S) \in Seq(Ids)
         /\ Len(SortedSeq(S)) = Cardinality(S)
         /\ DOMAIN SortedSeq(S) = 1..Cardinality(S)
         /\ \A i \in 1..Cardinality(S) :
              /\ SortedSeq(S)[i] \in S
              /\ Cardinality(Below(S, SortedSeq(S)[i])) = i - 1
<1>1. Cardinality(S) \in Nat
  BY Ranks
<1>2. ASSUME NEW i \in 1..Cardinality(S)
      PROVE  /\ SortedSeq(S)[i] \in S
             /\ Cardinality(Below(S, SortedSeq(S)[i])) = i - 1
  <2>1. SortedSeq(S)[i] = CHOOSE e \in S : Cardinality(Below(S, e)) = i - 1
    BY DEF SortedSeq, Below
  <2>2. \E e \in S : Cardinality(Below(S, e)) = i - 1
    BY RankExists
  <2>3. QED
    BY <2>1, <2>2, Zenon
<1>3. DOMAIN SortedSeq(S) = 1..Cardinality(S)
  BY DEF SortedSeq
<1>4. SortedSeq(S) = [i \in 1..Cardinality(S) |-> SortedSeq(S)[i]]
  BY DEF SortedSeq
<1>5. SortedSeq(S) \in [1..Cardinality(S) -> Ids]
  BY <1>2, <1>4
<1>6. SortedSeq(S) \in Seq(Ids) /\ Len(SortedSeq(S)) = Cardinality(S)
  BY <1>1, <1>5
<1>7. QED
  BY <1>2, <1>3, <1>6

\* An event stands in the sorted sequence behind all the smaller ones.
LEMMA PlaceOf ==
  ASSUME NEW S \in SUBSET Ids, NEW e \in S
  PROVE  LET i == Cardinality(Below(S, e)) + 1 IN
         i \in 1..Cardinality(S) /\ SortedSeq(S)[i] = e
<1> DEFINE i == Cardinality(Below(S, e)) + 1
<1>1. i \in 1..Cardinality(S) /\ i - 1 = Cardinality(Below(S, e))
  BY Ranks
<1> HIDE DEF i
<1>2. /\ SortedSeq(S)[i] \in S
      /\ Cardinality(Below(S, SortedSeq(S)[i])) = i - 1
  BY <1>1, SortedAt
<1>3. SortedSeq(S)[i] = e
  BY <1>1, <1>2, RankUnique
<1>4. QED
  BY <1>1, <1>3 DEF i

\* An event newer than all of a set goes to the end.
LEMMA SortedAppend ==
  ASSUME NEW S \in SUBSET Ids, NEW x \in Ids, \A e \in S : e < x
  PROVE  SortedSeq(S \cup {x}) = Append(SortedSeq(S), x)
<1> DEFINE T == S \cup {x}
           n == Cardinality(S)
<1>1. T \in SUBSET Ids /\ x \notin S /\ n \in Nat
  BY Ranks DEF Ids
<1>0. /\ \A e \in S : e < x /\ ~(x < e)
      /\ ~(x < x)
  BY DEF Ids
<1>2. Cardinality(T) = n + 1
  BY <1>1, Ranks, FS_AddElement
<1>3. /\ SortedSeq(S) \in Seq(Ids) /\ Len(SortedSeq(S)) = n
      /\ SortedSeq(T) \in Seq(Ids) /\ Len(SortedSeq(T)) = n + 1
  BY <1>1, <1>2, SortedAt
<1>4. ASSUME NEW i \in 1..n
      PROVE  SortedSeq(T)[i] = SortedSeq(S)[i]
  <2> DEFINE e == SortedSeq(S)[i]
  <2>1. e \in S /\ Cardinality(Below(S, e)) = i - 1
    BY SortedAt
  <2>2. Below(T, e) = Below(S, e)
    BY <1>0, <2>1 DEF Below
  <2>3. (i - 1) + 1 = i
    BY <1>1
  <2> HIDE DEF e
  <2>4. SortedSeq(T)[Cardinality(Below(T, e)) + 1] = e
    BY <1>1, <2>1, PlaceOf
  <2>5. QED
    BY <2>1, <2>2, <2>3, <2>4 DEF e
<1>5. SortedSeq(T)[n + 1] = x
  <2>1. Below(T, x) = S
    BY <1>0 DEF Below
  <2>2. SortedSeq(T)[Cardinality(Below(T, x)) + 1] = x
    BY <1>1, PlaceOf
  <2>3. QED
    BY <2>1, <2>2
<1> HIDE DEF T, n
<1>6. /\ Append(SortedSeq(S), x) \in Seq(Ids)
      /\ Len(Append(SortedSeq(S), x)) = n + 1
      /\ \A i \in 1..n : Append(SortedSeq(S), x)[i] = SortedSeq(S)[i]
      /\ Append(SortedSeq(S), x)[n + 1] = x
  BY <1>1, <1>3
<1>7. \A i \in 1..n + 1 : SortedSeq(T)[i] = Append(SortedSeq(S), x)[i]
  BY <1>1, <1>4, <1>5, <1>6
<1>8. SortedSeq(T) = Append(SortedSeq(S), x)
  BY <1>1, <1>3, <1>6, <1>7
<1>9. QED
  BY <1>8 DEF T

-----------------------------------------------------------------------------
(* The abstract stream *)

\* The abstract state, as Stream's substitutions give it.
log == [a \in Aggregates |-> SortedSeq(Committed(a))]

seen == [a \in Aggregates |-> SortedSeq(Committed(a) \cap sink)]

\* A step commits one event, lets the sink learn one that left the store, or
\* changes neither the committed events nor the sink.
LEMMA StreamKinds ==
  ASSUME TypeOK, RowsOK, [Next]_vars
  PROVE  \/ sink' = sink /\ \A a \in Aggregates : Committed(a)' = Committed(a)
         \/ \E e \in Ids : CommitInsert(e)
         \/ \E e \in Ids : /\ Touched(e)
                           /\ sink' = sink \cup {e}
                           /\ UNCHANGED <<status, aggregate>>
<1> USE DEF rows, passes, calls
<1>1. CASE UNCHANGED <<status, aggregate, sink>>
  BY <1>1 DEF Committed
<1>2. ASSUME NEW b \in Aggregates, Insert(b)
      PROVE  sink' = sink /\ \A a \in Aggregates : Committed(a)' = Committed(a)
  <2>1. /\ nextId \in Ids
        /\ \A e \in Ids : status'[e] = IF e = nextId THEN "writing" ELSE status[e]
        /\ \A e \in Ids \ {nextId} : aggregate'[e] = aggregate[e]
        /\ sink' = sink
    BY <1>2 DEF Insert, TypeOK
  <2>2. status[nextId] = "absent"
    BY <2>1 DEF RowsOK, Ids
  <2>3. QED
    BY <2>1, <2>2 DEF Committed
<1>3. ASSUME NEW x \in Ids, RollbackInsert(x)
      PROVE  sink' = sink /\ \A a \in Aggregates : Committed(a)' = Committed(a)
  <2>1. /\ status[x] = "writing"
        /\ \A e \in Ids : status'[e] = IF e = x THEN "absent" ELSE status[e]
        /\ \A e \in Ids \ {x} : aggregate'[e] = aggregate[e]
        /\ sink' = sink
    BY <1>3 DEF RollbackInsert, TypeOK
  <2>2. QED
    BY <2>1 DEF Committed
<1>4. ASSUME NEW d \in Dispatchers, NEW x \in Ids, MarkPublished(d, x)
      PROVE  sink' = sink /\ \A a \in Aggregates : Committed(a)' = Committed(a)
  <2>1. /\ status[x] = "stored"
        /\ \A e \in Ids : status'[e] = IF e = x THEN "published" ELSE status[e]
        /\ UNCHANGED <<aggregate, sink>>
    BY <1>4 DEF MarkPublished, Owns, TypeOK
  <2>2. QED
    BY <2>1 DEF Committed
<1>5. ASSUME NEW x \in Ids, ReceiveLate(x)
      PROVE  /\ Touched(x)
             /\ sink' = sink \cup {x}
             /\ UNCHANGED <<status, aggregate>>
  BY <1>5 DEF ReceiveLate, Touched
<1>6. ASSUME NEW c \in running, Receive(c)
      PROVE  \E e \in Ids : /\ Touched(e)
                            /\ sink' = sink \cup {e}
                            /\ UNCHANGED <<status, aggregate>>
  BY <1>6 DEF Receive, Touched, TypeOK, Calls
<1>7. QED
  BY <1>1, <1>2, <1>3, <1>4, <1>5, <1>6
  DEF Next, vars, LeaseExpires, BecomesDue, Claim, ClaimFails,
      LeaseBatch, Crash, StartPublish, SlotTimeout, PublishTimeout, MarkFailed,
      LeaseLost, CompletionFails, PublishReturns

\* A committed event is new to the logs and the last of its own.
LEMMA CommitAbstractly ==
  ASSUME TypeOK, RowsOK, HeadFirst, NEW x \in Ids, CommitInsert(x)
  PROVE  \E a \in Aggregates : Stream!Record(a)
<1>1. /\ status[x] = "writing"
      /\ \A e \in Ids : status'[e] = IF e = x THEN "stored" ELSE status[e]
      /\ UNCHANGED <<aggregate, sink>>
  BY DEF CommitInsert, TypeOK
<1>2. PICK b \in Aggregates : b = aggregate[x]
  BY <1>1 DEF RowsOK, TypeOK
<1>3. \A a \in Aggregates : Committed(a) \in SUBSET Ids /\ x \notin Committed(a)
  BY <1>1 DEF Committed
<1>4. /\ Committed(b)' = Committed(b) \cup {x}
      /\ \A a \in Aggregates \ {b} : Committed(a)' = Committed(a)
  BY <1>1, <1>2 DEF Committed
<1>5. \A e \in Committed(b) : e < x
  <2> SUFFICES ASSUME NEW e \in Committed(b) PROVE e < x
    OBVIOUS
  <2>1. e \in Ids /\ aggregate[e] = aggregate[x] /\ e # x
    BY <1>1, <1>2 DEF Committed
  <2>2. e <= x
    BY <1>1, <2>1 DEF RowsOK
  <2>3. QED
    BY <2>1, <2>2 DEF Ids
<1>6. x \notin sink
  BY <1>1 DEF HeadFirst, Touched, Ready
<1>7. x \notin Stream!Logged
  <2> SUFFICES ASSUME NEW a \in Aggregates,
                      NEW i \in DOMAIN SortedSeq(Committed(a))
               PROVE  SortedSeq(Committed(a))[i] # x
    BY DEF Stream!Logged
  <2>1. SortedSeq(Committed(a))[i] \in Committed(a)
    BY <1>3, SortedAt
  <2>2. QED
    BY <1>3, <2>1
<1>8. log' = [log EXCEPT ![b] = Append(@, x)]
  <2>1. SortedSeq(Committed(b)') = Append(SortedSeq(Committed(b)), x)
    BY <1>2, <1>3, <1>4, <1>5, SortedAppend
  <2>2. \A a \in Aggregates \ {b} :
          SortedSeq(Committed(a)') = SortedSeq(Committed(a))
    BY <1>4
  <2>3. log' = [a \in Aggregates |-> SortedSeq(Committed(a)')]
    BY DEF log
  <2>4. \A a \in Aggregates : log[a] = SortedSeq(Committed(a))
    BY DEF log
  <2>5. log = [a \in Aggregates |-> log[a]]
    BY DEF log
  <2>6. [log EXCEPT ![b] = Append(@, x)] =
          [a \in Aggregates |-> IF a = b THEN Append(log[b], x) ELSE log[a]]
    BY <2>5
  <2>7. \A a \in Aggregates :
          SortedSeq(Committed(a)') =
            IF a = b THEN Append(log[b], x) ELSE log[a]
    BY <2>1, <2>2, <2>4
  <2>8. QED
    BY <2>3, <2>6, <2>7
<1>9. seen' = seen
  <2>1. \A a \in Aggregates : (Committed(a) \cap sink)' = Committed(a) \cap sink
    BY <1>1, <1>4, <1>6
  <2>2. QED
    BY <2>1 DEF seen
<1>10. Stream!Record(b)
  BY <1>7, <1>8, <1>9 DEF Stream!Record, log, seen
<1>11. QED
  BY <1>10

\* The sink learns the next event of a log, or one that it knows.
LEMMA ReceiveAbstractly ==
  ASSUME TypeOK, RowsOK, HeadFirst, NothingLost, InOrder,
         NEW x \in Ids, Touched(x), sink' = sink \cup {x},
         UNCHANGED <<status, aggregate>>
  PROVE  \/ UNCHANGED <<log, seen>>
         \/ \E a \in Aggregates : Stream!Deliver(a)
<1>1. \A a \in Aggregates : Committed(a)' = Committed(a)
  BY DEF Committed
<1>2. log' = log
  BY <1>1 DEF log
<1>3. CASE x \in sink
  <2>1. sink' = sink
    BY <1>3
  <2>2. seen' = seen
    BY <1>1, <2>1 DEF seen
  <2>3. QED
    BY <1>2, <2>2
<1>4. CASE x \notin sink
  <2>0. aggregate[x] \in Aggregates
    BY DEF HeadFirst, Ready, RowsOK, TypeOK
  <2>1. PICK b \in Aggregates : Ready(x) /\ b = aggregate[x] /\ x \in Committed(b)
    BY <2>0 DEF HeadFirst, Ready, Committed
  <2> DEFINE K == Committed(b) \cap sink
             k == Cardinality(K)
  <2>2. /\ Committed(b) \in SUBSET Ids
        /\ K \in SUBSET Ids
        /\ \A a \in Aggregates \ {b} : x \notin Committed(a)
    BY <2>1 DEF Committed
  <2>3. \A e \in K : e < x
    <3> SUFFICES ASSUME NEW e \in K PROVE e < x
      OBVIOUS
    <3>1. e \in Ids /\ e # x /\ aggregate[e] = b /\ e \in sink
      BY <1>4, <2>1 DEF Committed
    <3>2. ~(x < e)
      BY <1>4, <2>1, <3>1 DEF InOrder, Predecessors
    <3>3. QED
      BY <3>1, <3>2 DEF Ids
  <2>4. Below(Committed(b), x) = K
    <3>1. ASSUME NEW e \in Committed(b), e < x PROVE e \in sink
      BY <2>1, <3>1 DEF Committed, Ready, Predecessors, NothingLost
    <3>2. QED
      BY <2>3, <3>1 DEF Below
  <2>5. k + 1 \in 1..Cardinality(Committed(b)) /\ k \in Nat
        /\ SortedSeq(Committed(b))[k + 1] = x
    BY <2>1, <2>2, <2>4, PlaceOf, Ranks
  <2>6. SortedSeq(K \cup {x}) = Append(SortedSeq(K), x)
    BY <2>2, <2>3, SortedAppend
  <2>7. Len(SortedSeq(K)) = k /\ Len(SortedSeq(Committed(b))) = Cardinality(Committed(b))
    BY <2>2, SortedAt
  <2>8. /\ (Committed(b) \cap sink)' = K \cup {x}
        /\ \A a \in Aggregates \ {b} :
             (Committed(a) \cap sink)' = Committed(a) \cap sink
    BY <1>1, <2>1, <2>2
  <2>9. /\ log[b] = SortedSeq(Committed(b))
        /\ seen[b] = SortedSeq(K)
    BY <2>1 DEF log, seen
  <2>10. seen' = [seen EXCEPT ![b] = Append(@, x)]
    <3>1. seen' = [a \in Aggregates |-> SortedSeq((Committed(a) \cap sink)')]
      BY DEF seen
    <3>2. QED
      BY <2>6, <2>8, <3>1 DEF seen
  <2>11. Len(seen[b]) = k /\ k < Len(log[b]) /\ log[b][k + 1] = x
    BY <2>2, <2>5, <2>7, <2>9, Ranks
  <2> HIDE DEF K, k
  <2>12. seen' = [seen EXCEPT ![b] = Append(@, log[b][Len(@) + 1])]
    BY <2>10, <2>11
  <2>13. Stream!Deliver(b)
    BY <1>2, <2>11, <2>12 DEF Stream!Deliver, log, seen
  <2>14. QED
    BY <2>13
<1>5. QED
  BY <1>3, <1>4

\* In the initial state nothing is committed.
LEMMA InitStream == Init => Stream!Init
<1> SUFFICES ASSUME Init PROVE Stream!Init
  OBVIOUS
<1>1. \A a \in Aggregates : Committed(a) = {} /\ Committed(a) \cap sink = {}
  BY DEF Init, Committed
<1>2. SortedSeq({}) = <<>>
  <2>1. SortedSeq({}) \in Seq(Ids) /\ Len(SortedSeq({})) = 0
    BY SortedAt, FS_EmptySet
  <2>2. QED
    BY <2>1
<1>3. log = [a \in Aggregates |-> <<>>] /\ seen = [a \in Aggregates |-> <<>>]
  BY <1>1, <1>2 DEF log, seen
<1>4. QED
  BY <1>3 DEF Stream!Init, log, seen

\* The delivery of the outbox, with its leases, deadlines, retries, crashes and
\* late requests, implements the abstract event stream.
THEOREM DeliversStream == Spec => ImplementsStream
<1>1. /\ TypeOK /\ RowsOK /\ HeadFirst /\ NothingLost /\ InOrder
      /\ [Next]_vars
      => [Stream!Next]_(Stream!vars)
  <2> SUFFICES ASSUME TypeOK, RowsOK, HeadFirst, NothingLost, InOrder,
                      [Next]_vars
               PROVE  [Stream!Next]_(Stream!vars)
    OBVIOUS
  <2>1. UNCHANGED <<log, seen>> => UNCHANGED Stream!vars
    BY DEF Stream!vars, log, seen
  <2>2. ASSUME sink' = sink,
               \A a \in Aggregates : Committed(a)' = Committed(a)
        PROVE  UNCHANGED <<log, seen>>
    BY <2>2 DEF log, seen
  <2>3. ASSUME NEW e \in Ids, CommitInsert(e)
        PROVE  Stream!Next
    BY <2>3, CommitAbstractly DEF Stream!Next
  <2>4. ASSUME NEW e \in Ids, Touched(e), sink' = sink \cup {e},
               UNCHANGED <<status, aggregate>>
        PROVE  UNCHANGED <<log, seen>> \/ Stream!Next
    BY <2>4, ReceiveAbstractly DEF Stream!Next
  <2>5. QED
    BY <2>1, <2>2, <2>3, <2>4, StreamKinds
<1>2. QED
  BY <1>1, InitStream, OutboxTypes, HeadInvariant, NothingIsLost,
     DeliveredInOrder, PTL
  DEF Spec, ImplementsStream, Stream!Spec
=============================================================================
