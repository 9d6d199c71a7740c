--------------------------- MODULE RecoveryLedger ---------------------------
(***************************************************************************)
(* RgsGateway.ts: what the browser keeps of a round it asked for, so that  *)
(* a reloaded page can finish it.  The ledger of this release (version 2)  *)
(* holds the feature state the round began from; that of the release       *)
(* before (version 1) only its mode, and the state must then be taken from *)
(* the session or worked out from the result.  A ledger is a function from *)
(* field names, so that its shape can be checked.  The module also has the *)
(* page's configuration and the waits between two calls, in milliseconds.  *)
(* Timers, hidden pages and renewed tokens are in ClientRound.             *)
(***************************************************************************)
EXTENDS Integers, Sequences, FiniteSets
CONSTANTS MaxRounds, MaxLaunches,  \* bounds: rounds asked, pages opened
          MaxRage, MaxSpins        \* bounds: the rage meter, the spins of a feature
VARIABLE s

Seqs == INSTANCE SequencesExt
Least(a, b) == IF a < b THEN a ELSE b
Most(a, b) == IF a < b THEN b ELSE a

-----------------------------------------------------------------------------
(* Feature states; one without free spins has no bet and no win.           *)
Base(level, total) ==
  [mode |-> "BASE", freeSpinsRemaining |-> 0, freeSpinsPlayed |-> 0,
   rageLevel |-> level, rageCollected |-> total]
Active(mode, remaining, played, bet, win, level, total) ==
  [mode |-> mode, freeSpinsRemaining |-> remaining, freeSpinsPlayed |-> played,
   baseBetMinor |-> bet, freeSpinsWinMinor |-> win, rageLevel |-> level, rageCollected |-> total]
Unknown == [mode |-> "unknown"]
Modes == {"BASE", "EXPANSION", "OVERDRIVE"}
BaseKeys == DOMAIN Base(1, 0)
ActiveKeys == DOMAIN Active("EXPANSION", 1, 0, 1, 0, 1, 0)
IsBase(f) == f.mode = "BASE"
rageLevel(total) == IF total < 2 THEN 1 ELSE 2

(* What the engine may make of a round that began from f.                  *)
NoCollection == [count |-> 0, level |-> 0, total |-> 0]
NoCompletion == [awarded |-> 0, cumulative |-> 0]
Result(win, after, collection, awarded, completion) ==
  [win |-> win, after |-> after, collection |-> collection, awarded |-> awarded,
   completion |-> completion]
NoResult == Result(0, Unknown, NoCollection, 0, NoCompletion)
Collected(count, level, total) == [count |-> count, level |-> level, total |-> total]
Begun(bet, win, level, total) ==
  {Base(level, total)} \union {Active(m, 2, 0, bet, win, level, total) : m \in Modes \ {"BASE"}}
BaseResults(f, bet, win) ==
  {Result(win, f, NoCollection, 0, NoCompletion)}
  \union {Result(win, Base(rageLevel(f.rageCollected + n), f.rageCollected + n),
                 Collected(n, rageLevel(f.rageCollected + n), f.rageCollected + n), 0, NoCompletion) :
          n \in {k \in {1, 2} : f.rageCollected + k <= MaxRage}}
  \union {Result(win, after, Collected(1, 1, 0), 0, NoCompletion) : after \in Begun(bet, win, 1, 0)}
  \union {Result(win, after, Collected(3, f.rageLevel, f.rageCollected), 0, NoCompletion) :
          after \in Begun(bet, win, f.rageLevel, f.rageCollected)}
ActiveResults(f, win) ==
  {LET left == f.freeSpinsRemaining - 1 + more
   IN  IF left = 0
       THEN Result(win, Base(f.rageLevel, f.rageCollected), NoCollection, 0,
                   [awarded |-> f.freeSpinsPlayed + 1, cumulative |-> f.freeSpinsWinMinor + win])
       ELSE Result(win, [f EXCEPT !.freeSpinsRemaining = left, !.freeSpinsPlayed = @ + 1,
                                  !.freeSpinsWinMinor = @ + win], NoCollection, more, NoCompletion) :
   more \in IF f.mode = "EXPANSION" /\ f.freeSpinsRemaining + f.freeSpinsPlayed < MaxSpins
            THEN {0, 1} ELSE {0}}
Results(f, bet) ==
  IF IsBase(f) THEN BaseResults(f, bet, 1) ELSE ActiveResults(f, 1)

-----------------------------------------------------------------------------
(* The page's configuration.  Addresses, identifiers and the launch code   *)
(* are well-formed or not.                                                 *)
Config(bets, default, base, max, window) ==
  [wellFormed |-> TRUE, bets |-> bets, default |-> default, base |-> base, max |-> max,
   window |-> window, attempts |-> 3]
configuredInteger(n, least, greatest) == n \in least .. greatest
canonicalMoney(n) == n > 0
validateConfig(c) ==
  /\ c.wellFormed
  /\ Len(c.bets) \in 1..100
  /\ \A i, j \in DOMAIN c.bets : canonicalMoney(c.bets[i]) /\ (c.bets[i] = c.bets[j] => i = j)
  /\ \E i \in DOMAIN c.bets : c.bets[i] = c.default
  /\ configuredInteger(c.base, 100, 10000)
  /\ configuredInteger(c.max, 100, 60000)
  /\ configuredInteger(c.window, 1000, 600000)
  /\ c.base <= c.max /\ c.max <= c.window
  /\ configuredInteger(c.attempts, 1, 20)
Offers(c, bet) == \E i \in DOMAIN c.bets : c.bets[i] = bet
Usual == Config(<<1, 2>>, 1, 500, 30000, 120000)
Configs == {Usual, Config(<<1>>, 1, 500, 30000, 120000), Config(<<1, 2>>, 2, 700, 700, 1500),
            Config(<<1, 1>>, 1, 500, 30000, 120000), Config(<<1>>, 2, 500, 30000, 120000),
            Config(<<1, 2>>, 1, 700, 500, 1500), Config(<<1, 2>>, 1, 500, 3000, 1500),
            [Usual EXCEPT !.wellFormed = FALSE]}

(* Two sessions of the player; a round is asked for in the first.          *)
Binding(session) == [sessionId |-> session, definitionHash |-> "definition", jurisdiction |-> "one"]
Mine == Binding("mine")
Other == Binding("other")
sha256BindingFingerprint(b) == <<b.sessionId, b.definitionHash, b.jurisdiction>>

-----------------------------------------------------------------------------
(* Reading and writing a ledger.                                           *)
Empty == [version |-> 0]
Refused == [version |-> -1]
exactLedgerRecord(l, keys) == DOMAIN l = keys

decodeLedgerFeatureState(f, bet) ==
  IF /\ f.mode \in Modes
     /\ exactLedgerRecord(f, IF IsBase(f) THEN BaseKeys ELSE ActiveKeys)
     /\ f.rageLevel >= 1 /\ f.rageCollected >= 0
     /\ (f.rageCollected = 0 => f.rageLevel = 1)
     /\ IF IsBase(f)
        THEN f.freeSpinsRemaining = 0 /\ f.freeSpinsPlayed = 0
        ELSE /\ f.freeSpinsRemaining >= 1
             /\ f.freeSpinsRemaining + f.freeSpinsPlayed <= 1000000
             /\ f.baseBetMinor = bet
  THEN f ELSE Unknown

Restricted(f, keys) == [k \in keys |-> f[k]]
persistedLedgerFeatureState(f, bet) ==
  decodeLedgerFeatureState(Restricted(f, IF IsBase(f) THEN BaseKeys ELSE ActiveKeys), bet)

Ledger(binding, round, bet, start, origin) ==
  [version |-> 2, bindingFingerprint |-> sha256BindingFingerprint(binding), roundId |-> round,
   betMinor |-> bet, startRevision |-> start, originFeatureState |-> origin]
OldLedger(binding, round, bet, start, mode) ==
  [version |-> 1, bindingFingerprint |-> sha256BindingFingerprint(binding), roundId |-> round,
   betMinor |-> bet, startRevision |-> start, originMode |-> mode]
Keys(version) ==
  {"version", "bindingFingerprint", "roundId", "betMinor", "startRevision",
   IF version = 1 THEN "originMode" ELSE "originFeatureState"}

decodeLedgerCommon(l) == canonicalMoney(l.betMinor) /\ l.startRevision >= 0
decodeLedger(l) ==
  IF \/ l.version \notin {1, 2}
     \/ ~exactLedgerRecord(l, Keys(l.version))
     \/ ~decodeLedgerCommon(l)
     \/ l.version = 1 /\ l.originMode \notin Modes
     \/ l.version = 2 /\ decodeLedgerFeatureState(l.originFeatureState, l.betMinor) = Unknown
  THEN Refused ELSE l

ledgerOriginMode(l) == IF l.version = 2 THEN l.originFeatureState.mode ELSE l.originMode
sameFeatureState(f, g) == f = g

-----------------------------------------------------------------------------
(* The origin of a committed round whose ledger only has the mode.         *)
provableLegacyRageOriginForBase(result) ==
  CASE result.collection.count = 0 -> Base(result.after.rageLevel, result.after.rageCollected)
    [] result.collection.count = 3 -> Base(result.collection.level, result.collection.total)
    [] OTHER -> Unknown
StillActive(mode, bet, result) ==
  LET after == result.after
      remaining == after.freeSpinsRemaining + 1 - result.awarded
      win == after.freeSpinsWinMinor - result.win
  IN  IF after.freeSpinsPlayed < 1 \/ remaining < 1 \/ win < 0 THEN Unknown
      ELSE Active(mode, remaining, after.freeSpinsPlayed - 1, bet, win, after.rageLevel,
                  after.rageCollected)
Ended(mode, bet, result) ==
  IF result.completion = NoCompletion \/ result.awarded # 0
     \/ result.completion.cumulative < result.win THEN Unknown
  ELSE Active(mode, 1, result.completion.awarded - 1, bet, result.completion.cumulative - result.win,
              result.after.rageLevel, result.after.rageCollected)
reconstructOriginFeatureState_TotalWin(p, result) ==
  IF p.origin # Unknown \/ ledgerOriginMode(p.ledger) = "BASE" \/ IsBase(result.after) THEN p.origin
  ELSE [StillActive(result.after.mode, p.ledger.betMinor, result)
          EXCEPT !.freeSpinsWinMinor = result.after.freeSpinsWinMinor]
reconstructOriginFeatureState(p, result) ==
  LET mode == ledgerOriginMode(p.ledger)
  IN  CASE p.origin # Unknown -> p.origin
        [] p.origin = Unknown /\ mode = "BASE" -> provableLegacyRageOriginForBase(result)
        [] p.origin = Unknown /\ mode # "BASE" /\ result.after.mode = mode ->
             StillActive(mode, p.ledger.betMinor, result)
        [] OTHER -> Ended(mode, p.ledger.betMinor, result)

-----------------------------------------------------------------------------
(* Waits, in milliseconds.                                                 *)
MAX_ADMISSION_RETRY_AFTER_MS == 1000000
MAX_TIMER_DELAY_MS == 2147483647
Headers == {[form |-> "other", value |-> 0], [form |-> "date", value |-> 1500]}
           \union {[form |-> "seconds", value |-> n] : n \in {2, 1001}}
Milliseconds(h) == IF h.form = "seconds" THEN 1000 * h.value ELSE h.value
Unsafe == -1
safeRetryAfterMs(h) ==
  IF h.form \in {"seconds", "date"} /\ Milliseconds(h) \in 1000 .. MAX_ADMISSION_RETRY_AFTER_MS
  THEN Milliseconds(h) ELSE Unsafe

\* What the random sample may be; a sampler that fails counts as the middle.
Samples == {"none", "most", "failed"}
Jitter(spread, sample) ==
  CASE sample = "none" -> 0 [] sample = "most" -> spread - 1 [] OTHER -> spread \div 2
distributedRetryDelayMs(exponential, minimum, sample) ==
  LET floor == Most(0, Most(exponential, minimum))
  IN  IF floor = 0 THEN 0
      ELSE Least(MAX_TIMER_DELAY_MS, floor + Jitter(Least(1000, Most(1, floor)), sample))

NoWait == [attempts |-> 0, elapsed |-> 0, delay |-> 0, asked |-> 0]

-----------------------------------------------------------------------------
NoRound ==
  [id |-> 0, bet |-> 0, status |-> "absent", origin |-> Unknown, result |-> NoResult, acked |-> FALSE]
NoPending ==
  [ledger |-> Empty, origin |-> Unknown, resubmitOnNotFound |-> FALSE, pollAttempts |-> 0,
   delivered |-> FALSE, shown |-> Unknown]
Pending(ledger, origin, resubmit) ==
  [NoPending EXCEPT !.ledger = ledger, !.origin = origin, !.resubmitOnNotFound = resubmit]
Waiting(p) == p.ledger # Empty
Submission(ledger) ==
  [id |-> ledger.roundId, bet |-> ledger.betMinor, start |-> ledger.startRevision]
Submissions == [id : 1 .. MaxRounds, bet : {1, 2}, start : 0 .. MaxRounds]
NoSession == [feature |-> Unknown, revision |-> 0]
Closed == [phase |-> "closed", why |-> "none", binding |-> Mine, config |-> Usual,
           session |-> NoSession, pending |-> NoPending, wait |-> NoWait]
Blocked(why) == [s.page EXCEPT !.phase = "blocked", !.why = why, !.session = NoSession,
                               !.pending = NoPending, !.wait = NoWait]

FirstFeatures == {Base(1, 0), Base(1, 1), Active("EXPANSION", 1, 1, 1, 1, 1, 0),
                  Active("OVERDRIVE", 2, 0, 2, 0, 1, 1)}
Init ==
  s \in {[feature |-> f, revision |-> 0, round |-> NoRound, asked |-> 0, launches |-> 0,
          wire |-> {}, storage |-> Empty, page |-> Closed] : f \in FirstFeatures}

Ready == s.page.phase = "ready"
Pend == s.page.pending
Over(r) == r.status \in {"absent", "rejected"} \/ (r.status = "committed" /\ r.acked)

(* The server: a submission is refused unless the session is free and at   *)
(* its revision; a known round is not begun again.                         *)
Receive(m) ==
  /\ m \in s.wire
  /\ s' = [s EXCEPT !.wire = @ \ {m},
                    !.round = IF m.id # @.id /\ m.start = s.revision /\ Over(@)
                              THEN [NoRound EXCEPT !.id = m.id, !.bet = m.bet, !.status = "received",
                                                   !.origin = s.feature]
                              ELSE @]
Lose(m) == m \in s.wire /\ s' = [s EXCEPT !.wire = @ \ {m}]
Settle ==
  /\ s.round.status = "received"
  /\ \E result \in Results(s.feature, s.round.bet) :
       s' = [s EXCEPT !.round.status = "committed", !.round.result = result,
                      !.feature = result.after, !.revision = @ + 1]
Reject == s.round.status = "received" /\ s' = [s EXCEPT !.round.status = "rejected"]

(* The page before the release: it leaves a ledger of version 1.           *)
AskOld(bet) ==
  /\ s.asked = 0 /\ s.launches = 0
  /\ ~IsBase(s.feature) => s.feature.baseBetMinor = bet
  /\ LET ledger == OldLedger(Mine, 1, bet, 0, s.feature.mode)
     IN  s' = [s EXCEPT !.asked = 1, !.storage = ledger, !.wire = {Submission(ledger)}]

-----------------------------------------------------------------------------
(* A page opens and exchanges its launch code.                             *)
SessionOf(b) ==
  IF b = Mine THEN [feature |-> s.feature, revision |-> s.revision]
  ELSE [feature |-> Base(1, 0), revision |-> 0]
Launch(c, b) ==
  /\ s.launches < MaxLaunches
  /\ s' = [s EXCEPT !.launches = @ + 1,
       !.page = IF ~validateConfig(c) THEN [Closed EXCEPT !.phase = "refused"]
                ELSE [Closed EXCEPT !.phase = "exchanged", !.binding = b, !.config = c,
                                    !.session = SessionOf(b)]]

(* restorePendingLedger: why a ledger that was read cannot be used.        *)
Exchanged == s.page.phase = "exchanged"
Foreign(l) == l.bindingFingerprint # sha256BindingFingerprint(s.page.binding)
Delta(l) == s.page.session.revision - l.startRevision
OriginDiffers(l) ==
  LET f == s.page.session.feature
  IN  \/ f.mode # ledgerOriginMode(l)
      \/ ~IsBase(f) /\ f.baseBetMinor # l.betMinor
      \/ l.version = 2 /\ ~sameFeatureState(f, l.originFeatureState)
Unusable(l) ==
  \/ ~Offers(s.page.config, l.betMinor)
  \/ Delta(l) \notin {0, 1}
  \/ Delta(l) = 0 /\ OriginDiffers(l)

NothingStored ==
  /\ Exchanged /\ s.storage = Empty
  /\ s' = [s EXCEPT !.page.phase = "discovering"]
ForeignLedger ==
  /\ Exchanged /\ s.storage # Empty /\ decodeLedger(s.storage) # Refused /\ Foreign(s.storage)
  /\ s' = [s EXCEPT !.page.phase = "discovering", !.storage = Empty]
LedgerRefused_Forgets(l) == [s EXCEPT !.page = Blocked("ledger"), !.storage = Empty]
LedgerRefused(l) == [s EXCEPT !.page = Blocked("ledger")]
RefuseLedger ==
  /\ Exchanged /\ s.storage # Empty
  /\ \/ decodeLedger(s.storage) = Refused
     \/ ~Foreign(s.storage) /\ Unusable(s.storage)
  /\ s' = LedgerRefused(s.storage)

\* A round the server has not committed is asked for again only when its exact
\* origin is stored: a ledger of version 1 is replaced first.
Upgraded(l) ==
  IF l.version = 2 THEN l
  ELSE Ledger(s.page.binding, l.roundId, l.betMinor, l.startRevision,
              persistedLedgerFeatureState(s.page.session.feature, l.betMinor))
Usable ==
  /\ Exchanged /\ s.storage # Empty /\ decodeLedger(s.storage) # Refused
  /\ ~Foreign(s.storage) /\ ~Unusable(s.storage)
restorePendingLedger ==
  /\ Usable
  /\ LET l == IF Delta(s.storage) = 0 THEN Upgraded(s.storage) ELSE s.storage
         origin == IF l.version = 2 THEN l.originFeatureState ELSE Unknown
     IN  s' = [s EXCEPT !.storage = l, !.page.phase = "ready",
                        !.page.pending = Pending(l, origin, Delta(l) = 0)]
UpgradeNotSaved ==
  /\ Usable /\ Delta(s.storage) = 0 /\ s.storage.version = 1
  /\ s' = [s EXCEPT !.page = Blocked("storage")]

(* discoverPendingResult: without a ledger, the server's own record of a   *)
(* result nobody confirmed.                                                *)
Undelivered == s.page.binding = Mine /\ s.round.status = "committed" /\ ~s.round.acked
Matches == s.page.session = [feature |-> s.round.result.after, revision |-> s.revision]
discoverPendingResult ==
  /\ s.page.phase = "discovering"
  /\ IF s.page.session.revision = 0 \/ ~Undelivered
     THEN s' = [s EXCEPT !.page.phase = "ready"]
     ELSE IF Matches
     THEN s' = [s EXCEPT !.page.phase = "ready",
                         !.page.pending = Pending(Ledger(Mine, s.round.id, s.round.bet, s.revision - 1,
                                                         s.round.origin), s.round.origin, FALSE)]
     ELSE s' = [s EXCEPT !.page = Blocked("discovery")]

-----------------------------------------------------------------------------
(* The page plays.                                                         *)
requestSpin(bet) ==
  /\ Ready /\ ~Waiting(Pend) /\ s.page.binding = Mine /\ s.asked < MaxRounds
  /\ Offers(s.page.config, bet)
  /\ LET f == s.page.session.feature
         origin == persistedLedgerFeatureState(f, bet)
         l == Ledger(Mine, s.asked + 1, bet, s.page.session.revision, origin)
     IN  /\ ~IsBase(f) => f.baseBetMinor = bet
         /\ s' = [s EXCEPT !.asked = @ + 1, !.storage = l, !.page.pending = Pending(l, origin, FALSE),
                           !.wire = @ \union {Submission(l)}]

Here == Ready /\ Waiting(Pend) /\ ~Pend.delivered
Answered == Here /\ s.round.id = Pend.ledger.roundId
SubmissionFails ==
  /\ Here /\ ~Pend.resubmitOnNotFound
  /\ Submission(Pend.ledger) \notin s.wire /\ s.round.id # Pend.ledger.roundId
  /\ s' = [s EXCEPT !.page.pending.resubmitOnNotFound = TRUE]
pollPending ==
  /\ Here /\ s.round.id # Pend.ledger.roundId /\ Submission(Pend.ledger) \notin s.wire
  /\ Pend.resubmitOnNotFound /\ Pend.pollAttempts = 0   \* bound: asked again once a page
  /\ s' = IF s.page.session.revision = Pend.ledger.startRevision
          THEN [s EXCEPT !.page.pending.resubmitOnNotFound = FALSE,
                         !.page.pending.pollAttempts = 1,
                         !.wire = @ \union {Submission(Pend.ledger)}]
          ELSE [s EXCEPT !.page = Blocked("absent")]
finishRejectedRound ==
  /\ Answered /\ s.round.status = "rejected"
  /\ s' = [s EXCEPT !.page.pending = NoPending, !.storage = Empty]

partialBindingMatches == s.page.binding.sessionId = Mine.sessionId
EconomicIdentity ==
  /\ partialBindingMatches
  /\ s.round.bet = Pend.ledger.betMinor
  /\ s.revision = Pend.ledger.startRevision + 1
acceptCommitted ==
  /\ Answered /\ s.round.status = "committed"
  /\ LET origin == reconstructOriginFeatureState(Pend, s.round.result)
     IN  s' = IF ~EconomicIdentity \/ origin = Unknown
              THEN [s EXCEPT !.page = Blocked("origin")]
              ELSE [s EXCEPT !.page.session = [feature |-> s.round.result.after,
                                               revision |-> s.revision],
                             !.page.pending.delivered = TRUE, !.page.pending.shown = origin]

(* The result was shown and is confirmed.                                  *)
Confirming == Ready /\ Pend.delivered
Waits == Confirming /\ s.launches = 1 /\ s.asked = 1   \* bound: of one round of one page
Acknowledge(answered) ==
  /\ Confirming
  /\ s' = IF answered
          THEN [s EXCEPT !.round.acked = TRUE, !.storage = Empty, !.page.pending = NoPending,
                         !.page.wait = NoWait]
          ELSE [s EXCEPT !.round.acked = TRUE]

\* The waits double, from the configured first one to the configured longest.
Doubled(n, k) == IF k = 0 THEN n ELSE IF k = 1 THEN 2 * n ELSE 4 * n
StaysInWindow(delay) == delay < s.page.config.window - s.page.wait.elapsed
exhaustResultAcknowledgement == [s EXCEPT !.page = Blocked("exhausted")]
\* A call ended without an answer or with one that may be repeated; the time it
\* took is left out.  Asked is the wait the server asked for, if it is sound.
scheduleAcknowledgementRetry(asked, sample) ==
  LET w == s.page.wait
      c == s.page.config
      exponential == Least(c.max, Doubled(c.base, w.attempts))
      delay == distributedRetryDelayMs(exponential, Most(0, asked), sample)
  IN  s' = IF w.attempts + 1 >= c.attempts \/ ~StaysInWindow(delay)
           THEN exhaustResultAcknowledgement
           ELSE [s EXCEPT !.page.wait = [attempts |-> w.attempts + 1, elapsed |-> w.elapsed + delay,
                                         delay |-> delay, asked |-> Most(exponential, asked)]]
CallFails(sample) == Waits /\ scheduleAcknowledgementRetry(0, sample)
RateLimited(h, sample) ==
  Waits /\ scheduleAcknowledgementRetry(safeRetryAfterMs(h), sample)
\* The edge's own answer has no envelope: without a sound wait it is refused, and
\* the page stays as it is until the controller asks again.
throwIfEdgeRateLimited(h, sample) ==
  /\ Waits
  /\ IF safeRetryAfterMs(h) = Unsafe
     THEN s.page.wait # NoWait /\ s' = [s EXCEPT !.page.wait.delay = 0, !.page.wait.asked = 0]
     ELSE scheduleAcknowledgementRetry(safeRetryAfterMs(h), sample)

-----------------------------------------------------------------------------
Next ==
  \/ \E m \in Submissions : Receive(m) \/ Lose(m)
  \/ Settle \/ Reject
  \/ \E bet \in {1, 2} : AskOld(bet) \/ requestSpin(bet)
  \/ \E c \in Configs, b \in {Mine, Other} : Launch(c, b)
  \/ NothingStored \/ ForeignLedger \/ RefuseLedger \/ restorePendingLedger \/ UpgradeNotSaved
  \/ discoverPendingResult \/ SubmissionFails \/ pollPending \/ finishRejectedRound
  \/ acceptCommitted
  \/ \E answered \in BOOLEAN : Acknowledge(answered)
  \/ \E sample \in Samples :
       \/ CallFails(sample)
       \/ \E h \in Headers : RateLimited(h, sample) \/ throwIfEdgeRateLimited(h, sample)

-----------------------------------------------------------------------------
(* Types of the state. *)
TypeOK ==
  /\ s.revision \in 0 .. MaxRounds /\ s.asked \in 0 .. MaxRounds /\ s.launches \in 0 .. MaxLaunches
  /\ s.feature.mode \in Modes
  /\ s.round.status \in {"absent", "received", "committed", "rejected"}
  /\ s.storage.version \in 0..2 /\ s.wire \subseteq Submissions
  /\ s.page.phase \in {"closed", "refused", "exchanged", "discovering", "ready", "blocked"}
  /\ s.page.wait.attempts \in 0 .. s.page.config.attempts

\* The feature state the controller is told a round began from is the one the
\* server settled it from: it is never guessed, from whichever release, ledger
\* or reload it comes.
OriginExact == Pend.delivered => Pend.shown = s.round.origin

\* What this release or the one before wrote can be read back.
StoredIsReadable == s.storage # Empty => decodeLedger(s.storage) # Refused

\* Another session never takes over the round of this one.
OwnRoundOnly == Waiting(Pend) => s.page.binding.sessionId = "mine"

\* A round whose origin is not known exactly is one the server has committed:
\* it is never submitted again.
AskedWithOrigin ==
  Waiting(Pend) /\ Pend.origin = Unknown => s.revision > Pend.ledger.startRevision

\* A page with an intact ledger of this release can always go on with its round,
\* unless its bet is no longer offered.
LedgerResumes ==
  /\ s.page.why = "ledger" /\ s.storage.version = 2 =>
       ~Offers(s.page.config, s.storage.betMinor)
  /\ s.page.why = "origin" => s.storage.version = 1

\* The page waits as long as it must, and its last call is within the window.
WaitsLongEnough ==
  LET w == s.page.wait
  IN  /\ w.delay >= w.asked /\ w.asked <= Most(MAX_ADMISSION_RETRY_AFTER_MS, s.page.config.max)
      /\ w # NoWait => w.elapsed < s.page.config.window

\* The record of a round is given up only when its result was confirmed or
\* refused, or for the round of another session.
EvidenceKept ==
  s.storage # Empty /\ s'.storage = Empty =>
    \/ s.page.binding # Mine
    \/ s.round.id = s.storage.roundId /\ (s'.round.acked \/ s.round.status = "rejected")
=============================================================================
