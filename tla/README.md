# A formal model of slots-game

This directory is a verification project for the slot game in `slots-game/`: the
Remote Gaming Server (RGS) under `server/`, and the browser client under `web/`.
TLA+ modules model their control, TLC configurations check them on small
instances, and TLAPS proofs about the server's settlement, its outbox and the
client's gateway hold for every instance. Server paths below are relative to
`slots-game/server/` unless they start with `web/`.

- [1. The system](#1-the-system)
- [2. The core: settlement of a paid round](#2-the-core-settlement-of-a-paid-round)
- [3. The outbox](#3-the-outbox)
- [4. The gateway of the client](#4-the-gateway-of-the-client)
- [5. The rest of the client](#5-the-rest-of-the-client)
- [6. Runs, bounds and what they show](#6-runs-bounds-and-what-they-show)
- [7. Proofs](#7-proofs)
- [8. What the code does against its word](#8-what-the-code-does-against-its-word)
- [9. What is not modelled, and the plan](#9-what-is-not-modelled-and-the-plan)

## 1. The system

A player opens a session through an operator (a casino platform) and spins. For
every spin the RGS draws and evaluates a result, writes it to PostgreSQL, and
asks the operator's wallet to move the money: one APPLY that debits the stake
and credits the win. The wallet is remote, so the answer may be lost, late or
ambiguous. Several replicas of the RGS run, any of them may die at any moment,
and a recovery worker on each finishes what others left behind.

The browser spends a launch code for a token, saves a ledger of a round before
it asks for it, polls until the result is known, plays it, and acknowledges it;
the server offers no next round before that. The page may be hidden, offline,
reloaded or relaunched at any of these points, and what it plays is a long chain
of timers, frames and promises that other events interrupt.

```
 web client --HTTP--> RGS HTTP API --> round coordinator --> round repository (PostgreSQL)
     ^                    |                 |    ^                ^      |
     |                 admission            |    |             recovery  | outbox rows
  launch code          (local, Valkey)      v    |              worker   v
     |                               wallet isolation        risk     outbox dispatcher
  operator <---- launch service      (circuit, bulkhead)    review       |
     ^                                      |                            v
     +--------- operator wallet <-----------+                     operator's event sink

 in the page:   gateway --callbacks--> app controller --> reels, wins, features, cabinet,
             (RgsGateway.ts)         (AppController.ts)    character, controls, sound
                                            |
                                     streaming packages (leases on artwork and sound)
```

### The server

| Component | State it keeps | Operations | Hard behaviour | What makes it correct | Modules |
|---|---|---|---|---|---|
| Round store, `internal/postgres/repository.go` | rows of sessions, rounds, wallet ledger, outbox; lease deadline, phase and attempt counters of a round | PrepareRound, ClaimWallet, ClaimRecoverableRounds, CommitClaim, RejectClaim, MarkManualReview, ScheduleWalletRecovery, AcknowledgeResultDelivery, the quarantine of corrupt rows, session transport | transactions of many replicas interleave; a claim outlives its lease; a row is found corrupt under a running claim | one outcome per round; books agree with the wallet; stale claims write nothing; session numbers have no gap | `RoundSettlement`, `RoundLifecycle` |
| Coordinator, `internal/rgs/coordinator.go` | none (the claim in its hands) | Spin, ReconcileClaim, resolvePreparedRound | calls the wallet between two transactions, so all it knows may be stale | an unknown answer is never treated as final | `RoundSettlement` |
| Recovery worker, `internal/recovery/worker.go` | pass results, readiness | RunOnce, processClaim, risk expiry | races with the spin path and with other workers | every due round is claimed again; one bad round harms nobody else | `RoundSettlement` |
| Risk review, `internal/postgres/risk.go` | review rows | DecideRisk, expireRiskLocked, ExpireRiskReviews | decision, expiry and claim race | no wallet call without an approval | `RoundSettlement` |
| Wallet adapter, `internal/wallet/http.go` | none | SubmitRound, Resolve, do | timeouts, 5xx, unauthenticated answers, failure before the send | only an authenticated final answer settles | `RoundSettlement` |
| Wallet isolation, `internal/wallet/{circuit,isolation}.go` | circuit state and generation, slots | acquire, complete, cancel | late completions of old calls, half-open probes | permits never leak; a stale result changes nothing | - |
| Operator wallet, `cmd/local-operator/{store,wallet_handler}.go` | operations, balances | Apply, Lookup, Rollback | duplicate APPLY, reversal after the fact | one decision per operation | `RoundSettlement` |
| Outbox, `internal/postgres/outbox_store.go`, `internal/outbox/` | outbox rows with a lease and a token | Claim, MarkPublished, MarkFailed, dispatcher passes | a publisher that outlives its lease or its deadline | at least once, in order per aggregate | `OutboxDelivery`, `EventStream` |
| Shared admission, `internal/sharedadmission/` | buckets in Valkey, fail-closed window | Admit, Check | outage, one probe at a time, cancelled callers | never admit past the quota while the store is up | - |
| Local limits, `internal/platform/limiter.go`, `cmd/rgs-server/*capacity.go` | buckets, partitions | Allow, acquire, release | concurrent acquire and release | capacity never exceeded nor lost | - |
| Launch service, `internal/launch/`, `internal/postgres/security_store.go` | launch codes, nonces | Issue, Consume, relaunch | two exchanges of one code on two replicas | a code works once | - |
| HTTP API, `internal/rgsapi/` | none | handlers | none of its own | maps errors faithfully | `WireContract` (the answers) |
| Game engine, `internal/game/` | none (pure) | evaluate a spin, feature state | numeric limits, win cap | wins add up; cap respected; features end | `WireContract`, `RecoveryLedger` (events, features, cap) |
| Domain types, `internal/rgs/types.go`, `fingerprint.go`, ... | none | validation, hashing, cloning | none | - | `RoundSettlement` (the rows) |
| In-memory store, `internal/rgs/memory_repository.go` | the same rows under a mutex | the repository interface | - | the same lifecycle as PostgreSQL | - |
| Everything else | - | configuration, key loading, telemetry, migrations, math report, operator tools, deployment | - | - | - |

They interact through the PostgreSQL rows above all: the coordinator of a
request, the recovery workers, the reviewer's endpoint, the readers that
quarantine a corrupt row and the outbox dispatchers never talk to each other.
Every write locks the session row first (`lockSession`, `FOR UPDATE`), and the
database clock is the only clock leases are compared with. The wallet is reached
by one signed HTTP call per claim, outside any transaction.

### The client

| Component (`web/src/`) | State it keeps | Hard behaviour | What makes it correct | Modules |
|---|---|---|---|---|
| Gateway, `protocol/RgsGateway.ts` | pending round, ledger in sessionStorage, timers, tokens | timers, calls, hidden pages, reloads and token refreshes race | nothing staked is forgotten; no acknowledgement of an unseen result; an honest server is never taken for a broken one | `ClientRound`, `RoundDelivery`, `RecoveryLedger` |
| Application flow, `app/AppController.ts`, `app/state/` | three state machines, buffered result, queue, leases, timers | callbacks interrupt one long presentation task between its awaits | one round on screen, the balance after its reels, the controls never stale | `AppFlow` |
| Result contract, `protocol/{decoder,rgsDecoder,spinResultOriginGuard}.ts` | the accepted feature state | an answer refused by mistake costs the player the round | every result the engine can produce is taken, no other | `FeatureCycle`, `VaultLedger`, `ResultProjection`, `WireContract` |
| Reels, `reels/` | belt position, brakes, layers | timers of three reels, quick stop, cancellation | the reels rest on the result, left to right, once | `ReelStop`, `ReelBelt` |
| Start-up, `main.ts`, `startup/`, `renderer/PixiRenderer.ts` | stages of the start | the page leaves or fails at any await | what was built is given back; the intro always ends | `Startup`, `DomReadiness`, `LaunchIntro`, `RendererLaunch` |
| Streaming packages, `startup/Streaming*.ts` | leases, references, loads, semaphore | shared dependencies, aborts, retries, a ceiling, destruction | a lease keeps its payload; references and slots never leak | `AssetStreaming` |
| Win presentation, `renderer/{WinCelebration,BigWinView,BigWinCoinShower}.ts` | records, milestones, pools | tails that outlive what shows them, slow frames | every record once and in order; what is shown is what was won | `WinRecords`, `BigWin`, `CoinShower` |
| Feature presentation, `renderer/{FeatureEffects,FreeSpinHudView}.ts` | scenes, gates, layers | a failing round cancels at any moment | nothing stays lifted, hidden or open; a gate opens once | `FeaturePresentation`, `RageFeature`, `WheelHyperspin`, `FreeSpinHud` |
| Cabinet and character, `renderer/{JackpotTowerView,LogoGameView,PixiRenderer}.ts`, `renderer/intro/LaunchScene.ts` | modes, plates, clips, aura | rounds and features hand one another over | shows what was won, and stands in the mode the game is in | `Cabinet`, `CharacterStage` |
| Controls and messages, `ui/DomOverlay.ts` | autoplay, panels, message line, win meter | calls made inside calls | a run of paid spins spends what was chosen and stops where it should | `SpinControls`, `RoundMessages` |
| Audio, `audio/` | voices, loops, stems, the context's life | decoding, gestures and page visibility race | heard when in front, silent behind; loops end | `SpriteAudio`, `MusicProgram`, `AudioLifecycle`, `MusicPot` |
| Embedding, rendering primitives, fixtures | - | - | - | - |

JavaScript runs one continuation at a time, so in the client the unit of
interleaving is the stretch of code between two awaits, a timer callback or a
frame.

## 2. The core: settlement of a paid round

### Modules

| Module | Role |
|---|---|
| `RoundLifecycle` | the abstract specification: what the service promises about the rounds of a session, with no leases, retries, clocks or messages |
| `RoundSettlement` | the machinery: store, coordinator, worker, risk review, wallet adapter and wallet, with every property and the refinement mapping `Lifecycle` |
| `RoundProofs` | the theorems, in four parts: safety (types, what each action changes, the fence), books (agreement with the wallet, the risk gate), cursor (six kinds of step, what they preserve of pointer, fence, cursor and outcomes, the refinement of `RoundLifecycle`), retries (what an executor knows when it repeats an APPLY, the attempt budget, the audit trail) |

### State

| Variable | Code |
|---|---|
| `now` | `clock_timestamp()` of PostgreSQL |
| `session` | the `rgs_sessions` row: status, pending_round_id, revision, sequence, integrity_quarantined_at |
| `rounds` | the `rgs_rounds` rows: status, wallet_phase, start revision, sequence, attempts, wallet_lease_until, next_attempt_at, acknowledgement and quarantine marks |
| `ledger` | the status of the round's `rgs_wallet_transactions` row |
| `reviews` | the `rgs_risk_reviews` rows |
| `outbox` | the events written by `insertOutbox`, per aggregate |
| `wallet` | the operation row of the operator's wallet |
| `network` | rounds for which an APPLY request has left some process; it may reach the wallet at any later moment, any number of times |
| `exec` | the `WalletRecoveryClaim` each goroutine holds, and how far it is with it |
| `applySent`, `lastSeen` | history variables; no action reads them |

### Actions

A repository call is one transaction under the session row lock, so it is one
action. Between a claim, the wallet call and the settling transaction everything
else may happen.

| Action | Code |
|---|---|
| `PrepareRound` | `Repository.PrepareRound`: delivery fence, session binding, insert of round, ledger, review, event and session pointer |
| `ClaimWallet`, `ClaimRecoverableRounds` | the two entries to `claimWalletLocked`, which differ in the lease they ask for |
| `RefuseClaim` | `ReconcileClaim` up to the call: budget exhausted or settlement profile changed |
| `FailBeforeSend`, `SubmitRound`, `ReceiveSubmitAnswer`, `Resolve` | one exchange of `HTTPWallet`, with what each response means |
| `Apply`, `Rollback` | the wallet's own decision and its reversal by staff (`cmd/local-operator/store.go`) |
| `CommitClaim`, `RejectClaim`, `MarkClaimManualReview`, `ScheduleWalletRecovery`, `resolveStaleClaim` | the five ways `applyWalletResolution` ends a claim |
| `Abandon` | the process dies, the context is cancelled or the transaction fails |
| `DecideRisk`, `expireRiskLocked` | the reviewer's first decision and the expiry of the review |
| `quarantineCorruptRound`, `quarantineCorruptSession` | a reader finds a row whose stored integrity data does not match |
| `AcknowledgeResultDelivery` | the client acknowledges a committed result |
| `Tick` | the database clock moves |

### Abstractions

- One session. Settlement reads no row of another session; the batch of a
  recovery pass takes at most one round of each.
- Amounts, currencies, fingerprints, signatures and results are left out: a
  round is the identity of an immutable command. Checks that compare these data
  and fail are the corruption that `quarantineCorruptRound` stands for.
- Instants are natural numbers, 0 is SQL NULL. The clock never goes back.
- An executor handles any number of claims, one at a time. Executors are
  goroutines of any replica: the request that prepared the round, its detached
  continuation, or a recovery worker.
- A transaction that fails or is rolled back is the same as one that never ran
  (`Abandon` follows if the caller gives up).
- `PENDING` and `UNKNOWN` answers are one answer, since the coordinator treats
  them alike; every outcome that ends in `markClaimForManualReview` is `MANUAL`.
- A session that is closed, has expired, or has a different transport generation
  only refuses requests; `PrepareRound` is enabled in more states than the code's.

### Properties

Safety invariants: `FundsAgreement`, `ClaimFence`, `RiskGate`, `PendingPointer`,
`SessionCursor`, `DeliveryFence`, `NoBlindReapply`, `ApplyBudget`, `AuditTrail`.
Action properties: `FencedWrites`, `TerminalStable`. Refinement:
`ImplementsLifecycle`. Each is stated in words above its definition, with the
code it is about; the hazards they are aimed at are listed with their source
lines in `PROJECT.json`.

Two of them deserve a remark.

- **The fencing token is a timestamp.** `ownsWalletClaim` accepts a claim iff its
  lease deadline equals the stored one; it does not ask whether the deadline has
  passed. `ClaimFence` says why this is sound: no two claims of a round that are
  still in somebody's hands carry the same deadline, since a new claim is made
  only when the old deadline is in the past and leases are positive.
- **`NoBlindReapply` needs timely deadlines.** An executor may stall between its
  claim and its send. It then sends its APPLY after its lease has run out and
  after the next claimant has been told NOT_FOUND. Money is still safe, since the
  wallet decides an operation once (`FundsAgreement` is checked, and proved,
  without any deadline assumption), but the rule "look up before you apply again"
  holds only if the request context ends before the lease. The worker's
  configuration demands `LeaseDuration >= AttemptTimeout` (`worker.go:153`), the
  `Takeover` run assumes it (`TimelyDeadlines`), and the `Settle` run does not.

No run of the core uses fairness: all its properties are safety properties, and
its abstract specification has no liveness part.

## 3. The outbox

Every transaction of the round store that changes a round or a session also
inserts an event into `rgs_outbox`. On each replica a dispatcher leases a batch
of due events, publishes them to the operator's audit sink, several at a time,
and completes each lease with the outcome. Nothing else joins the settlement to
the delivery than the rows, so the two are separate modules: `outbox` of
`RoundSettlement` says which events are written, and `OutboxDelivery` starts
from transactions that write some event of an aggregate.

### Modules

| Module | Role |
|---|---|
| `EventStream` | the abstract specification: per aggregate a log of committed events, and a sink that learns them one after the other, none skipped |
| `OutboxDelivery` | the rows, the dispatchers' passes, the publisher calls and the sink, with every property and the refinement mapping `Stream` |
| `OutboxProofs` | types, publish slots, lease fence, no loss, order of delivery and the refinement of `EventStream` for every instance |

### State and actions

| Variable | Code |
|---|---|
| `nextId`, `status`, `aggregate`, `attempts`, `lease` | identity column and columns of `rgs_outbox` (`published_at` is `status`) |
| `expired`, `due` | the comparisons of `lease_until` and `available_at` with `clock_timestamp()`; `due` is in the order of `available_at`, in which the claim takes its rows |
| `token`, `work` | the pass that holds the dispatcher's run slot: the token drawn for its batch, and the stage of each delivery |
| `slots`, `running`, `answered` | the channel `publishSlots`, and the publisher calls that have not returned, which may be calls of an earlier pass |
| `late` | requests that outlive their call, and may still arrive |
| `sink` | the events the sink has made durable |

| Action | Code |
|---|---|
| `Insert`, `CommitInsert`, `RollbackInsert` | `insertOutbox` and the end of its transaction: the row takes its identifier before others can see it |
| `Claim`, `ClaimFails` | `OutboxStore.Claim` as `RunOnce` calls it; in the second the statement commits and its answer is lost |
| `StartPublish`, `SlotTimeout`, `PublishTimeout`, `PublishReturns` | `deliver` and `publishWithHardDeadline` |
| `Receive`, `ReceiveLate` | the sink |
| `MarkPublished`, `MarkFailed`, `LeaseLost`, `CompletionFails` | the completion of a delivery: recorded, refused because the token is gone, or lost |
| `Crash` | the process dies, or is shut down and records nothing any more |
| `LeaseExpires`, `BecomesDue` | time passes |

### Abstractions

- Leases and retry delays are untimed: a lease may run out and a delay may end
  at any moment. So the order of delivery does not depend on the configuration
  rule that a lease covers the publish window, which this module leaves out; the
  rule only limits how often an event is sent twice.
- A lease token is random in the code. The model takes it from a finite set and
  asks that nobody uses it any more (`Fresh`), which is what randomness gives.
- The transactions that write events of one aggregate hold the row lock of the
  session, so they do not overlap (`Unlocked`). Transactions of different
  aggregates do, and may become visible in another order than their identifiers.
- `available_at` of a new row is the start of its transaction, so a row may
  enter `due` before rows that were committed earlier.
- The sink keeps an event identifier once, as the operator contract demands of
  it. Only the first arrival of an event changes `sink`: order is promised for
  first arrivals, while a repeated event may arrive after its successors.
- Signatures, payloads, error codes and metrics are left out.

### Properties

`InOrder` is the purpose of the module: it relates the rows' identifiers, the
claim's `NOT EXISTS` predecessor, the fence of the completions and the writers'
lock, and breaks when one of them is missing. `NothingLost` is the other half.
`LeaseFence` and `SlotsCountCalls` are what a late completion and a publisher
that ignores its deadline could ruin. `ImplementsStream` is the refinement of
`EventStream`. `NeverForgotten` is liveness: a committed event is published,
unless it or an event before it has exhausted `attempts`, the counter at whose
last value the claim no longer offers the row. Such a row blocks the later
events of its aggregate: order is kept at the price of delivery.

Fairness (`FairSpec`, needed for `NeverForgotten` only):

- weak fairness of `LeaseExpires` and `BecomesDue`: the database clock moves;
- weak fairness of `Progress(d)`, some step of dispatcher `d`: `Run` starts pass
  after pass, and a pass ends whatever the publisher does, since each delivery
  has a hard deadline and each completion a timeout of its own.

Nothing is assumed of the publisher, the sink or the writers: they may never
answer, refuse every event, or keep a transaction open for ever.

## 4. The gateway of the client

`RoundDelivery` is the contract of a round as the player sees it: idle,
requested, then committed, void or held; a committed round is shown, then
confirmed; a round is requested only when all others are over. `ClientRound` is
the gateway that keeps it, with the server it talks to; `RecoveryLedger` (in the
run `round_content`) is what the gateway writes to `sessionStorage` and makes of
it on the next page.

| Variable of `ClientRound` | Code |
|---|---|
| `page`, `timers`, `pending`, `lastApplied`, `session` | the fields of `RgsGateway`: connection, availability, why it stopped; armed timers; `pending`, `lastAppliedSequence`/`lastAppliedRoundId`; the revision of the session projection |
| `storage` | the recovery ledger in `sessionStorage`, which a reload keeps and a new tab does not have |
| `calls` | the HTTP call of each kind: not yet sent because the token is being renewed, sent, answered and not yet read |
| `server`, `wire` | external: the RGS as one session with idempotent commands; submissions the page has given up, which may still arrive |
| `history`, `budget` | history variables, and what is left of the scenario |

| Action | Code |
|---|---|
| `connect`, `FinishExchange`, `FinishDiscover` | the launch: exchange of the code, then the ledger or the server's pending result |
| `requestSpin`, `FinishSubmit`, `PollTimer`, `FinishPoll` | a round until its result: ledger first, resubmission when the server does not know it, poll budget |
| `acknowledgeSpinResult`, `FinishAcknowledgement`, `AcknowledgementTimer`, `DeadlineTimer`, `WindowCloses` | the confirmation, its retries and its fixed window |
| `RefreshTimer`, `FinishRefresh`, `Renews`, `StatusTimer`, `FinishProbe` | token renewal, the call that waits for it, the session probe |
| `setRuntimeAvailability` | the page is hidden, shown, goes offline or online: calls are aborted or resumed |
| `SessionTimeout`, `Close`, `Relaunch` | a page ends, another one begins |
| `SettlePending`, `ArriveLate`, `Serve`, `Fault` | the RGS settles a round, an abandoned submission arrives, a call is answered or fails |

Revision and result sequence advance together, so one number stands for both.
There is no clock: an armed timer may fire at any moment. Tokens, money, trace
headers and bindings are left out.

`MCClientRound` names the scenarios TLC explores, `ClientRoundProofs` proves the
safety of the module for all of them.

The properties: `RecordsRight` (a round that is staked, or may still be, is in
the ledger of its tab), `GenuineResults` (no order of answers makes an honest
server look inconsistent, and a page shows a round once), `NeverStuck` (no lost
wake-up), `ImplementsDelivery`, and `RoundEnds`. A tab without its ledger, after
a relaunch in a new tab, is excepted from the first and the second: there a
round that its predecessor left open may commit between two of its calls, and
the page rightly sees a session that moved under it and asks for another launch
(`RgsGateway.ts:1745–1750, 1891–1905`).

Fairness (`Fairness`, for `RoundEnds`): the browser runs its timers and
continuations, every call is answered or times out (`requestTimeoutMs`), the
acknowledgement window closes, and the controller confirms what it has shown.
Nothing is assumed of the player, the operator, or how often calls fail.

## 5. The rest of the client

`AppFlow` is `AppController`: a handler is an operator from the controller's
fields to its fields, so that a callback made inside another one composes as it
does in the code, and an action is one turn of the event loop. The gateway is
seen through its callbacks only. `ctl` is the controller with its three machines
(`app/state/`, `startup/LaunchStateMachine.ts`, `reels/ReelRoundStateMachine.ts`),
`launchAt` the await of `runLaunch`, `gw` the gateway and the server behind it,
`script` the outcomes the server will play; the module ends with the scripts TLC
explores. `AppFlowProofs` proves its safety properties for every script.

`AssetStreaming` is the runtime and the manager of the streaming packages. The
continuation of a settled promise is an action and runs before the next outside
event. `MCAssetStreaming` has the manifests TLC explores, and groups the invariants.
One race is left out: an abort between the settling of a load and the
store of its payload, whose outcome depends on the lengths of two promise chains.

The other modules share no state with each other. Their state is one record `s`
(`ReelStop` and `ReelBelt` have variables of their own), their handlers are
operators on it, and two harnesses, `MCPresentation` and `MCRoundContent`, move
one of them per behaviour (`part`), so that a run checks them all without a
product of state spaces. Seven parts of `MCRoundContent` (controls, messages,
feature cycle, music, audibility, pot, character) are gathered in `RoundStage`,
which has no fold and no recursive operator in reach: `StageProofs` (six
parts), `CharacterProofs` and `RoundContentProofs` (the parts together) prove what
the run checks of them.

| Module | Models | Its properties, in the harness |
|---|---|---|
| `ReelStop` | stop sequencer and reel views: timers, brakes, quick stop, cancellation | one layer, loops of their own, left to right, suspense closed, resolved means settled; silent after the end |
| `ReelBelt` | the belt of a reel with 3 to 8 rows | lands exactly on the result, moves continuously, inserts off screen |
| `Startup` | handoff, lazy modules, stages of the view, preload gate | what was built is given back, the outcome is shown, progress moves forward |
| `DomReadiness` | images, bounded decode retries, fonts | ready means ready; once ended it stays so |
| `LaunchIntro` | timeline, audio clock, wall deadline | cues in order, the clock without jumps |
| `RendererLaunch` | artwork workers, exposure of the scene for the warm-up | every node is put back; an aborted launch loads nothing more |
| `FreeSpinHud` | counter and limit panel over artwork that comes and goes | one operation owns the panel; prompts are closed |
| `WinRecords` | winning records, their tail, the idle repeat | in order, one scene, quiet after the end |
| `FeaturePresentation` | scenes, gates, wheel, vaults, trails, cancellation | a gate closes once, turns accounted, the stage has an owner |
| `RageFeature` | cascade and collection | beats in order, reels given back, quiet once cancelled |
| `WheelHyperspin` | the flame over the spin control | moves while shown, is hidden gently, reaches what was asked for |
| `SpinControls` | spin button, autoplay, panels, session timeout | paid as chosen, stopped stays stopped, a boundary is honoured, one panel |
| `RoundMessages` | message line and win meter | answered once, meter and line true |
| `FeatureCycle` | `spinResultOriginGuard.ts` on the feature state | every sound result accepted, spins and meter conserved |
| `VaultLedger` | vault events of a result | sound logs accepted, presented as settled, paid in full and last |
| `ResultProjection` | the money of a result under the cap | sound results accepted, amounts add up |
| `WireContract` | the server's answers and the client's reading of them | nothing refused, nothing lost, only the own answer |
| `RecoveryLedger` | ledgers of both versions, origin of a round, retry delays | origin exact, stored is readable, own round only, evidence kept |
| `SpriteAudio` | voices, loops, packs, ducking | nothing strands, stops hold, the duck follows its counter |
| `MusicProgram`, `MusicPot` | base music, stems, feature music; the pot | the music fits the moment, loops end, level follows the pot |
| `AudioLifecycle` | resume and suspend of the context | heard in front, silent behind, one change at a time |
| `BigWin`, `CoinShower` | plan and milestones; pools and fuse | told in order, levels earned, amount rises; within budget |
| `Cabinet` | tower, logo, wheel plate as `PixiRenderer` drives them | only what was won, once, nothing carried over, stands in the mode |
| `CharacterStage` | the character's clips, aura, overlay and exit | one character, shown whole, waits, pounds for the wheel |

A few of these are checked outside a situation in which the code fails (section
8). A variable that only a property reads then records that the situation
occurred (`lost`, `failed`, `mixed`, `missed`, `leaked`, `cut`); the property
says what holds otherwise.

Fairness of `AppFlow` (`FairSpec`): promises settle, timers fire, the network
answers, a hidden page comes back; strong fairness for the delivery of a result,
which a page hidden in between disables. Of `AssetStreaming`: weak fairness of
its progress in the scenario marked `live` (the others are safety only, for the
size of the graph). Of the parts in `MCPresentation`: weak fairness of their
progress, that is of frames, timers and settled promises; no click, failure or
cancellation is assumed to come.

## 6. Runs, bounds and what they show

| Run | Instance | Shows |
|---|---|---|
| `settle` | 2 rounds, 2 executors, budget 1, 2 APPLY claims per round, clock to 4, spin lease 1, worker lease 2, late sends allowed | `TypeOK`, `SessionCursor`, `DeliveryFence`, `AuditTrail`, `ImplementsLifecycle` while executors crash, stall past their lease and race, and requests are lost, late or repeated |
| `takeover` | 1 round, 2 executors, budget 2, 3 APPLY claims, clock to 6, timely deadlines | `ClaimFence`, `NoBlindReapply`, `ApplyBudget`, `FencedWrites` over repeated takeovers of one round |
| `risk_review` | 2 high-value rounds, 1 executor, review lifetime 2, policy REJECT, clock to 5 | `RiskGate` while reviewer, expiry and executor race |
| `quarantine` | 2 rounds (one high-value, one reversible), both rows and the session row may be found corrupt, policy MANUAL_REVIEW, profile drift, 1 APPLY claim, clock to 3 | `FundsAgreement`, `PendingPointer`, `TerminalStable` |
| `outbox_delivery` | 1 aggregate with 2 events, 2 replicas, 3 tokens, batches of 2, 1 publish slot, 2 attempts, `FairSpec` | `TypeOK`, `InOrder`, `NothingLost`, `SlotsCountCalls`, `LeaseFence`, `ImplementsStream`, `NeverForgotten` |
| `client_rounds` | 5 scenarios of one or two rounds: a reload with two faults; a page hidden or offline twice with two faults; renewals and probes; a new tab; a fault beside a renewal. 2 polls, 2 acknowledgement attempts | `RecordsRight`, `NeverStuck`, `GenuineResults`, `ImplementsDelivery`, `RoundEnds` |
| `app_flow` | 5 scripts of two or three rounds: small and big win, wheel, features of one and two spins, a feature of one spin that is extended; 2 faults; the first three scripts on a page hidden or shown twice, with the preview | `RoundsRight`, `ResultsHonoured`, `PlayerCanGoOn`, `EndIsFinal`, `RoundsPlayedOut` |
| `presentation` | the eleven parts of `MCPresentation`, each with two or three of everything it counts | `PartsRight`, `StepsRight`, `PartsEnd` |
| `asset_leases` | 4 packages with shared dependencies, 3 leases, 1 slot, 2 attempts, 5 scenarios: shared dependency, destruction, two resources and two dependencies, a tight ceiling, the live one | `LeasesRight`, `NothingLeaks`, `LeasesEnd` |
| `round_content` | the fifteen parts of `MCRoundContent`, seven of them in `RoundStage` | `ContentRight`, `RoundRight`, `StageRight`, `StepsRight` |
| `app_hidden_free_spin` | a feature of one spin, a page hidden once | violates `FreeSpinArmed` (section 8) |
| `reduced_launch_hidden` | the launch with reduced motion | violates `LaunchShowsTheCharacter` (section 8) |

Two executors are what a takeover needs: one that holds a stale claim and one
that holds the newer. Two rounds are what the cursor, the pointer and the
delivery fence relate. A spin lease shorter than the worker's exercises a fresh
deadline that lies before an older one would. The clock bound leaves room for a
claim, its expiry, a second claim with its consistency window and a third step;
`MaxClaims` bounds the APPLY claims a round can get through refunds. In the
outbox two events give a predecessor and a successor, two replicas are a holder
of a stale lease and a holder of the newer one, a second attempt is a retry or a
takeover, and one publish slot is the limit at which a call of an earlier pass
keeps a later pass from publishing. There is a token more than replicas, so that
the finite set never stops a claim. In the client one reload, two faults and two
changes of availability are enough to put every abort before, while and after
every call; two polls and two attempts are a retry and its last one; two rounds
give a result something older to be confused with. All behaviours within these
bounds are explored; the invariants that are also proved hold without them.

`CHECK_DEADLOCK FALSE` is set because the instances do stop: clocks, rounds,
faults and calls of the owner are bounded.

Each property has a mutant of the code's logic, kept as an operator next to the
definition it would replace (`Due_Unchecked`, `Release_Forgotten`,
`rollbackPendingReferences_Kept`, ...), under which the property fails.

## 7. Proofs

The theorems of the core hold for arbitrary sets of rounds and executors and any
values of the constants that satisfy `SettlementAssumption`; `MaxTime` and
`MaxClaims` only appear in guards, so they can be read as arbitrarily large.
Those of the outbox hold for arbitrary sets of aggregates, replicas and tokens
and any constants that satisfy `OutboxAssumption`; `MaxEvents` is a bound of the
same kind. Those of the gateway hold for any number of rounds, polls and
attempts and any scenarios (`ClientAssumption`), so for any number of faults,
reloads and changes of availability. Those of the controller hold for any
scripts of rounds of which the last leaves no free spin to play
(`AppAssumption`), any number of faults and of times the page is hidden. Those of
the seven parts of the page hold for any counts, boundaries, rounds, wins, caps,
levels, wagers, clocks, lengths of clips and numbers of calls that satisfy the assumptions of
`RoundStage`; they are about `MCRoundContent!Spec`, the specification TLC runs.

| Theorem | States | Argument |
|---|---|---|
| `TypeCorrect` | `Spec => []TypeOK` | inductive together with `WorkOK`: a claim in somebody's hands names a prepared round and carries an action and a token. Without it `ScheduleWalletRecovery` could refund below zero |
| `Fencing` | `Spec => []ClaimFence` | `TypeOK /\ WorkOK /\ TokenOrder`. `TokenOrder` adds that no token is newer than the stored one; `Due` and positive leases then make every new token larger than all old ones |
| `NoStaleWrite` | `Spec => FencedWrites` | from `TokenOrder` by `OwnerIsNewest`: the owner of the stored deadline has the largest token |
| `BooksAgreeWithWallet` | `Spec => []FundsAgreement` | `TypeOK /\ WorkOK /\ AnswersBacked /\ BooksOK`. `AnswersBacked`: an answer that settles a round is still backed by the wallet when it is used, whatever happened since. `BooksOK` adds that a ledger row is FAILED only if the wallet refused, or nobody works on the round and no request is under way |
| `ApprovedFirst` | `Spec => []RiskGate` | `GateOK`: a high-value round is *in play* (held, open in the store, or in the network) only once its review is approved. The claim is the only way into play and asks for the approval; an approval is never taken back |
| `PointerAgrees` | `Spec => []PendingPointer` | inductive with `TypeOK` and `WorkOK`. Every action that writes a round row is one of six kinds of step (`StepKinds`), and each kind says what happens to pointer, row and ledger row together |
| `FenceHolds` | `Spec => []DeliveryFence` | on top of `PendingPointer`: only a commit makes a result undelivered, and it commits the pending round, so no older one can be waiting |
| `CursorCounts` | `Spec => []SessionCursor` | `CursorOK` adds that the set of committed rounds is finite, which `Cardinality` needs: the set of rounds itself may be infinite. A commit adds exactly the round numbered `sequence + 1` |
| `SettledForGood` | `Spec => TerminalStable` | from `StepKinds`: the only kinds of step that write a settled row are acknowledgement and quarantine, and neither reopens it |
| `Implements` | `Spec => ImplementsLifecycle` | `Linked` (`TypeOK`, `WorkOK`, `AnswersBacked`, `BooksOK`, `PendingPointer`, `AcknowledgedOK`) makes each step map to the abstract step its kind names, or to a stutter |
| `RepeatsKnowingly` | `TimelyDeadlines => (Spec => []NoBlindReapply)` | `OwnersKnow`: an executor that still owns the row and may send an APPLY, or make the row offer one again, knows that the last request is not unanswered. With timely deadlines only an owner sends; without them the property is false (section 2), so the hypothesis is part of the statement |
| `NeverOverspent` | `Spec => []ApplyBudget` | `BudgetOK`: requests that left, and attempts in somebody's hands that may still leave, are together no more than the attempts the row counts, the budget, and the claim events in the outbox. A refund takes back only an attempt that was not sent |
| `TrailTells` | `Spec => []AuditTrail` | `TrailOK`: replaying a round's events gives its status, and it has a commit event iff it is committed; each kind of write appends the event that its new status needs. With `BudgetOK`, every APPLY that left has a stored claim event |
| `OutboxTypes` | `Spec => []TypeOK` of `OutboxDelivery` | inductive with `Busy` (a dispatcher with a delivery has a token) and `SlotsOK`, without which returning a slot could go below zero |
| `SlotsNeverLeak` | `Spec => []SlotsCountCalls` | `OneCall`: a delivery that has not started has no call in its pass, so a start adds exactly one call to the finite set that `slots` counts |
| `LeasesFenced` | `Spec => LeaseFence` | from the types alone: a claim takes only free or expired rows, and `Owns` compares the token |
| `NothingIsLost` | `Spec => []NothingLost` | `Backed`: an answered call and a delivery that is `ok` are about events the sink has |
| `DeliveredInOrder` | `Spec => []InOrder` | `HeadFirst`: an event that anybody has *touched* (queued, called, under way, or in the sink) has only published predecessors; they stay published, and `NothingLost` puts them into the sink. `RowsOK` adds that rows from `nextId` on are unused and that no row is being written while a later row of its aggregate exists, so a touched event never gets a new predecessor |
| `DeliversStream` | `Spec => ImplementsStream` | `InOrder`, `NothingLost` and lemmas on the sorted sequence of an aggregate's events: adding a largest element appends it, and a set that is closed under predecessors sorts to a prefix. So a commit appends to the log of `EventStream` and a first arrival to what its sink learned |
| `LedgerAgrees` | `Spec => []TrustOK` of `ClientRound` | the inductive invariant of the gateway, see below |
| `KeepsRecords` | `Spec => []RecordsRight` | `KeptLedger`: a round on its way is the ledger's round, in every tab that has its ledger |
| `HonoursResults` | `Spec => []GenuineResults` | every check by which the gateway could call an answer inconsistent follows from `TrustOK`; `PendingOK` says a delivered round was shown and an undelivered one was not |
| `AlwaysWorks` | `Spec => []NeverStuck` | inductive with `ClientOK`: an undelivered round of a visible, connected page has a call or a poll timer, and a begun acknowledgement has its deadline; suspending drops both obligations and resuming meets them again |
| `KeepsContract` | `Spec => ImplementsDelivery` | each kind of step says how the status of every round may change (`StatusRight`); the kinds map to the steps of `RoundDelivery` |
| `KeepsInStep` | `Spec => []FlowOK` of `AppFlow` | the inductive invariant of the controller, see below |
| `PresentsOneRound` | `Spec => []RoundsRight` | a queue and a task never overlap, and each stage of the task fixes the state of the reels (`ReelAt`), so no machine meets an event it refuses |
| `HonoursRounds` | `Spec => []ResultsHonoured` | a round being presented is the gateway's last delivered one, and nothing is asked of the server before the barrier has put its balance on screen |
| `PlayerGoesOnAlways` | `Spec => []PlayerCanGoOn` | `ControlsOK` ties the button and the timer to `CanSpin`; `HeldOK` the leases to the stage and the feature |
| `EndsForGood` | `Spec => EndIsFinal` | every step keeps `Final`, proved with `FlowOK` action by action |
| `RoundAlwaysRight` | `Spec => []RoundRight` of `MCRoundContent` | `CtlInv`, `MsgInv` and `CycInv`, the inductive invariants of the controls, the messages and the feature cycle, see below |
| `StageAlwaysRight` | `Spec => []StageRight` | `TuneInv`, `AudInv`, `PotInv` and `ApeInv`, those of the music, the audibility, the pot and the character |
| `StageStepsRight` | `Spec => [][StageStep]_now` | from the same invariants: `StageStep` is the share of these parts in `StepsRight` |

`RoundProofs` first proves one *view* lemma per kind of row update, saying
which fields of which row an action changes; the invariance proofs then reason
about fields and never expand the record updates again. The `Next...` lemmas of
the first proof modules have one step per action; the later ones have one
per kind of step, which `StepKinds` derives from the actions once.

**The gateway.** `ClientOK` is what holds of every tab: types, `ServerOK` (the
revision counts the committed rounds; what is acknowledged was shown, what was
shown is committed), `PagesOK` and `CallsOK` (which calls and timers a page may
have), `RepliesOK` (an answer was true when given, and a verdict still is),
`BoundsOK` (nobody is ahead of the server) and `PendingOK` (the pending round is
the ledger's, delivered exactly when it is the last result applied). `LedgerOK`
adds, for a tab with its ledger, that the server's revision is the one the ledger
began from, or the next if its round has committed: an honest server cannot be
elsewhere. `RefreshOK` is the delicate part: while the token is renewed the
session may move one delivery ahead of the revision the refresh began with, but
then no confirmation of that delivery is on its way, so the refreshed projection
never seems to go back. The proof reduces every action to a kind of step
(the page stops, works, delivers, forgets a finished round, is renewed,
connects, finds a result, stakes, is relaunched; the server and the wire move),
and each invariant is proved per kind.

**The controller.** `FlowOK` relates what `AppController` keeps apart.
`GatewayOK`: a pending round is the last committed one or the next; a delivered
one is committed and in the projection. `PhaseOK` and `ReelOK`: the game machine
and the reels go with the gateway's round and the stage of the presentation.
`RoundOK`: a round on screen is the last one accepted, the last one committed and
the pending one, with its balance and its free spins in the controller; a delivered
round nobody has confirmed is buffered, on screen or refused. `BufferOK`: a
buffered result waits for the launch only, on idle reels. `MoneyOK` bounds what is
visible by what was disclosed. Without `PhaseOK`'s clause on recovery the
hidden page breaks the induction: only a gateway that has announced its loss may
leave a connected controller in `recovering`. The handlers are
nested record updates, so the proof first shows, handler by handler, which fields
each may change and to what (the `...Fields` lemmas), names that as a predicate,
and then proves one lemma per action from the predicates alone.

**The parts of the page.** A behaviour of `MCRoundContent` moves one part, so
`StageInv` is one implication per part (`StageTurns` finds the part of a step).
What each part needs beyond its properties:

- *Controls.* `CtlRun`: what a run of paid spins has left, has out and has spent
  is what was chosen, and only a run nobody ended has a spin out. `CtlBounds`:
  the boundaries met are those reached, and one that counts has ended the run.
  `CtlKnown`: a run that wants a spin has a timer, unless the wake-up was lost in
  the one way of section 8. The calls nest (a stop inside a result inside a
  close), so each lemma is about a call with the record it begins from.
- *Messages.* `MsgRound` (a counter is asked for once per round, in its step),
  `MsgCounter` (a running counter is the one question without an answer),
  `MsgMeter`, `MsgLine` (the line shows what its owners hold, and they hold
  nothing of an earlier round).
- *Feature cycle.* `CycGood`: awarded spins are the played and the remaining,
  paid and counted win agree, the cap is told exactly when it is met. From it, the
  guard accepts every result of the sound server (`CycSoundAccepted`): every
  check of `validateSpinResultAgainstOrigin` is an arithmetic fact about the origin.
- *Music.* `TuneMusic` and `TuneLoopsEnd` say which loops and stem a moment has,
  as a function of the application's state, whatever came before.
- *Audibility.* `AudOwed`: what is not yet as the page wants it has a task in the
  queue that no later signal has outdated, unless `missed` (section 8).
  `AudBusy` and `AudFresh` tie the queue to the operation under way.
- *Pot.* `PotLevel`: outside the changes of a wager the level is that of the
  pot; `PotKept` bounds the pot by the cap of some wager.
- *Character.* `ApePlays`: a released body loops in its stance, or holds a clip
  that is followed by its loop in Spine's queue or by the clock of the scene, and
  that clock is in step with the clip's last frame. A frame breaks this between
  Spine's update and the clock's (`ApeTicking`: one frame apart) and restores it
  at its end. `ApeLaunch` and `ApeHeld` say what the launch clip holds back until
  it is over, `ApeStands` what the mode makes of the stance between the scenes.

**What the proofs changed in the model.** The bounds that types took from
state (`asked`, `answered`, the counts of a run) became constants, which the
induction needs. Two `CASE`s whose guards overlapped were made disjoint: their
value is fixed by TLA+ only up to choice. `FallsInTime` needs an upper threshold
above the lower one (`PotUpper # 1` in `PotAssumption`), without which the proof
found no instant at which a rising pot may not fall. The constants of the code are ascending
(`BASE_MUSIC_POT_THRESHOLDS`).

**Assumed.** Only the named assumptions on constants, each checked by TLC in the
runs, and for `RepeatsKnowingly` the timely deadlines of the worker's
configuration.

**Only model-checked.** Liveness under fairness (`NeverForgotten`, `RoundEnds`,
`RoundsPlayedOut`, `PartsEnd`, `LeasesEnd`), which is out of the prover's reach,
as is `ENABLED`. `LeasesRight` and `NothingLeaks` of `AssetStreaming`: the closure
of the dependencies is recursive and the references are counted with folds over
it, so their proof is an induction over data. `ContentRight`: vault logs, money,
ledgers and wire messages are folds over sequences, the voices and coins are
pools counted with folds, and the cabinet plays concrete lists of rounds, so a
proof would add nothing but longer lists. `PartsRight` and the shares of its
parts in `StepsRight`: of the parts of `MCPresentation` nothing is proved.

## 8. What the code does against its word

Two runs expect a violation of what a comment of the code says:

- `app_hidden_free_spin`: a page hidden while a round of the feature is on screen
  comes back with no free-spin timer (`web/src/app/AppController.ts:3063`; the
  gateway does not announce such a page, `RgsGateway.ts:1061`, and its return is
  silent, `1076`), although the free spins are to go on by themselves
  (`app/freeSpinAutoplay.ts:23`). The player has to press the button.
- `reduced_launch_hidden`: with reduced motion no cue of the launch reaches the
  scene, so the intro is completed without having begun and the character stays
  in its hidden set-up pose (`web/src/startup/IntroDirector.ts:105`) until a
  reaction of a round plays a clip.

Read while modelling, and without a run of their own, because the properties are
stated outside these situations (paths in `web/src/`):

- `protocol/RgsGateway.ts:1063, 1078`: a page that comes back replays its session
  if it was announced as recovering, although its round may have been delivered
  in between; that a delivered round sees no second SESSION_OPENED is what the
  comment at 1057 and `rgs-gateway.test.ts:1664` are about.
- `reels/StopSequencer.ts:326, 353`: `cancel()` while the third reel waits on its
  barrier never settles the stop (`stop-sequencer.test.ts:996`).
- `reels/reelMotion.ts:301`: the comment on the inserted cells does not hold for
  reels of six to eight rows.
- `startup/StreamingAssetPackages.ts:508`: rolling back a stage leaves a payload
  without owner (comment in `StreamingAssetRuntime.ts:440`); `702`: a failed
  package is shown as loading (`streaming-asset-packages.test.ts:385`).
- `ui/DomOverlay.ts:4287–4313`: a wake-up of autoplay is lost when the press that
  was queued for one prompt finds the control in another mode (`lost` in
  `SpinControls`).
- `app/AppController.ts:2151–2197`: a partial win line stays after a failed
  presentation; `clearOrdinaryWinInformation` (`DomOverlay.ts:3570`) is never
  called (`failed` in `RoundMessages`).
- `renderer/PixiRenderer.ts:2158, 2261–2264`: in a mixed Kong unlock group the
  deferred jackpot award enters the highlight a second time (`mixed` in
  `Cabinet`); `2061–2104`: a failed round leaves its feature exit pending
  (`leaked` in `Cabinet`); `1701, 1788/1794` with `FreeSpinHudView.ts:510`: a counter
  restored during the warm-up stays hidden.
- `audio/AudioManager.ts`: a page hidden while a gesture's `context.resume()` is
  in flight goes on sounding (`missed` in `AudioLifecycle`;
  `audio-manager.test.ts:838, 955`); the cap on voices may evict a stem of the
  base music (`cut` in `SpriteAudio`).
- `app/AppController.ts:4032–4049` with `WinCelebration.ts:657`: an idle repeat
  that stalls without waiting loops in microtasks (comment 2632; the harness sets
  `Stalls` to `FALSE`).
- `protocol/RgsGateway.ts:1732`: a version-1 ledger of a committed round with one
  or two Rage symbols blocks for good, although the server's cursor has the exact
  origin (`rgs-gateway.test.ts:4939`); a ledger of another session is decoded
  before its fingerprint is compared, so a malformed one blocks; `1137`: an
  exception of `persistedLedgerFeatureState` escapes `requestSpin`.

Smaller observations: the lazy import of the controller (`main.ts:190`), the
win-record and feature artwork loads have no deadline; the frames of the staged
construction have no timer to fall back on; a hold shorter than the merge
boundaries of a win never merges; a cancelled intro reports itself as continued
(`FeatureEffects.ts:3477`); the Rage collection hides its symbols later than the
controller waits for it; the level of the Rage meter may be lowered by an
untriggered accepted result; the guard does not check that a vault's award
follows its reveal; a failed launch pack leaves the main pack out; a dropped loop
stays in `activeLoops`; a quick view may lengthen a big win by up to two seconds;
after vault awards with Rage in a base round the collection replaces the winners'
clip while the palettes stay dark; an exit during the tail of the launch shows
the set-up pose; a Rage overlay stays on its track until the feature exits.

## 9. What is not modelled, and the plan

Not modelled, though it could be; the hazards that no property covers are here:

1. Session transport with two clients: generation, idle deadline and relaunch
   (`internal/postgres/repository.go:298`).
2. Wallet circuit and isolation: a late result must not reopen the circuit
   (`internal/wallet/circuit.go:122`), permits must not leak.
3. Recovery passes: operator shares of a batch (`repository.go:1225`), readiness,
   the batched expiry of reviews.
4. Shared admission: the fail-closed window against late answers
   (`internal/sharedadmission/limiter.go:500`); local limits.
5. Launch exchange: single-use tokens on two replicas
   (`internal/launch/service.go:204`), nonces, idempotent creation.
6. The evaluation of ways, reels and multipliers; the local operator's balances;
   the in-memory repository as a second implementation of `RoundLifecycle`.
7. A timed companion of `OutboxDelivery`: retry delays and the rule that a lease
   covers the publish window.

Proofs next: in `MCPresentation`, the parts without a fold
(`ReelStop`, `Startup`, `WheelHyperspin`), each an invariant in a module like
`RoundStage`; the leases of `AssetStreaming`, for which the recursive `Closure`
has to become a constant relation first.

Abstracted within the modelled parts: grid cells, identifiers, hashes and
revisions in `WireContract`; geometry, artwork, easing and texts everywhere in
the presentation; the capture checkpoints and fixture hooks, which production
does not install; gains and the synthesised fallback of the audio; instances of
streaming packages, progress fractions and the shadow prefetch; redundant checks
that no reachable state can fail.

Not planned: cryptography, encodings and header formats (data), HTTP servers,
configuration, telemetry and metrics (no state of the service), migrations and
start-up continuity checks (they run alone, before the service), the math report
(offline statistics), embedding messages, drawing, deployment and infrastructure
code, and the verification scripts under `web/scripts`, which are not the program.
