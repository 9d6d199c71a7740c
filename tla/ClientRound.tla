------------------------------ MODULE ClientRound ------------------------------
(***************************************************************************)
(* The browser's side of a round: RgsGateway (web/src/protocol/            *)
(* RgsGateway.ts), which spends the launch code, saves a recovery ledger   *)
(* before it submits a round, polls the round until its result is known,   *)
(* hands the result to the controller once and acknowledges it until the   *)
(* server has confirmed, across hidden or offline pages, renewed access    *)
(* tokens, reloads and relaunches.                                         *)
(*                                                                         *)
(* JavaScript runs one continuation at a time, so every handler, timer     *)
(* callback and stretch of code between two awaits is one action.  A call  *)
(* of the RGS is a record with a stage; the RGS itself is external: one    *)
(* session, one open round, idempotent commands.  Revision and result      *)
(* sequence advance together, so one number stands for both.  Money,       *)
(* feature state and bindings are left out: a round is its identifier.     *)
(*                                                                         *)
(* There is no clock.  An armed timer may fire at any moment, and the      *)
(* fixed acknowledgement window may close at any moment after it opened.   *)
(***************************************************************************)
EXTENDS Integers, FiniteSets

CONSTANTS
  MaxRounds,        \* round identifiers
  Scenarios,        \* what may happen in a behaviour: see Scenario below
  maxPollAttempts,  \* RgsGatewayConfig.maxPollAttempts
  acknowledgementMaxAttempts

\* Rounds the player starts, relaunches, lost or refused calls, changes of
\* online or visible, the background timers in use, and whether a relaunch may
\* open a tab with empty storage.
Scenario ==
  [rounds : Nat, pages : Nat, faults : Nat, toggles : Nat,
   background : SUBSET {"refresh", "status"}, newTab : BOOLEAN]

ASSUME ClientAssumption ==
  /\ MaxRounds \in Nat /\ Scenarios \subseteq Scenario
  /\ \A s \in Scenarios : s.rounds <= MaxRounds
  /\ maxPollAttempts \in Nat \ {0}
  /\ acknowledgementMaxAttempts \in Nat \ {0}

VARIABLES
  server,      \* the RGS: revision, status of each round, results confirmed
  wire,        \* submissions the page gave up on, which may still arrive
  storage,     \* the recovery ledger in sessionStorage
  page,        \* flags of the RgsGateway of the page now open
  session,     \* the revision of the session projection, or NoSession
  pending,     \* RgsGateway.pending
  lastApplied, \* lastAppliedSequence and lastAppliedRoundId
  timers,      \* the timers that are armed
  calls,       \* the HTTP calls of the page
  history,     \* how often this page showed a round, rounds ever
               \* shown, rounds the controller asked to confirm
  budget       \* what is left of the scenario

vars == <<server, wire, storage, page, session, pending, lastApplied, timers,
          calls, history, budget>>

-----------------------------------------------------------------------------
(* Values *)

Rounds == 1 .. MaxRounds
NoRound == 0
NoSession == -1
NoLedger == [round |-> NoRound, start |-> 0]
NoPending ==
  [round |-> NoRound, start |-> 0, pollAttempts |-> 0, pollDue |-> FALSE,
   resubmitOnNotFound |-> FALSE, delivered |-> FALSE, ackInFlight |-> FALSE,
   ackNotBefore |-> FALSE, ackAttempts |-> 0, ackStarted |-> FALSE,
   windowOpen |-> FALSE]

Authorized == {"submit", "poll", "ack", "probe"}
Kinds == Authorized \union {"exchange", "discover", "refresh"}
Retryable == {"network", "busy", "unavailable"}
Replies == {"none", "ok", "committed", "pending", "rejected", "review", "absent",
            "unauthorized", "fatal", "timeout", "invalid"} \union Retryable

NoReply == [kind |-> "none", rev |-> 0, round |-> NoRound]
Reply(kind) == [NoReply EXCEPT !.kind = kind]
Quiet == [stage |-> "idle", again |-> FALSE, base |-> 0, timer |-> FALSE,
          reply |-> NoReply]
AllQuiet == [k \in Kinds |-> Quiet]

FreshPage == [phase |-> "new", launchCode |-> TRUE, online |-> TRUE,
              visible |-> TRUE, recoveringShown |-> FALSE, parked |-> FALSE,
              end |-> "none"]

Ends == {"none", "protocol", "fatal", "exhausted", "window", "review", "timeout",
         "lapsed", "offline", "closed"}

Servers ==
  [rev : 0 .. MaxRounds, acked : SUBSET Rounds,
   round : [Rounds -> {"absent", "pending", "committed", "rejected", "review"}]]
Messages == [round : Rounds, start : 0 .. MaxRounds]
Ledgers == [round : 0 .. MaxRounds, start : 0 .. MaxRounds]
Pages ==
  [phase : {"new", "connecting", "connected", "off"}, launchCode : BOOLEAN,
   online : BOOLEAN, visible : BOOLEAN, recoveringShown : BOOLEAN,
   parked : BOOLEAN, end : Ends]
PendingRounds ==
  [round : 0 .. MaxRounds, start : 0 .. MaxRounds,
   pollAttempts : 0 .. maxPollAttempts, pollDue : BOOLEAN,
   resubmitOnNotFound : BOOLEAN, delivered : BOOLEAN,
   ackInFlight : BOOLEAN, ackNotBefore : BOOLEAN,
   ackAttempts : 0 .. acknowledgementMaxAttempts,
   ackStarted : BOOLEAN, windowOpen : BOOLEAN]
Answers == [kind : Replies, rev : 0 .. MaxRounds, round : 0 .. MaxRounds]
Calls ==
  [stage : {"idle", "await", "sent", "answered", "renewing"}, again : BOOLEAN,
   base : -1 .. MaxRounds, timer : BOOLEAN, reply : Answers]
Timers == {"poll", "ack", "deadline", "refresh", "status"}

TypeOK ==
  /\ server \in Servers /\ wire \subseteq Messages /\ storage \in Ledgers
  /\ page \in Pages /\ session \in -1 .. MaxRounds
  /\ pending \in PendingRounds
  /\ lastApplied \in [sequence : 0 .. MaxRounds, round : 0 .. MaxRounds]
  /\ timers \subseteq Timers /\ calls \in [Kinds -> Calls]
  /\ history \in [here : [Rounds -> 0 .. 2], ever : SUBSET Rounds, asked : SUBSET Rounds]
  /\ budget \in Scenario

Open == page.phase # "off"
Available == page.online /\ page.visible
Active(k) == calls[k].stage # "idle"
Waiting == pending.round # NoRound

Init ==
  /\ server = [rev |-> 0, acked |-> {}, round |-> [r \in Rounds |-> "absent"]]
  /\ wire = {}
  /\ storage = NoLedger
  /\ page = FreshPage
  /\ session = NoSession
  /\ pending = NoPending
  /\ lastApplied = [sequence |-> 0, round |-> NoRound]
  /\ timers = {}
  /\ calls = AllQuiet
  /\ history = [here |-> [r \in Rounds |-> 0], ever |-> {}, asked |-> {}]
  /\ budget \in Scenarios

-----------------------------------------------------------------------------
(* The RGS, as the calls of src/ use it *)

Unconfirmed(s) == {r \in Rounds : s.round[r] = "committed" /\ r \notin s.acked}
Unfinished(s) == {r \in Rounds : s.round[r] \in {"pending", "review"}}

\* The RGS executes a round: it may answer at once or leave it pending.
Settled(s, r) ==
  {[s EXCEPT !.round[r] = "committed", !.rev = @ + 1],
   [s EXCEPT !.round[r] = "rejected"], [s EXCEPT !.round[r] = "review"]}

\* A submission is idempotent in its round.  A new one is refused while another
\* round is open or unconfirmed, or when its start revision is stale.
Accepts(s, m) ==
  IF s.round[m.round] # "absent" \/ s.rev # m.start
     \/ Unconfirmed(s) # {} \/ Unfinished(s) # {}
  THEN {s}
  ELSE {[s EXCEPT !.round[m.round] = "pending"]} \union Settled(s, m.round)

SubmitReply(s, r) ==
  CASE s.round[r] \in {"committed", "pending", "rejected"} -> Reply(s.round[r])
    [] OTHER -> Reply("fatal")

Served(k, s) ==
  CASE k = "exchange" -> IF "review" \in {s.round[r] : r \in Rounds}
                         THEN Reply("fatal") ELSE [Reply("ok") EXCEPT !.rev = s.rev]
    [] k = "refresh"  -> [Reply("ok") EXCEPT !.rev = s.rev]
    [] k = "discover" -> [Reply("ok") EXCEPT !.rev = s.rev, !.round =
                            IF Unconfirmed(s) = {} THEN NoRound
                            ELSE CHOOSE r \in Unconfirmed(s) : TRUE]
    [] k = "submit"   -> SubmitReply(s, pending.round)
    [] k = "poll"     -> Reply(s.round[pending.round])
    [] OTHER          -> Reply("ok")

Command == [round |-> pending.round, start |-> pending.start]

\* The RGS handles a request and its answer starts back.
Serve(k) ==
  /\ calls[k].stage = "sent"
  /\ server' \in CASE k = "submit" -> Accepts(server, Command)
                   [] k = "ack" -> {[server EXCEPT !.acked = @ \union {pending.round}]}
                   [] OTHER -> {server}
  /\ calls' = [calls EXCEPT ![k].stage = "answered", ![k].reply = Served(k, server')]
  /\ UNCHANGED <<wire, storage, page, session, pending, lastApplied, timers,
                 history, budget>>

\* The recovery worker or a risk reviewer settles a pending round.
SettlePending ==
  /\ \E r \in Rounds : server.round[r] = "pending" /\ server' \in Settled(server, r)
  /\ UNCHANGED <<wire, storage, page, session, pending, lastApplied, timers,
                 calls, history, budget>>

\* A submission the page no longer waits for reaches the RGS.
ArriveLate ==
  /\ \E m \in wire : wire' = wire \ {m} /\ server' \in Accepts(server, m)
  /\ UNCHANGED <<storage, page, session, pending, lastApplied, timers, calls,
                 history, budget>>

\* The call fails: the connection breaks or times out before or after the RGS
\* acted, or the RGS refuses it without acting.
Fault(k) ==
  /\ budget.faults > 0
  /\ budget' = [budget EXCEPT !.faults = @ - 1]
  /\ \/ /\ calls[k].stage \in {"sent", "answered"}
        /\ calls' = [calls EXCEPT ![k].stage = "answered", ![k].reply = Reply("network")]
        /\ wire' = IF k = "submit" /\ calls[k].stage = "sent"
                   THEN wire \union {Command} ELSE wire
     \/ /\ calls[k].stage = "sent"
        /\ \E e \in {"busy", "unavailable", "fatal", "timeout", "invalid"}
                      \union (IF k = "exchange" THEN {} ELSE {"unauthorized"}) :
             calls' = [calls EXCEPT ![k].stage = "answered", ![k].reply = Reply(e)]
        /\ UNCHANGED wire
  /\ UNCHANGED <<server, storage, page, session, pending, lastApplied, timers, history>>

-----------------------------------------------------------------------------
(* Ends of a page *)

\* Closing aborts every request; one already sent may still arrive.
Abandoned == IF calls["submit"].stage = "sent" THEN wire \union {Command} ELSE wire

\* The page stops for good and asks the operator for a new session; the ledger
\* and the pending round stay.
Terminate(why) ==
  /\ page' = [page EXCEPT !.phase = "off", !.launchCode = FALSE, !.end = why,
                          !.parked = FALSE, !.recoveringShown = FALSE]
  /\ session' = NoSession
  /\ timers' = {}
  /\ calls' = AllQuiet
  /\ wire' = Abandoned
  /\ UNCHANGED <<server, storage, pending, lastApplied, history, budget>>

Close ==
  /\ Open
  /\ page' = [page EXCEPT !.phase = "off", !.launchCode = FALSE, !.end = "closed",
                          !.parked = FALSE, !.recoveringShown = FALSE]
  /\ session' = NoSession
  /\ pending' = NoPending
  /\ lastApplied' = [sequence |-> 0, round |-> NoRound]
  /\ timers' = {}
  /\ calls' = AllQuiet
  /\ wire' = Abandoned
  /\ UNCHANGED <<server, storage, history, budget>>

\* The idle deadline of the session has passed.
SessionTimeout ==
  /\ page.phase = "connected" /\ session # NoSession
  /\ Terminate("timeout")

\* The operator launches the game again: a new page, in the same tab or not.
Relaunch ==
  /\ budget.pages > 0
  /\ budget' = [budget EXCEPT !.pages = @ - 1]
  /\ page' = FreshPage
  /\ session' = NoSession
  /\ pending' = NoPending
  /\ lastApplied' = [sequence |-> 0, round |-> NoRound]
  /\ timers' = {}
  /\ calls' = AllQuiet
  /\ wire' = Abandoned
  /\ history' = [history EXCEPT !.here = [r \in Rounds |-> 0], !.asked = {}]
  /\ storage' \in {storage} \union (IF budget.newTab THEN {NoLedger} ELSE {})
  /\ UNCHANGED server

-----------------------------------------------------------------------------
(* Parts shared by the handlers.  cs is what the calls become, p the pending *)
(* round.                                                                    *)

\* authorizedPost: wait for a token refresh under way, then send.
Post_Unsynchronized(cs, k) == [cs EXCEPT ![k] = [Quiet EXCEPT !.stage = "sent"]]
Post(cs, k) ==
  [cs EXCEPT ![k] = [Quiet EXCEPT !.stage = IF cs["refresh"].stage = "idle"
                                            THEN "sent" ELSE "await"]]
Ended(k) == [calls EXCEPT ![k] = Quiet]

Keep(p, ts, cs) ==
  /\ pending' = p
  /\ timers' = ts
  /\ calls' = cs
  /\ UNCHANGED <<server, wire, storage, page, session, lastApplied, history, budget>>

ScheduledPoll == IF Available THEN {"poll"} ELSE {}

schedulePoll(p, cs) ==
  \/ "poll" \in timers /\ Keep(p, timers, cs)
  \/ /\ "poll" \notin timers /\ p.pollAttempts >= maxPollAttempts
     /\ Terminate("exhausted")
  \/ /\ "poll" \notin timers /\ p.pollAttempts < maxPollAttempts
     /\ Keep([p EXCEPT !.pollDue = TRUE], timers \union ScheduledPoll, cs)

\* The round is over for the browser: forget it, with the calls made for it.
clearPending(cs) ==
  /\ storage' = NoLedger
  /\ pending' = NoPending
  /\ timers' = timers \ {"poll", "ack", "deadline"}
  /\ calls' = [k \in Kinds |-> IF k \in {"submit", "poll", "ack"} THEN Quiet ELSE cs[k]]
  /\ wire' = IF cs["submit"].stage = "sent" THEN wire \union {Command} ELSE wire
  /\ UNCHANGED <<server, page, session, lastApplied, history, budget>>

ResultSequence(p) == p.start + 1

classifySpinResult(p) ==
  IF ResultSequence(p) > lastApplied.sequence THEN "accept"
  ELSE IF ResultSequence(p) = lastApplied.sequence /\ p.round = lastApplied.round
       THEN "duplicate" ELSE "reject"

\* The controller is handed the result (onSpinResult).
ShownBy(r) == [history EXCEPT !.here[r] = IF @ < 2 THEN @ + 1 ELSE @,
                              !.ever = @ \union {r}]

\* A committed result reaches the page.  While it is hidden or offline the
\* result is dropped, to be asked for again.
acceptCommitted(p, cs) ==
  \/ ~Available /\ Keep(p, timers, cs)
  \/ /\ Available /\ classifySpinResult(p) = "accept"
     /\ history' = ShownBy(p.round)
     /\ lastApplied' = [sequence |-> ResultSequence(p), round |-> p.round]
     /\ session' = ResultSequence(p)
     /\ pending' = [p EXCEPT !.delivered = TRUE, !.ackInFlight = FALSE, !.pollDue = FALSE]
     /\ timers' = timers \ {"poll"}
     /\ calls' = cs
     /\ UNCHANGED <<server, wire, storage, page, budget>>
  \/ Available /\ classifySpinResult(p) = "duplicate" /\ Keep(p, timers, cs)
  \/ Available /\ classifySpinResult(p) = "reject" /\ Terminate("protocol")

-----------------------------------------------------------------------------
(* Connecting *)

connect ==
  /\ page.phase = "new" /\ page.launchCode
  /\ IF Available
     THEN /\ page' = [page EXCEPT !.phase = "connecting", !.launchCode = FALSE,
                                  !.parked = FALSE, !.recoveringShown = FALSE]
          /\ calls' = [calls EXCEPT !["exchange"].stage = "sent"]
     ELSE /\ ~page.parked
          /\ page' = [page EXCEPT !.parked = TRUE, !.recoveringShown = TRUE]
          /\ UNCHANGED calls
  /\ UNCHANGED <<server, wire, storage, session, pending, lastApplied, timers,
                 history, budget>>

\* The handshake failed after the launch code was spent: nothing is retried.
FailConnect(why) ==
  /\ page' = [page EXCEPT !.phase = "off", !.end = why, !.recoveringShown = FALSE]
  /\ calls' = AllQuiet
  /\ UNCHANGED <<server, wire, storage, session, pending, lastApplied, timers,
                 history, budget>>

BackgroundTimers ==
  (IF page.online THEN budget.background \intersect {"refresh"} ELSE {})
    \union (IF Available THEN budget.background \intersect {"status"} ELSE {})

Connected(rev, p, applied, due) ==
  /\ page' = [page EXCEPT !.phase = "connected"]
  /\ session' = rev
  /\ pending' = [p EXCEPT !.pollDue = due]
  /\ lastApplied' = applied
  /\ timers' = BackgroundTimers \union (IF due THEN ScheduledPoll ELSE {})
  /\ calls' = AllQuiet
  /\ UNCHANGED <<server, wire, storage, history, budget>>

Recovered(r, start) == [NoPending EXCEPT !.round = r, !.start = start]

\* The answer of the exchange: the ledger decides what is still to be settled.
\* Without one the server's cursor of unconfirmed results is asked.
FinishExchange ==
  LET rev == calls["exchange"].reply.rev
      delta == rev - storage.start
  IN
  /\ calls["exchange"].stage = "answered"
  /\ \/ calls["exchange"].reply.kind # "ok" /\ FailConnect("fatal")
     \/ /\ calls["exchange"].reply.kind = "ok" /\ storage = NoLedger
        /\ \/ rev = 0 /\ Connected(rev, NoPending, [sequence |-> 0, round |-> NoRound], FALSE)
           \/ /\ rev > 0
              /\ session' = rev
              /\ lastApplied' = [sequence |-> rev, round |-> NoRound]
              /\ calls' = [Ended("exchange") EXCEPT !["discover"].stage = "sent"]
              /\ UNCHANGED <<server, wire, storage, page, pending, timers, history, budget>>
     \/ /\ calls["exchange"].reply.kind = "ok" /\ storage # NoLedger /\ delta \in {0, 1}
        /\ Connected(rev,
                     [Recovered(storage.round, storage.start) EXCEPT
                        !.resubmitOnNotFound = (delta = 0)],
                     [sequence |-> rev - delta, round |-> NoRound], TRUE)
     \/ /\ calls["exchange"].reply.kind = "ok" /\ storage # NoLedger /\ delta \notin {0, 1}
        /\ FailConnect("protocol")

\* The answer of the pending-result cursor: its round is delivered at once, and
\* never written to the ledger.  It must be the last one of the session the
\* exchange described.
FinishDiscover ==
  LET found == calls["discover"].reply.round
      genuine == calls["discover"].reply.rev = session
      at == [sequence |-> session - 1, round |-> NoRound]
      p == Recovered(found, session - 1)
  IN
  /\ calls["discover"].stage = "answered"
  /\ \/ calls["discover"].reply.kind # "ok" /\ Terminate("fatal")
     \/ /\ calls["discover"].reply.kind = "ok" /\ found = NoRound
        /\ Connected(session, NoPending, lastApplied, FALSE)
     \/ calls["discover"].reply.kind = "ok" /\ found # NoRound /\ ~genuine
        /\ Terminate("protocol")
     \/ /\ calls["discover"].reply.kind = "ok" /\ found # NoRound /\ genuine
        /\ IF Available
           THEN /\ page' = [page EXCEPT !.phase = "connected"]
                /\ history' = ShownBy(found)
                /\ lastApplied' = [sequence |-> session, round |-> found]
                /\ pending' = [p EXCEPT !.delivered = TRUE]
                /\ timers' = BackgroundTimers
                /\ calls' = AllQuiet
                /\ UNCHANGED <<server, wire, storage, session, budget>>
           ELSE Connected(session, p, at, FALSE)

-----------------------------------------------------------------------------
(* Submitting and polling *)

Unused == {r \in 1 .. budget.rounds : /\ server.round[r] = "absent" /\ storage.round # r
                                    /\ \A m \in wire : m.round # r}

\* The recovery ledger of a round about to be submitted.
Saved_Later(r) == storage
Saved(r) == [round |-> r, start |-> session]

\* The ledger is written before the round is submitted.
requestSpin ==
  /\ page.phase = "connected" /\ Available /\ ~Waiting
  /\ \E r \in Unused :
       /\ \A u \in Unused : r <= u
       /\ storage' = Saved(r)
       /\ pending' = Recovered(r, session)
  /\ calls' = Post(calls, "submit")
  /\ UNCHANGED <<server, wire, page, session, lastApplied, timers, history, budget>>

\* A 401 renews the access token once and sends the call again.
Renews(k) ==
  /\ k \in Authorized /\ calls[k].stage = "answered"
  /\ calls[k].reply.kind = "unauthorized" /\ ~calls[k].again
  /\ calls' = [calls EXCEPT
       ![k] = [Quiet EXCEPT !.stage = "renewing", !.again = TRUE],
       !["refresh"] = IF Active("refresh") THEN @
                      ELSE [Quiet EXCEPT !.stage = "sent", !.base = session]]
  /\ UNCHANGED <<server, wire, storage, page, session, pending, lastApplied,
                 timers, history, budget>>

Answered(k) ==
  /\ calls[k].stage = "answered"
  /\ calls[k].reply.kind = "unauthorized" => (calls[k].again \/ k \notin Authorized)

\* The answer of a submission.  Only a failure that may have come before the
\* RGS knew the round allows it to be submitted again.
FinishSubmit ==
  LET e == calls["submit"].reply.kind
      p == [pending EXCEPT !.resubmitOnNotFound = e \in {"network", "busy"}]
      cs == Ended("submit")
  IN
  /\ Answered("submit")
  /\ \/ e = "committed" /\ acceptCommitted(pending, cs)
     \/ e = "pending" /\ schedulePoll(pending, cs)
     \/ e = "rejected" /\ ~Available /\ Keep(pending, timers, cs)
     \/ e = "rejected" /\ Available /\ clearPending(cs)
     \/ e \in Retryable /\ schedulePoll(p, cs)
     \/ e \in {"fatal", "unauthorized", "invalid"} /\ Terminate("fatal")
     \/ e = "timeout" /\ Terminate("timeout")

\* The poll timer fires.
PollTimer ==
  /\ "poll" \in timers
  /\ IF Active("poll")
     THEN Keep([pending EXCEPT !.pollDue = FALSE], timers \ {"poll"}, calls)
     ELSE Keep([pending EXCEPT !.pollDue = FALSE, !.pollAttempts = @ + 1],
               timers \ {"poll"}, Post(calls, "poll"))

\* The answer of a status query.  A result known while the page is hidden or
\* offline is left for later and the attempt given back.
FinishPoll ==
  LET e == calls["poll"].reply.kind
      cs == Ended("poll")
      seen == [pending EXCEPT !.resubmitOnNotFound = FALSE]
      later == [seen EXCEPT !.pollAttempts = @ - 1]
      again == pending.resubmitOnNotFound /\ session = pending.start
  IN
  /\ Answered("poll")
  /\ \/ e \in {"committed", "rejected"} /\ ~Available /\ Keep(later, timers, cs)
     \/ e = "committed" /\ Available /\ acceptCommitted(seen, cs)
     \/ e = "rejected" /\ Available /\ clearPending(cs)
     \/ e = "pending" /\ schedulePoll(seen, cs)
     \/ e = "review" /\ Terminate("review")
     \/ /\ e = "absent" /\ again /\ pending.pollAttempts < maxPollAttempts
        /\ Keep(seen, timers, Post(cs, "submit"))
     \/ e = "absent" /\ again /\ pending.pollAttempts >= maxPollAttempts
        /\ Terminate("exhausted")
     \/ e \in Retryable /\ schedulePoll(pending, cs)
     \/ e = "absent" /\ ~again /\ Terminate("fatal")
     \/ e \in {"fatal", "unauthorized", "invalid"} /\ Terminate("fatal")
     \/ e = "timeout" /\ Terminate("timeout")

-----------------------------------------------------------------------------
(* Acknowledging *)

AcknowledgementAllowed(p) ==
  p.windowOpen /\ p.ackAttempts < acknowledgementMaxAttempts

submitResultAcknowledgement(p, ts) ==
  \/ ~AcknowledgementAllowed(p) /\ Terminate("window")
  \/ /\ AcknowledgementAllowed(p) /\ ~page.online /\ Keep(p, ts, calls)
  \/ /\ AcknowledgementAllowed(p) /\ page.online
     /\ Keep([p EXCEPT !.ackAttempts = @ + 1], ts, Post(calls, "ack"))

Confirmable_Early == Waiting /\ ~pending.ackInFlight /\ ~Active("ack")
Confirmable == pending.delivered /\ ~pending.ackInFlight /\ ~Active("ack")

\* The controller has shown the result and asks for its acknowledgement.
acknowledgeSpinResult ==
  LET begun == IF pending.ackStarted THEN pending
               ELSE [pending EXCEPT !.ackStarted = TRUE, !.windowOpen = TRUE]
  IN
  /\ page.phase = "connected" /\ Confirmable
  /\ \/ /\ ~AcknowledgementAllowed(begun) /\ Terminate("window")
     \/ /\ AcknowledgementAllowed(begun)
        /\ history' = [history EXCEPT !.asked = @ \union {pending.round}]
        /\ pending' = [begun EXCEPT !.ackInFlight = TRUE,
                                    !.ackAttempts = IF page.online THEN @ + 1 ELSE @]
        /\ timers' = timers \union {"deadline"}
        /\ calls' = IF page.online THEN Post(calls, "ack") ELSE calls
        /\ UNCHANGED <<server, wire, storage, page, session, lastApplied, budget>>

\* scheduleAcknowledgementRetry keeps the deadline beside the retry.
RetryTimers == timers \union (IF page.online THEN {"ack"} ELSE {})

\* A retry waits for its backoff, unless that would outlast the window.
FinishAcknowledgement ==
  LET e == calls["ack"].reply.kind
      cs == Ended("ack")
  IN
  /\ Answered("ack")
  /\ \/ ~pending.windowOpen /\ Terminate("window")
     \/ pending.windowOpen /\ e = "ok" /\ clearPending(cs)
     \/ /\ pending.windowOpen /\ e \in Retryable
        /\ \/ Terminate("window")
           \/ /\ pending.ackAttempts < acknowledgementMaxAttempts
              /\ Keep([pending EXCEPT !.ackNotBefore = TRUE], RetryTimers, cs)
     \/ pending.windowOpen /\ e \in {"fatal", "unauthorized"} /\ Terminate("window")
     \/ pending.windowOpen /\ e = "timeout" /\ Terminate("timeout")
     \/ pending.windowOpen /\ e = "invalid"
        /\ Keep([pending EXCEPT !.ackInFlight = FALSE], timers, cs)

AcknowledgementTimer ==
  /\ "ack" \in timers
  /\ IF Active("ack")
     THEN Keep([pending EXCEPT !.ackNotBefore = FALSE], timers \ {"ack"}, calls)
     ELSE submitResultAcknowledgement([pending EXCEPT !.ackNotBefore = FALSE],
                                      timers \ {"ack"})

\* Time passes until the fixed recovery window of the acknowledgement is over.
WindowCloses ==
  /\ Open /\ pending.windowOpen
  /\ Keep([pending EXCEPT !.windowOpen = FALSE], timers, calls)

DeadlineTimer ==
  /\ "deadline" \in timers /\ ~pending.windowOpen
  /\ Terminate("window")

-----------------------------------------------------------------------------
(* Renewing the access token and probing the session *)

RefreshTimer ==
  /\ "refresh" \in timers
  /\ Keep(pending, timers \ {"refresh"},
          [calls EXCEPT !["refresh"] =
             IF Active("refresh") THEN [@ EXCEPT !.timer = TRUE]
             ELSE [Quiet EXCEPT !.stage = "sent", !.base = session, !.timer = TRUE]])

\* The calls that wait for the token go out, each with the pre-send check of
\* its own: an acknowledgement whose window is over fails instead.
Released_Renewed ==
  [k \in Kinds |-> IF k = "refresh" THEN Quiet
                   ELSE IF calls[k].stage # "renewing" THEN calls[k]
                   ELSE [calls[k] EXCEPT !.stage = "sent"]]
Released ==
  [k \in Kinds |->
     IF k = "refresh" THEN Quiet
     ELSE IF calls[k].stage \notin {"await", "renewing"} THEN calls[k]
     ELSE IF k = "ack" /\ ~pending.windowOpen
          THEN [calls[k] EXCEPT !.stage = "answered", !.reply = Reply("invalid")]
     ELSE [calls[k] EXCEPT !.stage = "sent"]]

\* The calls that wait for the token fail with the refresh.
Rejected(e) ==
  [k \in Kinds |->
     IF k = "refresh" THEN Quiet
     ELSE IF calls[k].stage \in {"await", "renewing"}
          THEN [calls[k] EXCEPT !.stage = "answered", !.again = TRUE, !.reply = Reply(e)]
     ELSE calls[k]]

\* What a renewed session may look like beside the one the page holds: the
\* same, the one from before a result delivered meanwhile, or one round ahead.
StaleOverlap(rev, base) ==
  Waiting /\ base = pending.start /\ rev = pending.start /\ session = pending.start + 1

validateRefreshedSession(rev, base) ==
  \/ rev = session
  \/ StaleOverlap(rev, base)
  \/ /\ Waiting
     /\ rev \in pending.start .. (pending.start + 1)
     /\ rev - session \in {0, 1}

FinishRefresh ==
  LET c == calls["refresh"]
      e == c.reply.kind
  IN
  /\ c.stage = "answered"
  /\ \/ /\ e = "ok" /\ validateRefreshedSession(c.reply.rev, c.base)
        /\ session' = IF StaleOverlap(c.reply.rev, c.base) THEN session ELSE c.reply.rev
        /\ timers' = timers \union (BackgroundTimers \intersect {"refresh"})
        /\ calls' = Released
        /\ UNCHANGED <<server, wire, storage, page, pending, lastApplied, history, budget>>
     \/ e = "ok" /\ ~validateRefreshedSession(c.reply.rev, c.base) /\ Terminate("protocol")
     \/ /\ e \in Retryable
        /\ Keep(pending,
                timers \union (IF c.timer THEN BackgroundTimers \intersect {"refresh"} ELSE {}),
                Rejected(e))
     \/ e \in Retryable /\ c.timer /\ Terminate("lapsed")
     \/ e \in {"fatal", "unauthorized", "invalid"} /\ Terminate("fatal")
     \/ e = "timeout" /\ Terminate("timeout")

StatusTimer ==
  /\ "status" \in timers /\ ~Active("probe")
  /\ Keep(pending, timers \ {"status"}, Post(calls, "probe"))

FinishProbe ==
  LET e == calls["probe"].reply.kind IN
  /\ Answered("probe")
  /\ \/ /\ e \in {"ok"} \union Retryable
        /\ Keep(pending, timers \union (BackgroundTimers \intersect {"status"}), Ended("probe"))
     \/ e \in {"fatal", "unauthorized", "invalid"} /\ Terminate("fatal")
     \/ e = "timeout" /\ Terminate("timeout")

-----------------------------------------------------------------------------
(* Hidden and offline pages *)

Undelivered == Waiting /\ ~pending.delivered

\* setRuntimeAvailability when the page goes offline or is hidden.
Suspend(online, visible) ==
  /\ page' = [page EXCEPT !.online = online, !.visible = visible,
       !.recoveringShown = @ \/ (/\ Available /\ ~(online /\ visible)
                                 /\ page.phase \in {"connecting", "connected"}
                                 /\ ~pending.delivered)]
  /\ timers' = timers \ ((IF online THEN {} ELSE {"ack", "refresh"})
                           \union (IF online /\ visible THEN {} ELSE {"poll", "status"}))
  /\ UNCHANGED <<server, wire, storage, session, pending, lastApplied, calls, history>>

\* resumeRoundRecovery: also a poll that was never scheduled, because its
\* result came while the page was hidden.
Repolls_Scheduled == Undelivered /\ ~Active("poll") /\ pending.pollDue
Repolls == Undelivered /\ ~Active("poll")

Resumable ==
  /\ pending.delivered /\ pending.ackStarted /\ ~Active("ack")

\* setRuntimeAvailability when the page is online or visible again: the token
\* refresh, the acknowledgement and the poll go on where they stopped, and a
\* page that showed "recovering" opens its session to the controller again.
Resume(online, visible) ==
  LET back == online /\ visible
      onlineAgain == ~page.online /\ online
      availableAgain == ~Available /\ back
      repoll == availableAgain /\ Repolls
      reack == onlineAgain /\ Resumable
      reconnects == availableAgain /\ page.parked
      reopen == availableAgain /\ page.recoveringShown /\ page.phase = "connected"
      \* the backoff of the acknowledgement is over
      due == ~pending.ackNotBefore
      sends == reack /\ due
  IN
  /\ \/ /\ \/ reack /\ ~AcknowledgementAllowed(pending)
           \/ repoll /\ ~pending.pollDue /\ pending.pollAttempts >= maxPollAttempts
        /\ Terminate(IF reack THEN "window" ELSE "exhausted")
     \/ /\ onlineAgain /\ page.phase = "connected" /\ "refresh" \in budget.background
        /\ ~Active("refresh") /\ Terminate("offline")
     \/ /\ reack => AcknowledgementAllowed(pending)
        /\ repoll => pending.pollDue \/ pending.pollAttempts < maxPollAttempts
        /\ page' = [page EXCEPT !.online = online, !.visible = visible,
                      !.phase = IF reconnects THEN "connecting" ELSE @,
                      !.launchCode = @ /\ ~reconnects,
                      !.parked = @ /\ ~reconnects,
                      !.recoveringShown = @ /\ ~reopen /\ ~reconnects]
        /\ pending' = [pending EXCEPT
                         !.pollDue = @ \/ repoll,
                         !.ackInFlight = @ \/ sends,
                         !.ackAttempts = IF sends THEN @ + 1 ELSE @]
        /\ timers' = timers
             \union (IF onlineAgain /\ page.phase = "connected" /\ ~Active("refresh")
                     THEN budget.background \intersect {"refresh"} ELSE {})
             \union (IF reack /\ ~due THEN {"ack"} ELSE {})
             \union (IF repoll THEN {"poll"} ELSE {})
             \union (IF availableAgain /\ page.phase = "connected" /\ ~Active("probe")
                     THEN budget.background \intersect {"status"} ELSE {})
        /\ calls' = IF reconnects THEN [calls EXCEPT !["exchange"].stage = "sent"]
                    ELSE IF sends THEN Post(calls, "ack") ELSE calls
        /\ UNCHANGED <<server, wire, storage, session, lastApplied, history, budget>>

setRuntimeAvailability(online, visible) ==
  /\ Open
  /\ <<online, visible>> # <<page.online, page.visible>>
  /\ \/ /\ ~(online /\ ~page.online) /\ ~(visible /\ ~page.visible)
        /\ budget.toggles > 0
        /\ Suspend(online, visible)
        /\ budget' = [budget EXCEPT !.toggles = @ - 1]
     \/ /\ (online /\ ~page.online) \/ (visible /\ ~page.visible)
        /\ page.online => online
        /\ page.visible => visible
        /\ Resume(online, visible)

-----------------------------------------------------------------------------
(* The system *)

Respond ==
  \/ FinishExchange \/ FinishDiscover \/ FinishSubmit \/ FinishPoll
  \/ FinishAcknowledgement \/ FinishRefresh \/ FinishProbe
  \/ \E k \in Authorized : Renews(k)

Fire ==
  \/ PollTimer \/ AcknowledgementTimer \/ DeadlineTimer \/ RefreshTimer
  \/ StatusTimer

Next ==
  \/ connect \/ requestSpin \/ acknowledgeSpinResult
  \/ Respond \/ Fire
  \/ WindowCloses \/ SessionTimeout \/ Close \/ Relaunch
  \/ \E online, visible \in BOOLEAN : setRuntimeAvailability(online, visible)
  \/ SettlePending \/ ArriveLate
  \/ \E k \in Kinds : Serve(k) \/ Fault(k)

Spec == Init /\ [][Next]_vars

\* The browser runs its timers and continuations, every call is answered or
\* times out (requestTimeoutMs), time passes, and the controller confirms what
\* it has shown.  Nothing is assumed of the player, the operator or the faults.
Fairness ==
  /\ WF_vars(connect)
  /\ WF_vars(acknowledgeSpinResult)
  /\ WF_vars(FinishExchange) /\ WF_vars(FinishDiscover)
  /\ WF_vars(FinishSubmit) /\ WF_vars(FinishPoll) /\ WF_vars(FinishRefresh)
  /\ WF_vars(FinishAcknowledgement) /\ WF_vars(FinishProbe)
  /\ \A k \in Authorized : WF_vars(Renews(k))
  /\ WF_vars(PollTimer) /\ WF_vars(AcknowledgementTimer) /\ WF_vars(DeadlineTimer)
  /\ WF_vars(RefreshTimer) /\ WF_vars(StatusTimer)
  /\ WF_vars(WindowCloses)
  /\ \A k \in Kinds : WF_vars(Serve(k))

FairSpec == Spec /\ Fairness

-----------------------------------------------------------------------------
(* Properties *)

\* A round that has been staked, or whose submission may still arrive, is in
\* the ledger: whatever ends the page, the next one finds it (requestSpin saves
\* before it sends, and only clearPending forgets), unless its tab is new.
NothingForgotten ==
  ~budget.newTab =>
  \A r \in Rounds :
    \/ server.round[r] = "pending"
    \/ server.round[r] = "absent" /\ \E m \in wire : m.round = r
    \/ server.round[r] = "absent" /\ pending.round = r /\ calls["submit"].stage = "sent"
    => storage.round = r

\* Nothing is forgotten, by pages, ledgers and calls that have their types.
RecordsRight == TypeOK /\ NothingForgotten

\* An honest server is never taken for a broken one: no reordering of answers,
\* refreshes, late submissions and reloads makes a genuine session or result
\* look inconsistent and throw the player out.  A tab without its ledger is the
\* exception: a round its predecessor left open may commit between two of its
\* calls, and the page asks for another launch (discoverPendingResult).
HonestServerTrusted == page.end = "protocol" => budget.newTab

\* What is under way is always being worked on, or will be when the page can
\* be seen again: a lost wake-up would leave the reels spinning, and an
\* acknowledgement once begun would outlive its fixed window.
NeverStuck ==
  /\ page.phase = "connected" /\ Available /\ Undelivered
       => "poll" \in timers \/ Active("submit") \/ Active("poll")
  /\ Open /\ pending.ackStarted => "deadline" \in timers

\* A page hands a result to its controller once, although the submission, a
\* poll begun beside it and the cursor may each bring it.
ShownOnce == \A r \in Rounds : history.here[r] <= 1

\* A genuine result gets through, once: no reordering of answers makes it look
\* inconsistent, and none of the calls that may bring it shows it again.
GenuineResults == HonestServerTrusted /\ ShownOnce

\* A round the page waits for is over, or delivered and confirmed, or the page
\* stops, unless the player hides the page or goes offline.
RoundEnds == (page.phase = "connected" /\ Waiting) ~> (~Open \/ ~Waiting \/ ~Available)

-----------------------------------------------------------------------------
(* The contract *)

statusOf(r) ==
  CASE r \in server.acked -> "confirmed"
    [] r \in history.ever /\ r \notin server.acked -> "shown"
    [] server.round[r] = "committed" /\ r \notin history.ever -> "committed"
    [] server.round[r] = "rejected" -> "void"
    [] server.round[r] = "review" -> "held"
    [] server.round[r] = "pending" -> "requested"
    [] OTHER -> IF storage.round = r THEN "requested" ELSE "idle"

\* A new tab has lost the ledger this contract rests on.
Contract ==
  INSTANCE RoundDelivery WITH
    status <- [r \in Rounds |-> IF budget.newTab THEN "idle" ELSE statusOf(r)]

\* The gateway, over reloads, lost and late calls, keeps the delivery contract.
ImplementsDelivery == Contract!Spec
=============================================================================
