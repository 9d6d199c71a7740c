---------------------------- MODULE WireContract ----------------------------
(***************************************************************************)
(* The contract of the wire: what the game server writes of a round        *)
(* (server/internal/rgsapi/response.go, every field of every event, unset  *)
(* ones zero) and what the browser takes from it                           *)
(* (web/src/protocol/rgsDecoder.ts, the fields the type of an event has,   *)
(* every other answer refused).  A refused answer of a committed round     *)
(* would leave the player without the round, so the decoder must take      *)
(* whatever the engine can produce; and it must not take the answer of     *)
(* another request, session or round.  Money and multipliers are numbers.  *)
(***************************************************************************)
EXTENDS Integers, Sequences, FiniteSets, TLC
CONSTANTS InitialSpins, MaxSpins,     \* free spins a feature begins with and may reach
          Cap,                        \* the most a whole game pays, for the bet of 1
          MaxRequests                 \* bound: requests of one session
VARIABLE s

Seqs == INSTANCE SequencesExt
Bet == 1
Me == "me"
None == [kind |-> "none"]

-----------------------------------------------------------------------------
(* What the engine puts in a result: only the fields it sets.              *)
Vault(reel, row) == [reel |-> reel, row |-> row]
Cells == <<Vault(1, 0)>>
Landed == <<[type |-> "vaults.landed", count |-> 1, cells |-> Cells]>>
Locked == Landed \o <<[type |-> "vaults.locked", count |-> 1, cells |-> Cells]>>
Unlocking(events) ==
  Landed \o <<[type |-> "vaults.unlock.started", count |-> 1, cells |-> Cells]>> \o events
    \o <<[type |-> "vaults.unlock.completed", count |-> 1, cells |-> Cells]>>
Cash(m) ==
  Unlocking(<<[type |-> "vault.unlocked", reel |-> 1, row |-> 0, prize |-> "CASH", multiplier |-> m],
              [type |-> "vault.awarded", reel |-> 1, row |-> 0, prize |-> "CASH", multiplier |-> m,
               amountMinor |-> m * Bet]>>)
FreeSpin(capped) ==
  Unlocking(<<[type |-> "vault.unlocked", reel |-> 1, row |-> 0, prize |-> "FREE_SPIN"],
              IF capped THEN [type |-> "free_spin.cap_reached", reel |-> 1, row |-> 0]
              ELSE [type |-> "free_spin.awarded", count |-> 1, reel |-> 1, row |-> 0]>>)
King(from, to) ==
  Unlocking(<<[type |-> "vault.unlocked", reel |-> 1, row |-> 0, prize |-> "CASH",
               multiplier |-> from]>>)
  \o <<[type |-> "vaults.upgrade.started", count |-> 1, step |-> 1],
       [type |-> "vault.upgraded", reel |-> 1, row |-> 0, step |-> 1, prize |-> "CASH",
        fromMultiplier |-> from, toMultiplier |-> to],
       [type |-> "vault.awarded", reel |-> 1, row |-> 0, prize |-> "CASH", multiplier |-> to,
        amountMinor |-> to * Bet]>>
Surge(triggered, level, total) ==
  <<[type |-> "surge.collected", count |-> 1, cells |-> Cells, triggered |-> triggered,
     guaranteed |-> FALSE, level |-> level, total |-> total]>>
Transformed == <<[type |-> "rage.transformed", count |-> 1, cells |-> Cells, level |-> 1, total |-> 0],
                 [type |-> "wheel.started"]>>
Instant(m) == <<[type |-> "wheel.awarded", outcome |-> "INSTANT", prize |-> "CASH", multiplier |-> m,
                 amountMinor |-> m * Bet]>>
Started(mode) == <<[type |-> "wheel.awarded", outcome |-> mode],
                   [type |-> "free_spins.started", mode |-> mode, awarded |-> InitialSpins]>>

\* A way that pays along two paths.
Way(amount) == [ways |-> 2, nominal |-> amount, paid |-> amount,
                paths |-> [i \in 1..2 |-> [nominal |-> amount \div 2, paid |-> amount \div 2]]]
Pays(event) == "amountMinor" \in DOMAIN event
Paid(event, amount) == IF Pays(event) THEN [event EXCEPT !.amountMinor = amount] ELSE event

Least(a, b) == IF a < b THEN a ELSE b
Worth(events) == Seqs!FoldLeft(LAMBDA n, e : n + (IF Pays(e) THEN e.amountMinor ELSE 0), 0, events)
\* The wins are paid first, path by path, then the awards; what is beyond
\* the cap is not paid, and the cap is told.
ToBudget(way, budget) ==
  LET paid == Least(way.nominal, budget)
      first == Least(way.paths[1].nominal, paid)
  IN  [way EXCEPT !.paid = paid, !.paths[1].paid = first, !.paths[2].paid = paid - first]
applyWinCap(prior, wins, events) ==
  LET left == Cap - prior
      waysWorth == IF wins = <<>> THEN 0 ELSE wins[1].nominal
      waysPaid == Least(waysWorth, left)
      total == Least(waysWorth + Worth(events), left)
      raw == waysWorth + Worth(events)
  IN  [wins |-> [i \in DOMAIN wins |-> ToBudget(wins[i], left)],
       events |-> [i \in DOMAIN events |-> Paid(events[i], Least(Worth(events), total - waysPaid))]
                  \o (IF raw > 0 /\ raw >= left
                      THEN <<[type |-> "win_cap.reached", multiplier |-> Cap,
                              cumulativeWinMinor |-> Cap]>>
                      ELSE <<>>),
       total |-> total]

(* The feature a session is in; none is all zero but the rage meter.       *)
Base(level, total) ==
  [mode |-> "", remaining |-> 0, awarded |-> 0, bet |-> 0, win |-> 0, level |-> level, total |-> total]
Active(f) == f.mode # ""
BaseEvents(f) == {<<>>, Locked, Cash(2), Surge(FALSE, f.level, f.total + 1),
                  Surge(TRUE, 1, 0) \o Transformed \o Instant(3),
                  Surge(TRUE, 1, 0) \o Transformed \o Started("EXPANSION"),
                  Surge(TRUE, 1, 0) \o Transformed \o Started("OVERDRIVE")}
EventsOf(f) ==
  CASE f.mode = "" -> BaseEvents(f)
    [] f.mode = "EXPANSION" ->
         {<<[type |-> "grid.expanded", rows |-> 4, ways |-> 64]>> \o e :
            e \in {<<>>, Cash(2), FreeSpin(f.awarded = MaxSpins)}}
    [] OTHER -> {<<>>, King(2, 4)}
Has(events, type) == \E i \in DOMAIN events : events[i].type = type
Meter(f, events) ==
  IF Has(events, "wheel.started") THEN Base(1, 0)
  ELSE IF Has(events, "surge.collected") THEN Base(f.level, f.total + 1)
  ELSE Base(f.level, f.total)
StartedMode(events) ==
  (CHOOSE e \in {events[i] : i \in DOMAIN events} : e.type = "free_spins.started").mode
After(f, events, total) ==
  IF Active(f)
  THEN LET more == IF Has(events, "free_spin.awarded") THEN 1 ELSE 0
           remaining == f.remaining - 1 + more
       IN  IF remaining = 0 THEN Base(f.level, f.total)
           ELSE [f EXCEPT !.remaining = remaining, !.awarded = @ + more, !.win = @ + total]
  ELSE IF Has(events, "free_spins.started")
       THEN [Meter(f, events) EXCEPT !.mode = StartedMode(events), !.remaining = InitialSpins,
                                     !.awarded = InitialSpins, !.bet = Bet, !.win = total]
       ELSE Meter(f, events)

Outcome(f, wins, raw) ==
  LET paid == applyWinCap(IF Active(f) THEN f.win ELSE 0, wins, raw)
      more == IF Has(raw, "free_spin.awarded") THEN 1 ELSE 0
      over == Active(f) /\ f.remaining - 1 + more = 0
  IN  [wins |-> paid.wins, total |-> paid.total, feature |-> After(f, raw, paid.total), origin |-> f,
       events |-> paid.events \o
         (IF over
          THEN <<[type |-> "free_spins.completed", mode |-> f.mode, awarded |-> f.awarded + more,
                  cumulativeWinMinor |-> f.win + paid.total]>>
          ELSE <<>>)]

-----------------------------------------------------------------------------
(* The server writes every field; those the engine did not set are zero.   *)
Unset ==
  [type |-> "", count |-> 0, cells |-> <<>>, triggered |-> FALSE, guaranteed |-> FALSE,
   outcome |-> "", prize |-> "", multiplier |-> 0, amountMinor |-> 0, cumulativeWinMinor |-> 0,
   mode |-> "NONE", awarded |-> 0, rows |-> 0, ways |-> 0, reel |-> 0, row |-> 0, level |-> 0,
   total |-> 0, step |-> 0, fromMultiplier |-> 0, toMultiplier |-> 0]
makeEventResponse(event) == event @@ Unset

makeFeatureStateResponse(f) == [f EXCEPT !.mode = IF @ = "" THEN "NONE" ELSE @]

\* The deadline of the session's idle time is no part of the stored result;
\* the handler that answers fills it in.
makeSpinResultResponse(round, deadline) ==
  [session |-> round.session, seq |-> round.seq, hash |-> round.seq, deadline |-> deadline,
   wins |-> round.result.wins, total |-> round.result.total,
   events |-> [i \in DOMAIN round.result.events |-> makeEventResponse(round.result.events[i])],
   feature |-> makeFeatureStateResponse(round.result.feature)]

Answer(id, kind, data) == [kind |-> kind, requestId |-> id, data |-> data]
makeSessionResponse(feature, round) ==
  [session |-> Me, seq |-> round.seq, expires |-> 2, deadline |-> 1,
   feature |-> makeFeatureStateResponse(feature)]
RoundStatus(round, deadline) ==
  [session |-> round.session, seq |-> round.seq, status |-> round.status,
   result |-> IF round.status = "COMMITTED" THEN <<makeSpinResultResponse(round, deadline)>>
              ELSE <<>>]
serveRoundStatus(id, round) == Answer(id, "status", RoundStatus(round, 1))
handleClientPendingResult(id, round) ==
  Answer(id, "pending", [session |-> round.session, seq |-> round.seq, hash |-> round.seq,
                         origin |-> makeFeatureStateResponse(round.result.origin),
                         result |-> makeSpinResultResponse(round, 1)])

-----------------------------------------------------------------------------
(* The browser: what it takes of an answer, or that it refuses it.         *)
Positive(n) == n \in 1..1000000
Keep(event, fields) == [f \in fields |-> event[f]]
FieldsOf(event) ==
  CASE event.type = "surge.collected" ->
         {"type", "count", "cells", "triggered", "guaranteed", "level", "total"}
    [] event.type = "rage.transformed" -> {"type", "count", "cells", "level", "total"}
    [] event.type = "wheel.started" -> {"type"}
    [] event.type = "wheel.awarded" ->
         {"type", "outcome"}
         \cup (IF event.outcome = "INSTANT" THEN {"prize", "multiplier", "amountMinor"} ELSE {})
    [] event.type = "free_spins.started" -> {"type", "mode", "awarded"}
    [] event.type = "grid.expanded" -> {"type", "rows", "ways"}
    [] event.type \in {"vaults.landed", "vaults.locked",
                       "vaults.unlock.started", "vaults.unlock.completed"} ->
         {"type", "count", "cells"}
    [] event.type = "vault.unlocked" ->
         {"type", "reel", "row", "prize"} \cup (IF event.multiplier = 0 THEN {} ELSE {"multiplier"})
    [] event.type = "vault.awarded" -> {"type", "reel", "row", "prize", "multiplier", "amountMinor"}
    [] event.type = "free_spin.awarded" -> {"type", "count", "reel", "row"}
    [] event.type = "free_spin.cap_reached" -> {"type", "reel", "row"}
    [] event.type = "win_cap.reached" -> {"type", "multiplier", "cumulativeWinMinor"}
    [] event.type = "vaults.upgrade.started" -> {"type", "count", "step"}
    [] event.type = "vault.upgraded" ->
         {"type", "reel", "row", "fromMultiplier", "toMultiplier", "prize", "step"}
    [] event.type = "free_spins.completed" -> {"type", "mode", "awarded", "cumulativeWinMinor"}

EventTaken(event) ==
  LET fields == FieldsOf(event)
  IN  /\ event.mode \in {"NONE", "EXPANSION", "OVERDRIVE"}
      /\ "mode" \in fields => event.mode # "NONE"
      /\ "prize" \in fields => event.prize # ""
      /\ \A f \in fields \cap {"multiplier", "fromMultiplier", "toMultiplier"} : Positive(event[f])
      /\ event.type = "wheel.awarded" => event.outcome \in {"INSTANT", "EXPANSION", "OVERDRIVE"}
translatedEvents(events) == [i \in DOMAIN events |-> Keep(events[i], FieldsOf(events[i]))]

WinTaken(win) ==
  /\ win.nominal > 0 /\ win.paid <= win.nominal
  /\ \A i \in DOMAIN win.paths : win.paths[i].paid <= win.paths[i].nominal
  /\ win.paths[1].paid + win.paths[2].paid = win.paid
  /\ win.paths[1].nominal + win.paths[2].nominal = win.nominal

FeatureTaken(f) ==
  /\ f.mode \in {"NONE", "EXPANSION", "OVERDRIVE"} /\ f.level >= 1
  /\ IF f.mode = "NONE" THEN f.remaining = 0 /\ f.awarded = 0 /\ f.bet = 0 /\ f.win = 0
     ELSE f.remaining >= 1 /\ f.awarded >= f.remaining /\ f.bet > 0
featureState(f) ==
  [mode |-> IF f.mode = "NONE" THEN "" ELSE f.mode, remaining |-> f.remaining,
   played |-> f.awarded - f.remaining, bet |-> f.bet, win |-> f.win, level |-> f.level, total |-> f.total]

SpinTaken(data) ==
  /\ data.deadline > 0 /\ FeatureTaken(data.feature)
  /\ \A i \in DOMAIN data.wins : WinTaken(data.wins[i])
  /\ \A i \in DOMAIN data.events : EventTaken(data.events[i])
decodedSpinData(data) ==
  [seq |-> data.seq, session |-> data.session, wins |-> data.wins, total |-> data.total,
   events |-> translatedEvents(data.events), feature |-> featureState(data.feature)]

decodeRgsExchange(data) ==
  data.session = Me /\ data.deadline \in 1..data.expires /\ FeatureTaken(data.feature)
decodeRgsSessionStatus(data) == data.session = Me /\ data.deadline > 0
decodeRgsRoundStatus(data) ==
  /\ data.status \in {"PREPARED", "WALLET_PENDING", "COMMITTED", "REJECTED", "MANUAL_REVIEW"}
  /\ data.status = "COMMITTED" <=> data.result # <<>>
  /\ data.result # <<>> => SpinTaken(data.result[1])
decodePendingResultDelivery(data) ==
  /\ SpinTaken(data.result) /\ FeatureTaken(data.origin)
  /\ data.session = data.result.session /\ data.seq = data.result.seq /\ data.hash = data.result.hash
decodeResultDeliveryAcknowledgement(data, asked) == data.session = Me /\ data.seq = asked.seq

\* The request's identity first; a spin's and a status' round are compared
\* by the gateway that asked.
requireMatchingRequestId(answer, asked) == answer.requestId = asked.id
RoundAskedFor(data, asked) == data.session = Me /\ data.seq = asked.seq
Taken(answer, asked) ==
  /\ requireMatchingRequestId(answer, asked)
  /\ answer.kind = asked.kind
  /\ CASE asked.kind = "spin" -> SpinTaken(answer.data) /\ RoundAskedFor(answer.data, asked)
       [] asked.kind = "status" ->
            decodeRgsRoundStatus(answer.data) /\ RoundAskedFor(answer.data, asked)
       [] asked.kind = "pending" -> decodePendingResultDelivery(answer.data) /\ answer.data.session = Me
       [] asked.kind = "ack" -> decodeResultDeliveryAcknowledgement(answer.data, asked)
       [] asked.kind = "session" -> decodeRgsSessionStatus(answer.data)
       [] asked.kind = "exchange" -> decodeRgsExchange(answer.data)
ResultIn(answer) ==
  CASE answer.kind = "spin" -> <<decodedSpinData(answer.data)>>
    [] answer.kind = "status" ->
         [i \in DOMAIN answer.data.result |-> decodedSpinData(answer.data.result[i])]
    [] answer.kind = "pending" -> <<decodedSpinData(answer.data.result)>>
    [] OTHER -> <<>>
FeatureIn(answer) ==
  IF answer.kind = "exchange" THEN <<featureState(answer.data.feature)>> ELSE <<>>

-----------------------------------------------------------------------------
(***************************************************************************)
(* feature: of the session on the server; round: the last one; asked: the  *)
(* request under way; answer: what came back, honest if it is the server's *)
(* answer to that request; last: the answer before it, which something in  *)
(* between may repeat; read: what the browser made of it.                  *)
(***************************************************************************)
NoRound == [seq |-> 0, session |-> Me, status |-> "COMMITTED",
            result |-> Outcome(Base(1, 0), <<>>, <<>>)]
\* The session is new, or was left in the last spin of a feature.
Left(mode) ==
  [Base(1, 2) EXCEPT !.mode = mode, !.remaining = 1, !.awarded = MaxSpins, !.bet = Bet,
                     !.win = IF mode = "EXPANSION" THEN Cap - 1 ELSE Cap]
Init ==
  \E feature \in {Base(1, 0), Left("EXPANSION"), Left("OVERDRIVE")} :
    s = [feature |-> feature, round |-> NoRound, acked |-> TRUE, asked |-> None, answer |-> None,
         honest |-> FALSE, last |-> None, read |-> [state |-> "none"], requests |-> 0]

Ask(kind) ==
  /\ s.asked = None /\ s.requests < MaxRequests
  /\ kind = "spin" => s.acked
  /\ kind = "status" => s.round.seq > 0
  /\ kind \in {"ack", "pending"} => ~s.acked
  /\ s' = [s EXCEPT !.asked = [kind |-> kind, id |-> s.requests + 1,
                               seq |-> IF kind = "spin" THEN s.round.seq + 1 ELSE s.round.seq],
                    !.requests = @ + 1, !.read = [state |-> "none"]]

\* The coordinator settles the round asked for, or the wallet refuses it.
Settle(wins, events) ==
  /\ s.asked # None /\ s.asked.kind = "spin" /\ s.round.seq < s.asked.seq /\ s.answer = None
  /\ events \in EventsOf(s.feature)
  /\ LET result == Outcome(s.feature, wins, events)
     IN  s' = [s EXCEPT !.round = [seq |-> s.asked.seq, session |-> Me, status |-> "COMMITTED",
                                   result |-> result],
                        !.feature = result.feature, !.acked = FALSE]
Refuse ==
  /\ s.asked # None /\ s.asked.kind = "spin" /\ s.round.seq < s.asked.seq /\ s.answer = None
  /\ s' = [s EXCEPT !.round = [NoRound EXCEPT !.seq = s.asked.seq, !.status = "REJECTED"]]

\* The answer of the server to the request; an error answers the spin of a
\* rejected round, and the browser gives the spin up.
Reply ==
  /\ s.asked # None /\ s.answer = None
  /\ s.asked.kind = "spin" => s.round.seq = s.asked.seq /\ s.round.status = "COMMITTED"
  /\ LET id == s.asked.id
     IN s' = [s EXCEPT
          !.honest = TRUE, !.acked = @ \/ s.asked.kind = "ack",
          !.answer =
            CASE s.asked.kind = "spin" -> Answer(id, "spin", makeSpinResultResponse(s.round, 1))
              [] s.asked.kind = "status" -> serveRoundStatus(id, s.round)
              [] s.asked.kind = "pending" -> handleClientPendingResult(id, s.round)
              [] s.asked.kind = "ack" -> Answer(id, "ack", [session |-> Me, seq |-> s.round.seq])
              [] s.asked.kind = "session" -> Answer(id, "session", [session |-> Me, deadline |-> 1])
              [] s.asked.kind = "exchange" ->
                   Answer(id, "exchange", makeSessionResponse(s.feature, s.round))]

\* Something in between repeats an earlier answer, or mixes up the sessions
\* or the rounds of what it carries.
Repeat ==
  /\ s.asked # None /\ s.answer = None /\ s.last # None
  /\ s' = [s EXCEPT !.answer = s.last, !.honest = FALSE]
Foreign ==
  /\ s.answer # None /\ s.honest
  /\ \E wrong \in {"session", "seq"} :
       /\ wrong = "seq" => s.answer.kind \notin {"session", "exchange"}
       /\ s' = [s EXCEPT !.honest = FALSE,
                         !.answer.data = IF wrong = "session" THEN [@ EXCEPT !.session = "other"]
                                         ELSE [@ EXCEPT !.seq = @ + 1]]
\* The request is given up without an answer.
GiveUp ==
  s.asked # None /\ s.answer = None /\ s' = [s EXCEPT !.asked = None, !.read = [state |-> "lost"]]

Read ==
  /\ s.answer # None
  /\ s' = [s EXCEPT !.asked = None, !.answer = None, !.last = s.answer,
                    !.read = IF Taken(s.answer, s.asked)
                             THEN [state |-> "taken", honest |-> s.honest,
                                   results |-> ResultIn(s.answer), features |-> FeatureIn(s.answer)]
                             ELSE [state |-> "refused", honest |-> s.honest]]

Kinds == {"spin", "status", "pending", "ack", "session", "exchange"}
Lists == UNION {EventsOf(f) : f \in {[Base(1, 0) EXCEPT !.mode = m, !.awarded = a, !.total = t] :
                                       m \in {"", "EXPANSION", "OVERDRIVE"}, a \in {0, MaxSpins}, t \in 0..2}}
Next ==
  \/ \E kind \in Kinds : Ask(kind)
  \/ \E wins \in {<<>>, <<Way(2)>>}, events \in Lists : Settle(wins, events)
  \/ Refuse \/ Reply \/ Repeat \/ Foreign \/ GiveUp \/ Read

-----------------------------------------------------------------------------
TypeOK ==
  /\ s.requests \in 0..MaxRequests /\ s.round.seq \in 0..MaxRequests
  /\ s.feature.mode \in {"", "EXPANSION", "OVERDRIVE"} /\ s.feature.remaining \in 0..MaxSpins
  /\ {s.acked, s.honest} \subseteq BOOLEAN /\ s.read.state \in {"none", "taken", "refused", "lost"}

\* Whatever the engine puts into a round, however the cap cuts its amounts,
\* the browser takes the server's own answer, on every way to the round.
NothingRefused == s.read.state = "refused" => ~s.read.honest
\* Everything the engine set in an event, the amounts and the feature
\* arrive as they were set, on every way to the round.
SameFeature(got, sent) ==
  /\ got.mode = sent.mode /\ got.remaining = sent.remaining /\ got.played + got.remaining = sent.awarded
  /\ got.bet = sent.bet /\ got.win = sent.win /\ got.level = sent.level /\ got.total = sent.total
NothingLost ==
  s.read.state = "taken" /\ s.read.honest =>
    /\ \A i \in DOMAIN s.read.results :
         LET got == s.read.results[i]
             sent == s.round.result
         IN  /\ got.seq = s.round.seq /\ got.wins = sent.wins /\ got.total = sent.total
             /\ got.events = sent.events /\ SameFeature(got.feature, sent.feature)
    /\ \A i \in DOMAIN s.read.features : SameFeature(s.read.features[i], s.feature)
\* An answer that is repeated, or that belongs to another session or round,
\* is never taken for the answer to the request.
OwnAnswerOnly == s.read.state = "taken" => s.read.honest
=============================================================================
