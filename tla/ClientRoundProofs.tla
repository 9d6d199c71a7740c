--------------------------- MODULE ClientRoundProofs ---------------------------
(***************************************************************************)
(* Theorems about ClientRound, for any number of rounds and attempts, any  *)
(* scenarios and any interleaving of answers, timers, faults and reloads.  *)
(***************************************************************************)
EXTENDS ClientRound, FiniteSetTheorems, TLAPS

-----------------------------------------------------------------------------
(* The inductive invariant *)

Live == page.phase = "connected"
Kept == storage # NoLedger
Accepted(k) == calls[k].stage = "answered" /\ calls[k].reply.kind = "ok"
CommittedRounds == {r \in Rounds : server.round[r] = "committed"}

\* The revision counts the committed rounds; what was confirmed was shown, and
\* what was shown is committed.
ServerOK ==
  /\ server.rev = Cardinality(CommittedRounds)
  /\ server.acked \subseteq history.ever
  /\ history.ever \subseteq CommittedRounds
  /\ \A r \in Rounds : history.here[r] > 0 => r \in history.ever
  /\ budget.rounds <= MaxRounds

\* What a page has before it is connected and after it has stopped.
PagesOK ==
  /\ page.phase \in {"off", "new"} => calls = AllQuiet /\ timers = {}
  /\ page.phase = "new" => session = NoSession
  /\ page.parked => page.phase = "new"
  /\ page.phase \in {"new", "connecting"} =>
       /\ pending = NoPending /\ timers = {}
       /\ \A r \in Rounds : history.here[r] = 0
  /\ \A k \in Kinds : Active(k) =>
       \/ Live /\ k \notin {"exchange", "discover"}
       \/ page.phase = "connecting" /\ k \in {"exchange", "discover"}
  /\ Active("exchange") => session = NoSession
  /\ Active("discover") => /\ ~Kept /\ session > 0
                           /\ lastApplied.sequence <= session
  /\ Live => session >= 0 /\ lastApplied.sequence <= session

\* What each call and timer was started for.
CallsOK ==
  /\ \A k \in {"submit", "poll", "ack"} : Active(k) => Waiting
  /\ timers \intersect {"poll", "ack", "deadline"} # {} => Waiting
  /\ Active("poll") => pending.pollAttempts > 0
  /\ pending.pollDue \/ "poll" \in timers =>
       Waiting /\ pending.pollAttempts < maxPollAttempts
  /\ Active("ack") \/ "ack" \in timers => pending.delivered
  /\ Active("submit") \/ pending.resubmitOnNotFound =>
       Waiting /\ storage = [round |-> pending.round, start |-> pending.start]

\* What an answer says was true when it was given, and a verdict still is.
RepliesOK ==
  /\ \A k \in {"submit", "poll"} : calls[k].stage = "answered" =>
       /\ calls[k].reply.kind = "committed" => server.round[pending.round] = "committed"
       /\ calls[k].reply.kind = "rejected" => server.round[pending.round] = "rejected"
  /\ Accepted("ack") => pending.round \in server.acked
  /\ Accepted("discover") /\ calls["discover"].reply.round # NoRound =>
       server.round[calls["discover"].reply.round] = "committed"
  /\ \A k \in Kinds : calls[k].reply.rev <= server.rev

\* Nobody is ahead of the server.
BoundsOK ==
  /\ session <= server.rev
  /\ storage.start <= server.rev
  /\ pending.start <= server.rev
  /\ \A m \in wire : m.start <= server.rev
  /\ Kept => storage.round # NoRound
  /\ Kept /\ server.round[storage.round] = "committed" => storage.start < server.rev
  /\ Live /\ Waiting /\ server.round[pending.round] = "committed"
       => pending.start < server.rev

\* The round the page waits for is the one of its ledger; it was delivered
\* exactly when it is the last result applied, and not shown before.
PendingOK ==
  /\ pending.delivered => Waiting
  /\ Live /\ ~Waiting => ~Kept
  /\ Live /\ Waiting =>
       /\ Kept => storage = [round |-> pending.round, start |-> pending.start]
       /\ pending.start <= session
       /\ pending.delivered =>
            /\ lastApplied = [sequence |-> pending.start + 1, round |-> pending.round]
            /\ pending.start < session
            /\ pending.round \in history.ever
       /\ ~pending.delivered =>
            lastApplied.sequence <= pending.start /\ history.here[pending.round] = 0

ClientOK ==
  /\ TypeOK /\ ServerOK /\ PagesOK /\ CallsOK /\ RepliesOK /\ BoundsOK /\ PendingOK

-----------------------------------------------------------------------------
(* Types of what the handlers build *)

LEMMA Constants ==
  /\ MaxRounds \in Nat
  /\ maxPollAttempts \in Nat /\ maxPollAttempts > 0
  /\ acknowledgementMaxAttempts \in Nat /\ acknowledgementMaxAttempts > 0
  BY ClientAssumption

LEMMA ReplyType ==
  /\ NoReply \in Answers
  /\ \A e \in Replies : Reply(e) \in Answers
  /\ \A e \in Replies : Reply(e).kind = e /\ Reply(e).rev = 0 /\ Reply(e).round = NoRound
  BY Constants DEF Answers, NoReply, Reply, Replies, Retryable, NoRound

LEMMA QuietType ==
  /\ Quiet \in Calls
  /\ Quiet.stage = "idle" /\ Quiet.reply = NoReply
  /\ AllQuiet \in [Kinds -> Calls]
  /\ \A k \in Kinds : AllQuiet[k] = Quiet
  BY ReplyType, Constants DEF Calls, Quiet, AllQuiet

LEMMA PendingType ==
  /\ NoPending \in PendingRounds
  /\ NoPending.round = NoRound /\ NoPending.start = 0 /\ ~NoPending.delivered
  /\ ~NoPending.pollDue /\ ~NoPending.resubmitOnNotFound /\ ~NoPending.ackStarted
  /\ NoPending.pollAttempts = 0 /\ NoPending.ackAttempts = 0
  BY Constants DEF PendingRounds, NoPending, NoRound

\* A call that is sent, or waits for the token refresh under way.
LEMMA PostView ==
  ASSUME NEW cs \in [Kinds -> Calls], NEW k \in Kinds
  PROVE  /\ Post(cs, k) \in [Kinds -> Calls]
         /\ \A j \in Kinds \ {k} : Post(cs, k)[j] = cs[j]
         /\ Post(cs, k)[k].reply = NoReply
         /\ Post(cs, k)[k].stage = IF cs["refresh"].stage = "idle" THEN "sent" ELSE "await"
<1> DEFINE s == IF cs["refresh"].stage = "idle" THEN "sent" ELSE "await"
           q == [Quiet EXCEPT !.stage = s]
<1>1. s \in {"sent", "await"}
  OBVIOUS
<1> HIDE DEF s
<1>2. q \in Calls /\ q.reply = NoReply /\ q.stage = s
  <2>1. Quiet \in Calls /\ Quiet.reply = NoReply
    BY QuietType
  <2>2. QED
    BY <1>1, <2>1 DEF Calls
<1>3. Post(cs, k) = [cs EXCEPT ![k] = q]
  BY DEF Post, s
<1> HIDE DEF q
<1>4. QED
  BY <1>2, <1>3 DEF s

LEMMA EndedView ==
  ASSUME TypeOK, NEW k \in Kinds
  PROVE  /\ Ended(k) \in [Kinds -> Calls]
         /\ \A j \in Kinds \ {k} : Ended(k)[j] = calls[j]
         /\ Ended(k)[k] = Quiet
  BY QuietType DEF TypeOK, Ended

\* The refresh and status timers the scenario and the page allow.
LEMMA BackgroundType ==
  ASSUME TypeOK
  PROVE  /\ BackgroundTimers \subseteq {"refresh", "status"}
         /\ ScheduledPoll \subseteq {"poll"}
         /\ RetryTimers \subseteq timers \union {"ack"}
  BY DEF TypeOK, Scenario, BackgroundTimers, ScheduledPoll, RetryTimers

\* A submission on its way names a round.
LEMMA CommandType ==
  ASSUME TypeOK, CallsOK
  PROVE  /\ Active("submit") => Command \in Messages
         /\ Abandoned \subseteq Messages
         /\ \A m \in Abandoned : m \in wire \/ (calls["submit"].stage = "sent" /\ m = Command)
<1>1. Active("submit") => pending.round \in Rounds
  BY Constants DEF CallsOK, Waiting, TypeOK, PendingRounds, Rounds, NoRound
<1>2. Active("submit") => Command \in Messages
  BY <1>1 DEF TypeOK, PendingRounds, Command, Messages
<1>3. QED
  BY <1>2 DEF TypeOK, Abandoned, Active

LEMMA KeepType ==
  ASSUME TypeOK, NEW p \in PendingRounds, NEW ts \in SUBSET Timers,
         NEW cs \in [Kinds -> Calls], Keep(p, ts, cs)
  PROVE  TypeOK'
  BY DEF Keep, TypeOK

LEMMA TerminateType ==
  ASSUME TypeOK, CallsOK, NEW why \in Ends, Terminate(why)
  PROVE  TypeOK'
<1>1. page' \in Pages
  BY DEF Terminate, TypeOK, Pages
<1>2. wire' \subseteq Messages /\ calls' \in [Kinds -> Calls] /\ timers' \subseteq Timers
  BY CommandType, QuietType DEF Terminate
<1>3. session' \in -1 .. MaxRounds
  BY Constants DEF Terminate, NoSession
<1>4. QED
  BY <1>1, <1>2, <1>3 DEF Terminate, TypeOK

LEMMA CloseType ==
  ASSUME TypeOK, CallsOK, Close
  PROVE  TypeOK'
<1>1. page' \in Pages
  BY DEF Close, TypeOK, Pages, Ends
<1>2. wire' \subseteq Messages /\ calls' \in [Kinds -> Calls] /\ timers' \subseteq Timers
  BY CommandType, QuietType DEF Close
<1>3. session' \in -1 .. MaxRounds /\ pending' \in PendingRounds
  BY Constants, PendingType DEF Close, NoSession
<1>4. lastApplied' \in [sequence : 0 .. MaxRounds, round : 0 .. MaxRounds]
  BY Constants DEF Close, NoRound
<1>5. QED
  BY <1>1, <1>2, <1>3, <1>4 DEF Close, TypeOK

LEMMA FreshType == FreshPage \in Pages /\ NoLedger \in Ledgers
  BY Constants DEF FreshPage, Pages, Ends, NoLedger, Ledgers, NoRound

LEMMA RelaunchType ==
  ASSUME TypeOK, CallsOK, Relaunch
  PROVE  TypeOK'
<1>1. page' \in Pages /\ storage' \in Ledgers
  BY FreshType DEF Relaunch, TypeOK
<1>2. wire' \subseteq Messages /\ calls' \in [Kinds -> Calls] /\ timers' \subseteq Timers
  BY CommandType, QuietType DEF Relaunch
<1>3. session' \in -1 .. MaxRounds /\ pending' \in PendingRounds
  BY Constants, PendingType DEF Relaunch, NoSession
<1>4. lastApplied' \in [sequence : 0 .. MaxRounds, round : 0 .. MaxRounds]
  BY Constants DEF Relaunch, NoRound
<1>5. budget' \in Scenario
  BY DEF Relaunch, TypeOK, Scenario
<1>6. history' \in [here : [Rounds -> 0 .. 2], ever : SUBSET Rounds, asked : SUBSET Rounds]
  <2>1. [r \in Rounds |-> 0] \in [Rounds -> 0 .. 2]
    OBVIOUS
  <2>2. QED
    BY <2>1 DEF Relaunch, TypeOK
<1>7. QED
  BY <1>1, <1>2, <1>3, <1>4, <1>5, <1>6 DEF Relaunch, TypeOK

\* Forgetting the pending round.
LEMMA ClearView ==
  ASSUME TypeOK, CallsOK, NEW j \in {"submit", "poll", "ack"}, clearPending(Ended(j))
  PROVE  /\ TypeOK'
         /\ \A k \in {"submit", "poll", "ack"} : calls'[k] = Quiet
         /\ \A k \in Kinds \ {"submit", "poll", "ack"} : calls'[k] = calls[k]
         /\ wire' \subseteq Abandoned
         /\ \A m \in wire : m \in wire'
<1> DEFINE cs == Ended(j)
<1>1. cs \in [Kinds -> Calls] /\ (\A k \in Kinds \ {j} : cs[k] = calls[k]) /\ cs[j] = Quiet
  BY EndedView DEF Kinds, Authorized
<1> HIDE DEF cs
<1>2. /\ calls' \in [Kinds -> Calls]
      /\ \A k \in {"submit", "poll", "ack"} : calls'[k] = Quiet
      /\ \A k \in Kinds \ {"submit", "poll", "ack"} : calls'[k] = calls[k]
  BY <1>1, QuietType DEF clearPending, cs, Kinds, Authorized
<1>3. cs["submit"].stage = "sent" => calls["submit"].stage = "sent"
  BY <1>1, QuietType DEF Kinds, Authorized
<1>4. /\ wire' \subseteq Abandoned
      /\ \A m \in wire : m \in wire'
  BY <1>3 DEF clearPending, Abandoned, cs
<1>5. wire' \subseteq Messages /\ timers' \subseteq Timers
  BY <1>4, CommandType DEF clearPending, TypeOK
<1>6. storage' \in Ledgers /\ pending' \in PendingRounds
  BY FreshType, PendingType DEF clearPending
<1>7. QED
  BY <1>2, <1>4, <1>5, <1>6 DEF clearPending, TypeOK

-----------------------------------------------------------------------------
(* What the server may do *)

\* A round that is not committed leaves room for one more revision.
LEMMA Room ==
  ASSUME TypeOK, ServerOK, NEW r \in Rounds, server.round[r] # "committed"
  PROVE  server.rev + 1 \in 0 .. MaxRounds
<1>1. IsFiniteSet(Rounds) /\ Cardinality(Rounds) = MaxRounds
  BY FS_Interval, Constants DEF Rounds
<1>2. CommittedRounds \subseteq Rounds \ {r}
  BY DEF CommittedRounds
<1>3. IsFiniteSet(Rounds \ {r}) /\ Cardinality(Rounds \ {r}) = MaxRounds - 1
  BY <1>1, FS_RemoveElement
<1>4. Cardinality(CommittedRounds) <= MaxRounds - 1
  BY <1>2, <1>3, FS_Subset
<1>5. QED
  BY <1>4, Constants DEF ServerOK, TypeOK, Servers

\* One more committed round is one more to count.
LEMMA CountsOneMore ==
  ASSUME TypeOK, ServerOK, NEW r \in Rounds, server.round[r] # "committed"
  PROVE  Cardinality(CommittedRounds \union {r}) = server.rev + 1
<1>1. IsFiniteSet(Rounds)
  BY FS_Interval, Constants DEF Rounds
<1>2. IsFiniteSet(CommittedRounds) /\ r \notin CommittedRounds
  BY <1>1, FS_Subset DEF CommittedRounds
<1>3. QED
  BY <1>2, FS_AddElement DEF ServerOK

Verdicts == {"pending", "committed", "rejected", "review"}

\* The server moves a round on from absent or pending, and counts a commit.
Moved(t, r) ==
  /\ server.round[r] \in {"absent", "pending"}
  /\ t.round[r] \in Verdicts
  /\ \A q \in Rounds \ {r} : t.round[q] = server.round[q]
  /\ t.acked = server.acked
  /\ t.rev = IF t.round[r] = "committed" THEN server.rev + 1 ELSE server.rev

LEMMA SettledMoves ==
  ASSUME TypeOK, ServerOK, NEW r \in Rounds, NEW t,
         server.round[r] \in {"absent", "pending"}, t \in Settled(server, r)
  PROVE  t \in Servers /\ Moved(t, r)
<1>1. PICK n \in 0 .. MaxRounds : n = server.rev + 1
  BY Room
<1>2. CASE t = [server EXCEPT !.round[r] = "committed", !.rev = @ + 1]
  <2>1. t = [server EXCEPT !.round[r] = "committed", !.rev = n]
    BY <1>1, <1>2
  <2>2. /\ t \in Servers
        /\ t.round[r] = "committed" /\ t.acked = server.acked /\ t.rev = n
        /\ \A q \in Rounds \ {r} : t.round[q] = server.round[q]
    BY <2>1 DEF TypeOK, Servers
  <2>3. QED
    BY <1>1, <2>2 DEF Moved, Verdicts
<1>3. CASE \E v \in {"rejected", "review"} : t = [server EXCEPT !.round[r] = v]
  BY <1>3 DEF TypeOK, Servers, Moved, Verdicts
<1>4. QED
  BY <1>2, <1>3 DEF Settled

LEMMA AcceptedMoves ==
  ASSUME TypeOK, ServerOK, NEW m \in Messages, NEW t, t \in Accepts(server, m)
  PROVE  /\ t \in Servers
         /\ t # server => /\ Moved(t, m.round)
                          /\ server.round[m.round] = "absent"
                          /\ server.rev = m.start
                          /\ Unconfirmed(server) = {} /\ Unfinished(server) = {}
<1>1. m.round \in Rounds
  BY DEF Messages
<1>2. CASE t = server
  BY <1>2 DEF TypeOK
<1>3. CASE t # server
  <2>1. /\ server.round[m.round] = "absent" /\ server.rev = m.start
        /\ Unconfirmed(server) = {} /\ Unfinished(server) = {}
        /\ t \in {[server EXCEPT !.round[m.round] = "pending"]} \union Settled(server, m.round)
    BY <1>3 DEF Accepts
  <2>2. CASE t = [server EXCEPT !.round[m.round] = "pending"]
    BY <1>1, <2>1, <2>2 DEF TypeOK, Servers, Moved, Verdicts
  <2>3. CASE t \in Settled(server, m.round)
    BY <1>1, <2>1, <2>3, SettledMoves
  <2>4. QED
    BY <2>1, <2>2, <2>3
<1>4. QED
  BY <1>2, <1>3

\* What the answer of a call looks like when it starts back.
LEMMA ServedType ==
  ASSUME TypeOK, NEW k \in Kinds, NEW t \in Servers,
         k \in {"submit", "poll"} => pending.round \in Rounds
  PROVE  /\ Served(k, t) \in Answers
         /\ Served(k, t).rev <= t.rev
         /\ k \in {"submit", "poll"} =>
              /\ Served(k, t).kind = "committed" => t.round[pending.round] = "committed"
              /\ Served(k, t).kind = "rejected" => t.round[pending.round] = "rejected"
         /\ k \in {"discover", "refresh", "ack", "probe"} => Served(k, t).kind = "ok"
         /\ k \in {"refresh", "discover"} => Served(k, t).rev = t.rev
         /\ k = "exchange" /\ Served(k, t).kind = "ok" => Served(k, t).rev = t.rev
         /\ k = "discover" /\ Served(k, t).round # NoRound =>
              /\ Served(k, t).round \in Rounds
              /\ t.round[Served(k, t).round] = "committed"
              /\ Served(k, t).round \notin t.acked
<1>1. t.rev \in 0 .. MaxRounds /\ t.round \in [Rounds -> {"absent"} \union Verdicts]
  BY DEF Servers, Verdicts
<1>2. \A e \in {"fatal", "ok", "committed", "pending", "rejected", "review", "absent"} :
        e \in Replies
  BY DEF Replies
<1>3. 0 <= t.rev
  BY <1>1
<1>4. \A n \in 0 .. MaxRounds : [Reply("ok") EXCEPT !.rev = n] \in Answers
                                /\ [Reply("ok") EXCEPT !.rev = n].kind = "ok"
                                /\ [Reply("ok") EXCEPT !.rev = n].rev = n
  BY ReplyType, <1>2 DEF Answers
<1>5. CASE k = "submit"
  <2>1. Served(k, t) = SubmitReply(t, pending.round)
    BY <1>5 DEF Served
  <2>2. t.round[pending.round] \in {"absent"} \union Verdicts
    BY <1>1, <1>5
  <2>3. SubmitReply(t, pending.round) = Reply("fatal")
        \/ /\ t.round[pending.round] \in {"committed", "pending", "rejected"}
           /\ SubmitReply(t, pending.round) = Reply(t.round[pending.round])
    BY <2>2 DEF SubmitReply, Verdicts
  <2>4. QED
    BY <1>2, <1>3, <1>5, <2>1, <2>2, <2>3, ReplyType DEF Verdicts
<1>6. CASE k = "poll"
  <2>1. t.round[pending.round] \in {"absent"} \union Verdicts
    BY <1>1, <1>6
  <2>2. QED
    BY <1>2, <1>3, <1>6, <2>1, ReplyType DEF Served, Verdicts
<1>7. CASE k = "exchange"
  BY <1>1, <1>2, <1>3, <1>4, <1>7, ReplyType DEF Served
<1>8. CASE k = "refresh"
  <2>1. PICK a \in Answers : a = Served(k, t) /\ a.kind = "ok" /\ a.rev = t.rev
    BY <1>1, <1>4, <1>8 DEF Served
  <2>2. QED
    BY <1>1, <1>8, <2>1
<1>9. CASE k = "discover"
  <2>1. PICK q \in 0 .. MaxRounds :
          /\ q = IF Unconfirmed(t) = {} THEN NoRound ELSE CHOOSE r \in Unconfirmed(t) : TRUE
          /\ q # NoRound => q \in Unconfirmed(t)
    BY Constants DEF Unconfirmed, Rounds, NoRound
  <2>2. Served(k, t) = [Reply("ok") EXCEPT !.rev = t.rev, !.round = q]
    BY <1>9, <2>1 DEF Served
  <2>3. /\ Served(k, t) \in Answers
        /\ Served(k, t).kind = "ok" /\ Served(k, t).rev = t.rev
        /\ Served(k, t).round = q
    BY <1>1, <1>2, <2>2, ReplyType DEF Answers
  <2>4. t.rev <= t.rev
    BY <1>1
  <2>5. QED
    BY <1>9, <2>1, <2>3, <2>4 DEF Unconfirmed
<1>10. CASE k \in {"ack", "probe"}
  BY <1>2, <1>3, <1>10, ReplyType DEF Served
<1>11. QED
  BY <1>5, <1>6, <1>7, <1>8, <1>9, <1>10 DEF Kinds, Authorized

\* A call that got its answer.
LEMMA ServeView ==
  ASSUME TypeOK, ServerOK, PagesOK, CallsOK, PendingOK, NEW k \in Kinds, Serve(k)
  PROVE  /\ TypeOK'
         /\ calls[k].stage = "sent"
         /\ calls'[k].stage = "answered" /\ calls'[k].reply = Served(k, server')
         /\ calls'[k].base = calls[k].base
         /\ \A j \in Kinds \ {k} : calls'[j] = calls[j]
         /\ k \in {"submit", "poll"} => pending.round \in Rounds
         /\ k = "submit" => server' \in Accepts(server, Command) /\ Command \in Messages
         /\ k = "ack" => /\ pending.round \in Rounds
                         /\ server'.round = server.round /\ server'.rev = server.rev
                         /\ server'.acked = server.acked \union {pending.round}
         /\ k \notin {"submit", "ack"} => server' = server
<1>1. calls[k].stage = "sent" /\ Active(k)
  BY DEF Serve, Active
<1>2. k \in {"submit", "poll", "ack"} => pending.round \in Rounds
  BY <1>1, Constants DEF CallsOK, Waiting, TypeOK, PendingRounds, Rounds, NoRound
<1>3. k = "submit" => server' \in Accepts(server, Command) /\ Command \in Messages
  BY <1>1, CommandType DEF Serve
<1>4. k = "ack" => /\ server' \in Servers
                   /\ server'.round = server.round /\ server'.rev = server.rev
                   /\ server'.acked = server.acked \union {pending.round}
  BY <1>2 DEF Serve, TypeOK, Servers
<1>5. k \notin {"submit", "ack"} => server' = server
  BY DEF Serve
<1>6. server' \in Servers
  BY <1>3, <1>4, <1>5, AcceptedMoves DEF TypeOK
<1>7. PICK a \in Answers : a = Served(k, server')
  BY <1>2, <1>6, ServedType
<1>8. calls' = [calls EXCEPT ![k].stage = "answered", ![k].reply = a]
  BY <1>7 DEF Serve
<1>9. /\ calls' \in [Kinds -> Calls]
      /\ calls'[k].stage = "answered" /\ calls'[k].reply = a
      /\ calls'[k].base = calls[k].base
      /\ \A j \in Kinds \ {k} : calls'[j] = calls[j]
  BY <1>8 DEF TypeOK, Calls
<1>10. TypeOK'
  BY <1>6, <1>9 DEF Serve, TypeOK
<1>11. QED
  BY <1>1, <1>2, <1>3, <1>4, <1>5, <1>7, <1>9, <1>10

LEMMA SettleView ==
  ASSUME TypeOK, ServerOK, SettlePending
  PROVE  TypeOK' /\ \E r \in Rounds : Moved(server', r) /\ server.round[r] = "pending"
<1>1. PICK r \in Rounds : server.round[r] = "pending" /\ server' \in Settled(server, r)
  BY DEF SettlePending
<1>2. server' \in Servers /\ Moved(server', r)
  BY <1>1, SettledMoves
<1>3. QED
  BY <1>1, <1>2 DEF SettlePending, TypeOK

LEMMA ArriveView ==
  ASSUME TypeOK, ServerOK, ArriveLate
  PROVE  /\ TypeOK'
         /\ \E m \in wire : server' \in Accepts(server, m) /\ m \in Messages
         /\ wire' \subseteq wire
<1>1. PICK m \in wire : wire' = wire \ {m} /\ server' \in Accepts(server, m)
  BY DEF ArriveLate
<1>2. m \in Messages /\ server' \in Servers
  BY <1>1, AcceptedMoves DEF TypeOK
<1>3. QED
  BY <1>1, <1>2 DEF ArriveLate, TypeOK

\* A call that failed says nothing about its round.
Trouble == Retryable \union {"fatal", "timeout", "invalid", "unauthorized"}

LEMMA FaultView ==
  ASSUME TypeOK, CallsOK, NEW k \in Kinds, Fault(k)
  PROVE  /\ TypeOK'
         /\ calls[k].stage \in {"sent", "answered"}
         /\ calls'[k].stage = "answered" /\ calls'[k].base = calls[k].base
         /\ calls'[k].reply.kind \in Trouble
         /\ calls'[k].reply.rev = 0 /\ calls'[k].reply.round = NoRound
         /\ \A j \in Kinds \ {k} : calls'[j] = calls[j]
         /\ wire' = wire \/ /\ k = "submit" /\ calls[k].stage = "sent"
                            /\ wire' = wire \union {Command} /\ Command \in Messages
         /\ budget'.newTab = budget.newTab /\ budget'.rounds = budget.rounds
         /\ budget'.background = budget.background
<1>1. /\ budget' \in Scenario
      /\ budget'.newTab = budget.newTab /\ budget'.rounds = budget.rounds
      /\ budget'.background = budget.background
  <2>1. PICK n \in Nat : n = budget.faults - 1
    BY DEF Fault, TypeOK, Scenario
  <2>2. budget' = [budget EXCEPT !.faults = n]
    BY <2>1 DEF Fault
  <2>3. QED
    BY <2>2 DEF TypeOK, Scenario
<1>2. PICK e \in Trouble :
        /\ calls[k].stage \in {"sent", "answered"}
        /\ calls' = [calls EXCEPT ![k].stage = "answered", ![k].reply = Reply(e)]
        /\ wire' = wire \/ /\ k = "submit" /\ calls[k].stage = "sent"
                           /\ wire' = wire \union {Command}
  BY DEF Fault, Trouble, Retryable
<1>3. PICK a \in Answers : a = Reply(e) /\ a.kind = e /\ a.rev = 0 /\ a.round = NoRound
  <2>1. e \in Replies
    BY DEF Trouble, Replies
  <2>2. QED
    BY <2>1, ReplyType
<1>4. calls' = [calls EXCEPT ![k].stage = "answered", ![k].reply = a]
  BY <1>2, <1>3
<1>5. /\ calls' \in [Kinds -> Calls]
      /\ calls'[k].stage = "answered" /\ calls'[k].base = calls[k].base
      /\ calls'[k].reply = a
      /\ \A j \in Kinds \ {k} : calls'[j] = calls[j]
  BY <1>4 DEF TypeOK, Calls
<1>6. wire' \subseteq Messages
  BY <1>2, CommandType DEF TypeOK, Active
<1>7. TypeOK'
  BY <1>1, <1>5, <1>6 DEF Fault, TypeOK
<1>8. QED
  BY <1>1, <1>2, <1>3, <1>5, <1>7, CommandType DEF Active

-----------------------------------------------------------------------------
(* Kinds of step of a page *)

\* The page is gone: it may only leave a submission behind.
Stops ==
  /\ page'.phase = "off" /\ ~page'.parked /\ calls' = AllQuiet /\ timers' = {}
  /\ UNCHANGED <<server, storage, history, budget>>
  /\ wire' \subseteq Abandoned
  /\ session' \in {session, NoSession}
  /\ pending' \in {pending, NoPending}

\* A call starts: a submission is the one of the ledger, an acknowledgement
\* follows the delivery, and nothing is sent while the token is renewed.
Posts(cs, k) ==
  /\ Live /\ k \in Authorized
  /\ cs[k].stage \in {"sent", "await"} /\ cs[k].reply = NoReply
  /\ cs[k].stage = "sent" => calls["refresh"].stage = "idle" /\ cs["refresh"].stage = "idle"
  /\ k # "probe" => Waiting
  /\ k = "ack" => pending.delivered
  /\ k = "submit" => storage = [round |-> pending.round, start |-> pending.start]

\* A call that waited for the token goes out, or fails with it.
Resumes(cs, k) ==
  /\ calls[k].stage \in {"await", "renewing"} /\ cs["refresh"].stage = "idle"
  /\ \/ cs[k].stage = "sent" /\ cs[k].reply = calls[k].reply
     \/ /\ cs[k].stage = "answered" /\ cs[k].reply.kind \in Trouble
        /\ cs[k].reply.rev = 0 /\ cs[k].reply.round = NoRound

CallMove(cs, k) ==
  \/ /\ cs[k].stage = calls[k].stage /\ cs[k].reply = calls[k].reply
     /\ cs[k].base = calls[k].base
  \/ cs[k].stage = "idle" /\ cs[k].reply = NoReply
  \/ Posts(cs, k)
  \/ Resumes(cs, k)
  \/ /\ calls[k].stage = "answered" /\ k \in Authorized
     /\ cs[k].stage = "renewing" /\ cs[k].reply = NoReply
  \/ /\ Live /\ k = "refresh" /\ calls[k].stage = "idle"
     /\ cs[k].stage = "sent" /\ cs[k].reply = NoReply /\ cs[k].base = session

\* The calls go on, none of them turned into a poll.
CallsMove(cs) ==
  /\ cs \in [Kinds -> Calls]
  /\ \A k \in Kinds : CallMove(cs, k)
  /\ cs["poll"].stage # "idle" => Active("poll")

\* The pending round is the same one, with its timers and calls in order.
Steady(p, ts, cs) ==
  /\ p.round = pending.round /\ p.start = pending.start
  /\ p.resubmitOnNotFound => pending.resubmitOnNotFound \/ Active("submit")
  /\ p.pollDue \/ "poll" \in ts => Waiting /\ p.pollAttempts < maxPollAttempts
  /\ cs["poll"].stage # "idle" => p.pollAttempts > 0
  /\ "ack" \in ts => pending.delivered
  /\ "deadline" \in ts => Waiting
  /\ \A k \in Kinds : CallMove(cs, k)

\* The page goes on with the round it has.
Works ==
  /\ UNCHANGED <<server, wire, storage, session, lastApplied>>
  /\ history'.here = history.here /\ history'.ever = history.ever
  /\ page'.phase = page.phase /\ page'.end = page.end
  /\ page'.parked => page.parked \/ page.phase = "new"
  /\ budget'.newTab = budget.newTab /\ budget'.rounds = budget.rounds
  /\ pending'.delivered = pending.delivered
  /\ Steady(pending', timers', calls')
  /\ ~Live => UNCHANGED <<pending, timers, calls>>

\* The page is handed the result of its round.
Delivers ==
  /\ Live /\ Waiting /\ server.round[pending.round] = "committed"
  /\ lastApplied.sequence <= pending.start
  /\ UNCHANGED <<server, wire, storage, page, budget>>
  /\ \A r \in Rounds \ {pending.round} : history'.here[r] = history.here[r]
  /\ history.here[pending.round] = 0 => history'.here[pending.round] = 1
  /\ history'.ever = history.ever \union {pending.round}
  /\ lastApplied' = [sequence |-> pending.start + 1, round |-> pending.round]
  /\ session' = pending.start + 1
  /\ pending'.delivered
  /\ Steady(pending', timers', calls')

\* The round of the page is over: refused, or confirmed.
Clears ==
  /\ Live /\ Waiting
  /\ \/ server.round[pending.round] = "rejected"
     \/ /\ pending.delivered /\ pending.round \in server.acked
        /\ calls["ack"].stage = "answered"
  /\ storage' = NoLedger /\ pending' = NoPending
  /\ UNCHANGED <<server, page, session, lastApplied, history, budget>>
  /\ timers' = timers \ {"poll", "ack", "deadline"}
  /\ \A k \in {"submit", "poll", "ack"} : calls'[k] = Quiet
  /\ \A k \in Kinds \ {"submit", "poll", "ack"} : calls'[k] = calls[k]
  /\ wire' \subseteq Abandoned

Handles == TypeOK' /\ (Stops \/ Works \/ Delivers \/ Clears)

LEMMA TerminateStops ==
  ASSUME TypeOK, CallsOK, NEW why \in Ends, Terminate(why)
  PROVE  TypeOK' /\ Stops
<1>1. page'.phase = "off" /\ ~page'.parked
  BY DEF Terminate, TypeOK, Pages
<1>2. QED
  BY <1>1, TerminateType DEF Terminate, Stops

LEMMA KeepWorks ==
  ASSUME TypeOK, Live, NEW p \in PendingRounds, NEW ts \in SUBSET Timers,
         NEW cs \in [Kinds -> Calls], Keep(p, ts, cs), Steady(p, ts, cs),
         p.delivered = pending.delivered
  PROVE  TypeOK' /\ Works
<1>1. TypeOK'
  BY KeepType
<1>2. pending' = p /\ timers' = ts /\ calls' = cs
  BY DEF Keep
<1>3. Steady(pending', timers', calls')
  BY <1>2
<1>4. QED
  BY <1>1, <1>2, <1>3 DEF Keep, Works

\* A copy of the pending round that differs in what the page may do next.
SameRound(p) ==
  /\ p \in PendingRounds
  /\ p.round = pending.round /\ p.start = pending.start
  /\ p.delivered = pending.delivered
  /\ p.pollDue = pending.pollDue /\ p.pollAttempts = pending.pollAttempts
  /\ p.resubmitOnNotFound => pending.resubmitOnNotFound \/ Active("submit")

LEMMA SameRoundSteady ==
  ASSUME CallsOK, NEW p, SameRound(p), NEW ts, ts \subseteq timers, NEW cs, CallsMove(cs)
  PROVE  Steady(p, ts, cs)
  BY DEF SameRound, CallsMove, Steady, CallsOK

LEMMA schedulePollHandles ==
  ASSUME ClientOK, Live, Waiting, NEW p, SameRound(p), NEW cs, CallsMove(cs),
         schedulePoll(p, cs)
  PROVE  Handles
<1>1. CASE "poll" \in timers /\ Keep(p, timers, cs)
  BY <1>1, SameRoundSteady, KeepWorks DEF ClientOK, Handles, SameRound, CallsMove, TypeOK
<1>2. CASE \E why \in Ends : Terminate(why)
  BY <1>2, TerminateStops DEF ClientOK, Handles
<1>3. CASE /\ p.pollAttempts < maxPollAttempts
           /\ Keep([p EXCEPT !.pollDue = TRUE], timers \union ScheduledPoll, cs)
  <2>1. PICK q : q = [p EXCEPT !.pollDue = TRUE]
    OBVIOUS
  <2>2. /\ q \in PendingRounds
        /\ q.round = p.round /\ q.start = p.start /\ q.delivered = p.delivered
        /\ q.pollAttempts = p.pollAttempts
        /\ q.resubmitOnNotFound = p.resubmitOnNotFound
    BY <2>1 DEF SameRound, PendingRounds
  <2>3. PICK ts : ts = timers \union ScheduledPoll
    OBVIOUS
  <2>4. ts \in SUBSET Timers /\ ts \ timers \subseteq {"poll"}
    BY <2>3, BackgroundType DEF ClientOK, TypeOK, Timers
  <2>5. Keep(q, ts, cs)
    BY <1>3, <2>1, <2>3
  <2>6. Steady(q, ts, cs)
    BY <1>3, <2>2, <2>4 DEF SameRound, CallsMove, Steady, ClientOK, CallsOK
  <2>7. QED
    BY <2>2, <2>4, <2>5, <2>6, KeepWorks DEF ClientOK, Handles, SameRound, CallsMove
<1>4. QED
  BY <1>1, <1>2, <1>3 DEF schedulePoll, Ends

LEMMA WaitingRound ==
  ASSUME TypeOK, Waiting
  PROVE  pending.round \in Rounds
  BY Constants DEF TypeOK, PendingRounds, Waiting, Rounds, NoRound

LEMMA EndedMoves ==
  ASSUME TypeOK, NEW k \in Kinds
  PROVE  CallsMove(Ended(k))
  BY EndedView, QuietType DEF CallsMove, CallMove, Active, Kinds, Authorized

\* What showing a round leaves in the history.
LEMMA ShownView ==
  ASSUME TypeOK, NEW r \in Rounds, history' = ShownBy(r)
  PROVE  /\ history' \in [here : [Rounds -> 0 .. 2], ever : SUBSET Rounds,
                          asked : SUBSET Rounds]
         /\ \A q \in Rounds \ {r} : history'.here[q] = history.here[q]
         /\ history.here[r] = 0 => history'.here[r] = 1
         /\ history'.ever = history.ever \union {r}
<1>1. PICK n \in 0 .. 2 : n = IF history.here[r] < 2 THEN history.here[r] + 1 ELSE history.here[r]
  BY DEF TypeOK
<1>2. history' = [history EXCEPT !.here[r] = n, !.ever = @ \union {r}]
  BY <1>1 DEF ShownBy
<1>3. history.here[r] = 0 => n = 1
  BY <1>1
<1>4. QED
  BY <1>2, <1>3 DEF TypeOK

LEMMA acceptCommittedHandles ==
  ASSUME ClientOK, Live, Waiting, server.round[pending.round] = "committed",
         NEW p, SameRound(p), NEW cs, CallsMove(cs), acceptCommitted(p, cs)
  PROVE  Handles
<1>0. TypeOK /\ CallsOK /\ timers \in SUBSET Timers
  BY DEF ClientOK, TypeOK
<1>1. CASE Keep(p, timers, cs)
  BY <1>0, <1>1, SameRoundSteady, KeepWorks DEF Handles, SameRound, CallsMove
<1>2. CASE Terminate("protocol")
  BY <1>0, <1>2, TerminateStops DEF Handles, Ends
<1>3. CASE /\ classifySpinResult(p) = "accept"
           /\ history' = ShownBy(p.round)
           /\ lastApplied' = [sequence |-> ResultSequence(p), round |-> p.round]
           /\ session' = ResultSequence(p)
           /\ pending' = [p EXCEPT !.delivered = TRUE, !.ackInFlight = FALSE, !.pollDue = FALSE]
           /\ timers' = timers \ {"poll"}
           /\ calls' = cs
           /\ UNCHANGED <<server, wire, storage, page, budget>>
  <2>1. PICK n \in 0 .. MaxRounds : n = pending.start + 1
    BY <1>0, Constants DEF ClientOK, BoundsOK, TypeOK, PendingRounds, Servers
  <2>2. n = ResultSequence(p) /\ pending.round = p.round /\ pending.start = p.start
    BY <2>1 DEF ResultSequence, SameRound
  <2>3. lastApplied.sequence <= pending.start
    <3>1. lastApplied.sequence < n
      BY <1>0, <1>3, <2>2 DEF classifySpinResult, TypeOK
    <3>2. QED
      BY <1>0, <2>1, <3>1 DEF TypeOK, PendingRounds
  <2>4. lastApplied' = [sequence |-> n, round |-> pending.round] /\ session' = n
    BY <1>3, <2>2
  <2>5. /\ pending' \in PendingRounds
        /\ pending'.round = p.round /\ pending'.start = p.start
        /\ pending'.delivered /\ ~pending'.pollDue
        /\ pending'.pollAttempts = p.pollAttempts
        /\ pending'.resubmitOnNotFound = p.resubmitOnNotFound
    BY <1>3 DEF SameRound, PendingRounds
  <2>6. pending.round \in Rounds
    BY <1>0, WaitingRound
  <2>7. /\ history' \in [here : [Rounds -> 0 .. 2], ever : SUBSET Rounds, asked : SUBSET Rounds]
        /\ \A r \in Rounds \ {pending.round} : history'.here[r] = history.here[r]
        /\ history.here[pending.round] = 0 => history'.here[pending.round] = 1
        /\ history'.ever = history.ever \union {pending.round}
    BY <1>0, <1>3, <2>2, <2>6, ShownView
  <2>8. TypeOK'
    <3>1. lastApplied' \in [sequence : 0 .. MaxRounds, round : 0 .. MaxRounds]
      BY <2>4, <2>6 DEF Rounds
    <3>2. session' \in -1 .. MaxRounds
      BY <2>4, Constants
    <3>3. QED
      BY <1>0, <1>3, <2>5, <2>7, <3>1, <3>2 DEF TypeOK, CallsMove
  <2>9. Steady(pending', timers', calls')
    BY <1>0, <1>3, <2>5 DEF Steady, SameRound, CallsMove, CallsOK
  <2>10. lastApplied' = [sequence |-> pending.start + 1, round |-> pending.round]
         /\ session' = pending.start + 1
    BY <2>1, <2>4
  <2>11. Delivers
    BY <1>3, <2>3, <2>5, <2>7, <2>9, <2>10 DEF Delivers
  <2>12. QED
    BY <2>8, <2>11 DEF Handles
<1>4. QED
  BY <1>1, <1>2, <1>3 DEF acceptCommitted

\* An answered submission or query belongs to the connected page and its round.
LEMMA AnsweredRound ==
  ASSUME ClientOK, NEW k \in Kinds, k \notin {"exchange", "discover"}, Active(k)
  PROVE  Live /\ (k \in {"submit", "poll", "ack"} => Waiting)
  BY DEF ClientOK, PagesOK, CallsOK

LEMMA clearPendingHandles ==
  ASSUME ClientOK, NEW j \in {"submit", "poll", "ack"}, Active(j),
         clearPending(Ended(j)),
         \/ server.round[pending.round] = "rejected"
         \/ /\ pending.delivered /\ pending.round \in server.acked
            /\ calls["ack"].stage = "answered"
  PROVE  Handles
<1>1. TypeOK /\ CallsOK /\ Live /\ Waiting
  BY AnsweredRound DEF ClientOK, Kinds, Authorized
<1>2. QED
  BY <1>1, ClearView DEF Clears, clearPending, Handles

LEMMA FinishSubmitHandles ==
  ASSUME ClientOK, FinishSubmit
  PROVE  Handles
<1> DEFINE e == calls["submit"].reply.kind
           p == [pending EXCEPT !.resubmitOnNotFound = e \in {"network", "busy"}]
<1>1. Active("submit") /\ calls["submit"].stage = "answered" /\ "submit" \in Kinds
  BY DEF FinishSubmit, Answered, Active, Kinds, Authorized
<1>2. TypeOK /\ CallsOK /\ Live /\ Waiting
  BY <1>1, AnsweredRound DEF ClientOK
<1>3. CallsMove(Ended("submit")) /\ SameRound(pending) /\ timers \in SUBSET Timers
  BY <1>1, <1>2, EndedMoves DEF SameRound, TypeOK
<1>4. SameRound(p)
  <2>1. p = [pending EXCEPT !.resubmitOnNotFound = TRUE]
        \/ p = [pending EXCEPT !.resubmitOnNotFound = FALSE]
    <3>1. CASE e \in {"network", "busy"}
      BY <3>1, Zenon
    <3>2. CASE e \notin {"network", "busy"}
      <4>1. (e \in {"network", "busy"}) = FALSE
        BY <3>2, SMT
      <4>2. QED
        BY <4>1, Zenon
    <3>3. QED
      BY <3>1, <3>2
  <2> HIDE DEF p
  <2>2. QED
    BY <1>1, <1>2, <2>1 DEF SameRound, TypeOK, PendingRounds
<1>5. CASE e = "committed" /\ acceptCommitted(pending, Ended("submit"))
  BY <1>1, <1>2, <1>3, <1>5, acceptCommittedHandles DEF ClientOK, RepliesOK
<1>6. CASE schedulePoll(pending, Ended("submit"))
  BY <1>2, <1>3, <1>6, schedulePollHandles
<1>7. CASE Keep(pending, timers, Ended("submit"))
  BY <1>2, <1>3, <1>7, SameRoundSteady, KeepWorks DEF Handles, CallsMove, SameRound
<1>8. CASE e = "rejected" /\ clearPending(Ended("submit"))
  BY <1>1, <1>8, clearPendingHandles DEF ClientOK, RepliesOK
<1>9. CASE schedulePoll(p, Ended("submit"))
  <2>1. PICK q : q = p
    OBVIOUS
  <2>2. SameRound(q) /\ schedulePoll(q, Ended("submit"))
    BY <1>4, <1>9, <2>1
  <2>3. QED
    BY <1>2, <1>3, <2>2, schedulePollHandles
<1>10. CASE \E why \in Ends : Terminate(why)
  BY <1>2, <1>10, TerminateStops DEF Handles
<1>11. QED
  BY <1>5, <1>6, <1>7, <1>8, <1>9, <1>10 DEF FinishSubmit, Ends

\* Starting a call is a move of the calls.
LEMMA PostMoves ==
  ASSUME TypeOK, Live, NEW cs \in [Kinds -> Calls],
         \A j \in Kinds : CallMove(cs, j),
         cs["refresh"] = calls["refresh"], NEW k \in Authorized,
         k # "probe" => Waiting, k = "ack" => pending.delivered,
         k = "submit" => storage = [round |-> pending.round, start |-> pending.start]
  PROVE  /\ Post(cs, k) \in [Kinds -> Calls]
         /\ \A j \in Kinds : CallMove(Post(cs, k), j)
         /\ \A j \in Kinds \ {k} : Post(cs, k)[j] = cs[j]
         /\ Post(cs, k)["refresh"] = calls["refresh"]
<1>1. k \in Kinds /\ "refresh" \in Kinds /\ k # "refresh"
  BY DEF Kinds, Authorized
<1>2. PICK d \in [Kinds -> Calls] :
         /\ d = Post(cs, k)
         /\ \A j \in Kinds \ {k} : d[j] = cs[j]
         /\ d[k].reply = NoReply
         /\ d[k].stage = IF cs["refresh"].stage = "idle" THEN "sent" ELSE "await"
  BY <1>1, PostView
<1>3. d["refresh"] = calls["refresh"]
  BY <1>1, <1>2
<1>4. CallMove(d, k)
  BY <1>2, <1>3 DEF CallMove, Posts
<1>5. \A j \in Kinds \ {k} : CallMove(d, j)
  BY <1>2, <1>3 DEF CallMove, Posts, Resumes
<1>6. QED
  BY <1>1, <1>2, <1>3, <1>4, <1>5

LEMMA CallsStay ==
  ASSUME TypeOK
  PROVE  CallsMove(calls) /\ \A j \in Kinds : CallMove(calls, j)
  BY DEF TypeOK, CallsMove, CallMove, Active

\* Only a connected page has timers.
LEMMA TimerLive ==
  ASSUME ClientOK, timers # {}
  PROVE  Live
<1>1. page.phase \in {"new", "connecting", "connected", "off"}
  BY DEF ClientOK, TypeOK, Pages
<1>2. QED
  BY <1>1 DEF ClientOK, PagesOK, Live

LEMMA PollTimerHandles ==
  ASSUME ClientOK, PollTimer
  PROVE  Handles
<1>1. /\ "poll" \in timers /\ TypeOK /\ CallsOK /\ Live /\ Waiting
      /\ pending.pollAttempts < maxPollAttempts /\ timers \ {"poll"} \in SUBSET Timers
  <2>1. "poll" \in timers /\ TypeOK /\ CallsOK /\ timers \ {"poll"} \in SUBSET Timers
    BY DEF PollTimer, ClientOK, TypeOK
  <2>2. Live /\ Waiting /\ pending.pollAttempts < maxPollAttempts
    BY <2>1, TimerLive DEF CallsOK
  <2>3. QED
    BY <2>1, <2>2
<1>2. CASE Keep([pending EXCEPT !.pollDue = FALSE], timers \ {"poll"}, calls)
  <2>1. PICK q : q = [pending EXCEPT !.pollDue = FALSE]
    OBVIOUS
  <2>2. /\ q \in PendingRounds /\ q.round = pending.round /\ q.start = pending.start
        /\ q.delivered = pending.delivered /\ q.pollAttempts = pending.pollAttempts
        /\ q.resubmitOnNotFound = pending.resubmitOnNotFound /\ ~q.pollDue
    BY <1>1, <2>1 DEF TypeOK, PendingRounds
  <2>3. Steady(q, timers \ {"poll"}, calls)
    BY <1>1, <2>2, CallsStay DEF Steady, CallsOK, Active
  <2>4. QED
    BY <1>1, <1>2, <2>1, <2>2, <2>3, KeepWorks DEF Handles, TypeOK
<1>3. CASE Keep([pending EXCEPT !.pollDue = FALSE, !.pollAttempts = @ + 1],
                timers \ {"poll"}, Post(calls, "poll"))
  <2>1. PICK n \in 0 .. maxPollAttempts : n = pending.pollAttempts + 1 /\ n > 0
    BY <1>1, Constants DEF TypeOK, PendingRounds
  <2>2. PICK q : q = [pending EXCEPT !.pollDue = FALSE, !.pollAttempts = n]
    OBVIOUS
  <2>3. /\ q \in PendingRounds /\ q.round = pending.round /\ q.start = pending.start
        /\ q.delivered = pending.delivered /\ q.pollAttempts = n
        /\ q.resubmitOnNotFound = pending.resubmitOnNotFound /\ ~q.pollDue
    BY <1>1, <2>2 DEF TypeOK, PendingRounds
  <2>4. PICK cs \in [Kinds -> Calls] :
          cs = Post(calls, "poll") /\ \A j \in Kinds : CallMove(cs, j)
    BY <1>1, PostMoves, CallsStay DEF TypeOK, Authorized
  <2>5. Steady(q, timers \ {"poll"}, cs)
    BY <1>1, <2>1, <2>3, <2>4 DEF Steady, CallsOK
  <2>6. Keep(q, timers \ {"poll"}, cs)
    BY <1>3, <2>1, <2>2, <2>4
  <2>7. QED
    BY <1>1, <2>3, <2>5, <2>6, KeepWorks DEF Handles
<1>4. QED
  BY <1>2, <1>3 DEF PollTimer

LEMMA FinishPollHandles ==
  ASSUME ClientOK, FinishPoll
  PROVE  Handles
<1> DEFINE e == calls["poll"].reply.kind
           cs == Ended("poll")
<1>1. Active("poll") /\ calls["poll"].stage = "answered" /\ "poll" \in Kinds
  BY DEF FinishPoll, Answered, Active, Kinds, Authorized
<1>2. TypeOK /\ CallsOK /\ Live /\ Waiting /\ pending.pollAttempts > 0
  BY <1>1, AnsweredRound DEF ClientOK, CallsOK
<1>3. CallsMove(cs) /\ SameRound(pending) /\ timers \in SUBSET Timers
  BY <1>1, <1>2, EndedMoves DEF SameRound, TypeOK
<1>4. cs["poll"].stage = "idle" /\ cs["refresh"] = calls["refresh"]
  BY <1>1, <1>2, EndedView, QuietType DEF Kinds
<1>5. PICK seen : seen = [pending EXCEPT !.resubmitOnNotFound = FALSE]
  OBVIOUS
<1>6. SameRound(seen) /\ ~seen.resubmitOnNotFound
  BY <1>2, <1>5 DEF SameRound, TypeOK, PendingRounds
<1>7. PICK n \in 0 .. maxPollAttempts : n = seen.pollAttempts - 1
  BY <1>2, <1>6, Constants DEF SameRound, PendingRounds
<1>8. PICK later : later = [seen EXCEPT !.pollAttempts = n]
  OBVIOUS
<1>9. /\ later \in PendingRounds /\ later.round = pending.round
      /\ later.start = pending.start /\ later.delivered = pending.delivered
      /\ later.pollDue = pending.pollDue /\ later.pollAttempts = n
      /\ ~later.resubmitOnNotFound
  BY <1>6, <1>8 DEF SameRound, PendingRounds
<1>10. PICK ds : ds = cs
  OBVIOUS
<1>11. CallsMove(ds) /\ ds \in [Kinds -> Calls]
  BY <1>3, <1>10 DEF CallsMove
<1>12. CASE Keep(later, timers, cs)
  <2>1. n < pending.pollAttempts
    BY <1>2, <1>6, <1>7 DEF SameRound, TypeOK, PendingRounds
  <2>2. Steady(later, timers, ds)
    BY <1>2, <1>3, <1>4, <1>9, <1>10, <1>11, <2>1, Constants
    DEF Steady, CallsMove, CallsOK, TypeOK, PendingRounds
  <2>3. QED
    BY <1>2, <1>3, <1>9, <1>10, <1>11, <1>12, <2>2, KeepWorks DEF Handles
<1>13. CASE e = "committed" /\ acceptCommitted(seen, cs)
  BY <1>1, <1>2, <1>3, <1>6, <1>13, acceptCommittedHandles DEF ClientOK, RepliesOK
<1>14. CASE e = "rejected" /\ clearPending(cs)
  BY <1>1, <1>14, clearPendingHandles DEF ClientOK, RepliesOK
<1>15. CASE schedulePoll(seen, cs) \/ schedulePoll(pending, cs)
  BY <1>2, <1>3, <1>6, <1>15, schedulePollHandles
<1>16. CASE pending.resubmitOnNotFound /\ Keep(seen, timers, Post(cs, "submit"))
  <2>1. storage = [round |-> pending.round, start |-> pending.start]
    BY <1>2, <1>16 DEF CallsOK
  <2>2. PICK ps \in [Kinds -> Calls] : /\ ps = Post(ds, "submit")
                                       /\ \A j \in Kinds : CallMove(ps, j)
                                       /\ ps["poll"] = ds["poll"]
    BY <1>1, <1>2, <1>4, <1>10, <1>11, <2>1, PostMoves DEF CallsMove, Authorized
  <2>3. Steady(seen, timers, ps)
    BY <1>2, <1>4, <1>6, <1>10, <2>2 DEF Steady, SameRound, CallsOK
  <2>4. Keep(seen, timers, ps)
    BY <1>16, <1>10, <2>2
  <2>5. QED
    BY <1>2, <1>3, <1>6, <2>2, <2>3, <2>4, KeepWorks DEF Handles, SameRound
<1>17. CASE \E why \in Ends : Terminate(why)
  BY <1>2, <1>17, TerminateStops DEF Handles
<1>18. QED
  BY <1>5, <1>7, <1>8, <1>12, <1>13, <1>14, <1>15, <1>16, <1>17 DEF FinishPoll, Ends

\* One more attempt to confirm the delivered result.
LEMMA ConfirmWorks ==
  ASSUME ClientOK, Live, pending.delivered, NEW p, SameRound(p),
         p.ackAttempts < acknowledgementMaxAttempts,
         NEW ts, ts \subseteq timers,
         Keep([p EXCEPT !.ackAttempts = @ + 1], ts, Post(calls, "ack"))
  PROVE  Handles
<1>1. TypeOK /\ CallsOK /\ Waiting /\ ts \in SUBSET Timers
  BY DEF ClientOK, PendingOK, TypeOK
<1>2. PICK n \in 0 .. acknowledgementMaxAttempts : n = p.ackAttempts + 1
  BY Constants DEF SameRound, PendingRounds
<1>3. PICK q : q = [p EXCEPT !.ackAttempts = n]
  OBVIOUS
<1>4. /\ q \in PendingRounds /\ q.round = p.round /\ q.start = p.start
      /\ q.delivered = p.delivered /\ q.pollAttempts = p.pollAttempts
      /\ q.pollDue = p.pollDue /\ q.resubmitOnNotFound = p.resubmitOnNotFound
  BY <1>3 DEF SameRound, PendingRounds
<1>5. PICK cs \in [Kinds -> Calls] :
        /\ cs = Post(calls, "ack") /\ cs["poll"] = calls["poll"]
        /\ \A j \in Kinds : CallMove(cs, j)
  BY <1>1, PostMoves, CallsStay DEF TypeOK, Authorized, Kinds
<1>6. Steady(q, ts, cs)
  BY <1>1, <1>4, <1>5 DEF Steady, SameRound, CallsOK, Active
<1>7. Keep(q, ts, cs)
  BY <1>2, <1>3, <1>5
<1>8. QED
  BY <1>1, <1>4, <1>5, <1>6, <1>7, KeepWorks DEF Handles, SameRound

LEMMA AcknowledgementTimerHandles ==
  ASSUME ClientOK, AcknowledgementTimer
  PROVE  Handles
<1>1. /\ "ack" \in timers /\ TypeOK /\ CallsOK
      /\ timers \ {"ack"} \in SUBSET Timers /\ timers \ {"ack"} \subseteq timers
  BY DEF AcknowledgementTimer, ClientOK, TypeOK
<1>2. Live /\ Waiting /\ pending.delivered
  BY <1>1, TimerLive DEF CallsOK
<1>3. PICK p : p = [pending EXCEPT !.ackNotBefore = FALSE]
  OBVIOUS
<1>4. SameRound(p)
  BY <1>1, <1>3 DEF SameRound, TypeOK, PendingRounds
<1>5. CASE Keep(p, timers \ {"ack"}, calls)
  BY <1>1, <1>2, <1>4, <1>5, SameRoundSteady, CallsStay, KeepWorks
  DEF Handles, SameRound, TypeOK
<1>6. CASE submitResultAcknowledgement(p, timers \ {"ack"})
  <2>1. CASE Terminate("window")
    BY <1>1, <2>1, TerminateStops DEF Handles, Ends
  <2>2. CASE Keep(p, timers \ {"ack"}, calls)
    BY <1>5, <2>2
  <2>3. CASE /\ AcknowledgementAllowed(p)
             /\ Keep([p EXCEPT !.ackAttempts = @ + 1], timers \ {"ack"}, Post(calls, "ack"))
    BY <1>1, <1>2, <1>4, <2>3, ConfirmWorks DEF AcknowledgementAllowed
  <2>4. QED
    BY <1>6, <2>1, <2>2, <2>3 DEF submitResultAcknowledgement
<1>7. QED
  BY <1>3, <1>5, <1>6 DEF AcknowledgementTimer

LEMMA acknowledgeSpinResultHandles ==
  ASSUME ClientOK, acknowledgeSpinResult
  PROVE  Handles
<1> DEFINE begun == IF pending.ackStarted THEN pending
                    ELSE [pending EXCEPT !.ackStarted = TRUE, !.windowOpen = TRUE]
<1>1. /\ Live /\ pending.delivered /\ TypeOK /\ CallsOK
      /\ calls["ack"].stage = "idle" /\ Waiting
  BY DEF acknowledgeSpinResult, Confirmable, Live, ClientOK, PendingOK, Active
<1>2. CASE Terminate("window")
  BY <1>1, <1>2, TerminateStops DEF Handles, Ends
<1>3. CASE /\ AcknowledgementAllowed(begun)
           /\ history' = [history EXCEPT !.asked = @ \union {pending.round}]
           /\ pending' = [begun EXCEPT !.ackInFlight = TRUE,
                                       !.ackAttempts = IF page.online THEN @ + 1 ELSE @]
           /\ timers' = timers \union {"deadline"}
           /\ calls' = IF page.online THEN Post(calls, "ack") ELSE calls
           /\ UNCHANGED <<server, wire, storage, page, session, lastApplied, budget>>
  <2>1. PICK p : p = begun
    OBVIOUS
  <2>2. SameRound(p)
    BY <1>1, <2>1 DEF SameRound, TypeOK, PendingRounds
  <2>3. PICK n \in 0 .. acknowledgementMaxAttempts :
          n = IF page.online THEN p.ackAttempts + 1 ELSE p.ackAttempts
    <3>1. p.ackAttempts \in 0 .. acknowledgementMaxAttempts
      BY <2>2 DEF SameRound, PendingRounds
    <3>2. p.ackAttempts < acknowledgementMaxAttempts
      BY <1>3, <2>1 DEF AcknowledgementAllowed
    <3>3. QED
      BY <3>1, <3>2, Constants
  <2>4. pending' = [p EXCEPT !.ackInFlight = TRUE, !.ackAttempts = n]
    BY <1>3, <2>1, <2>3
  <2>5. /\ pending' \in PendingRounds /\ pending'.round = p.round
        /\ pending'.start = p.start /\ pending'.delivered = p.delivered
        /\ pending'.pollAttempts = p.pollAttempts /\ pending'.pollDue = p.pollDue
        /\ pending'.resubmitOnNotFound = p.resubmitOnNotFound
    BY <2>2, <2>4 DEF SameRound, PendingRounds
  <2>6. PICK cs \in [Kinds -> Calls] :
          /\ cs = calls' /\ cs["poll"] = calls["poll"]
          /\ \A j \in Kinds : CallMove(cs, j)
    BY <1>1, <1>3, PostMoves, CallsStay DEF TypeOK, Authorized, Kinds
  <2>7. Steady(pending', timers', cs)
    BY <1>1, <1>3, <2>2, <2>5, <2>6 DEF Steady, SameRound, CallsOK, Active
  <2>8. /\ history' \in [here : [Rounds -> 0 .. 2], ever : SUBSET Rounds, asked : SUBSET Rounds]
        /\ history'.here = history.here /\ history'.ever = history.ever
    BY <1>1, <1>3, WaitingRound DEF TypeOK
  <2>9. TypeOK'
    BY <1>1, <1>3, <2>5, <2>6, <2>8 DEF TypeOK, Timers
  <2>10. Works
    BY <1>1, <1>3, <2>2, <2>5, <2>6, <2>7, <2>8 DEF Works, SameRound
  <2>11. QED
    BY <2>9, <2>10 DEF Handles
<1>4. QED
  BY <1>2, <1>3 DEF acknowledgeSpinResult

LEMMA FinishAcknowledgementHandles ==
  ASSUME ClientOK, FinishAcknowledgement
  PROVE  Handles
<1> DEFINE e == calls["ack"].reply.kind
           cs == Ended("ack")
<1>1. Active("ack") /\ calls["ack"].stage = "answered" /\ "ack" \in Kinds
  BY DEF FinishAcknowledgement, Answered, Active, Kinds, Authorized
<1>2. TypeOK /\ CallsOK /\ Live /\ Waiting /\ pending.delivered
  BY <1>1, AnsweredRound DEF ClientOK, CallsOK
<1>3. PICK ds : ds = cs
  OBVIOUS
<1>4. CallsMove(ds) /\ ds \in [Kinds -> Calls] /\ timers \in SUBSET Timers
  BY <1>1, <1>2, <1>3, EndedMoves DEF CallsMove, TypeOK
<1>5. CASE e = "ok" /\ clearPending(cs)
  <2>1. pending.round \in server.acked
    BY <1>1, <1>5 DEF ClientOK, RepliesOK, Accepted
  <2>2. QED
    BY <1>1, <1>2, <1>5, <2>1, clearPendingHandles
<1>6. CASE Keep([pending EXCEPT !.ackNotBefore = TRUE], RetryTimers, cs)
  <2>1. PICK p : p = [pending EXCEPT !.ackNotBefore = TRUE]
    OBVIOUS
  <2>2. SameRound(p)
    BY <1>2, <2>1 DEF SameRound, TypeOK, PendingRounds
  <2>3. PICK ts : ts = RetryTimers
    OBVIOUS
  <2>4. ts \in SUBSET Timers /\ ts \subseteq timers \union {"ack"}
    BY <1>2, <2>3, BackgroundType DEF TypeOK, Timers
  <2>5. Steady(p, ts, ds)
    BY <1>2, <1>4, <2>2, <2>4 DEF Steady, SameRound, CallsMove, CallsOK
  <2>6. Keep(p, ts, ds)
    BY <1>3, <1>6, <2>1, <2>3
  <2>7. QED
    BY <1>2, <1>4, <2>2, <2>4, <2>5, <2>6, KeepWorks DEF Handles, SameRound
<1>7. CASE Keep([pending EXCEPT !.ackInFlight = FALSE], timers, cs)
  <2>1. PICK p : p = [pending EXCEPT !.ackInFlight = FALSE]
    OBVIOUS
  <2>2. SameRound(p)
    BY <1>2, <2>1 DEF SameRound, TypeOK, PendingRounds
  <2>3. Keep(p, timers, ds)
    BY <1>3, <1>7, <2>1
  <2>4. QED
    BY <1>2, <1>4, <2>2, <2>3, SameRoundSteady, KeepWorks DEF Handles, SameRound
<1>8. CASE \E why \in Ends : Terminate(why)
  BY <1>2, <1>8, TerminateStops DEF Handles
<1>9. QED
  BY <1>5, <1>6, <1>7, <1>8 DEF FinishAcknowledgement, Ends

LEMMA WindowClosesHandles ==
  ASSUME ClientOK, WindowCloses
  PROVE  Handles
<1>1. PICK p : p = [pending EXCEPT !.windowOpen = FALSE]
  OBVIOUS
<1>2. TypeOK /\ CallsOK /\ timers \in SUBSET Timers /\ calls \in [Kinds -> Calls]
  BY DEF ClientOK, TypeOK
<1>3. SameRound(p)
  BY <1>1, <1>2 DEF SameRound, TypeOK, PendingRounds
<1>4. Steady(p, timers, calls)
  BY <1>2, <1>3, SameRoundSteady, CallsStay
<1>5. Keep(p, timers, calls) /\ pending.windowOpen
  BY <1>1 DEF WindowCloses
<1>6. Live
  <2>1. page.phase \in {"new", "connecting", "connected", "off"} /\ page.phase # "off"
    BY <1>2 DEF TypeOK, Pages, WindowCloses, Open
  <2>2. ~NoPending.windowOpen
    BY DEF NoPending
  <2>3. QED
    BY <1>5, <2>1, <2>2 DEF ClientOK, PagesOK, Live
<1>7. QED
  BY <1>2, <1>3, <1>4, <1>5, <1>6, KeepWorks DEF Handles, SameRound

LEMMA DeadlineTimerHandles ==
  ASSUME ClientOK, DeadlineTimer \/ SessionTimeout
  PROVE  Handles
  BY TerminateStops DEF ClientOK, DeadlineTimer, SessionTimeout, Handles, Ends

LEMMA CloseHandles ==
  ASSUME ClientOK, Close
  PROVE  Handles
<1>1. TypeOK /\ TypeOK'
  BY CloseType DEF ClientOK
<1>2. page'.phase = "off" /\ ~page'.parked
  BY <1>1 DEF Close, TypeOK, Pages
<1>3. QED
  BY <1>1, <1>2 DEF Close, Stops, Handles

LEMMA RefreshTimerHandles ==
  ASSUME ClientOK, RefreshTimer
  PROVE  Handles
<1>1. /\ TypeOK /\ CallsOK /\ SameRound(pending) /\ "refresh" \in Kinds
      /\ timers \ {"refresh"} \in SUBSET Timers /\ timers \ {"refresh"} \subseteq timers
  BY DEF RefreshTimer, ClientOK, TypeOK, SameRound, Kinds
<1>2. Live
  BY TimerLive DEF RefreshTimer
<1>3. PICK cs : /\ cs = [calls EXCEPT !["refresh"] =
                     IF Active("refresh") THEN [@ EXCEPT !.timer = TRUE]
                     ELSE [Quiet EXCEPT !.stage = "sent", !.base = session, !.timer = TRUE]]
                /\ Keep(pending, timers \ {"refresh"}, cs)
  BY DEF RefreshTimer
<1>4. CallsMove(cs)
  <2>1. CASE Active("refresh")
    <3>1. cs = [calls EXCEPT !["refresh"].timer = TRUE]
      BY <1>3, <2>1
    <3>2. /\ cs \in [Kinds -> Calls]
          /\ \A k \in Kinds : /\ cs[k].stage = calls[k].stage
                              /\ cs[k].reply = calls[k].reply /\ cs[k].base = calls[k].base
      BY <1>1, <3>1 DEF TypeOK, Calls
    <3>3. QED
      BY <3>2 DEF CallsMove, CallMove, Active, Kinds, Authorized
  <2>2. CASE ~Active("refresh")
    <3>1. PICK c : c = [Quiet EXCEPT !.stage = "sent", !.base = session, !.timer = TRUE]
      OBVIOUS
    <3>2. /\ c \in Calls /\ c.stage = "sent" /\ c.base = session /\ c.reply = NoReply
      BY <1>1, <3>1, QuietType DEF Calls, TypeOK
    <3>3. cs = [calls EXCEPT !["refresh"] = c]
      BY <1>3, <2>2, <3>1
    <3>4. /\ cs \in [Kinds -> Calls] /\ cs["refresh"] = c
          /\ \A k \in Kinds \ {"refresh"} : cs[k] = calls[k]
      BY <1>1, <3>2, <3>3 DEF TypeOK
    <3>5. QED
      BY <1>2, <2>2, <3>2, <3>4 DEF CallsMove, CallMove, Active, Kinds, Authorized
  <2>3. QED
    BY <2>1, <2>2
<1>5. QED
  BY <1>1, <1>2, <1>3, <1>4, SameRoundSteady, KeepWorks DEF Handles, SameRound, CallsMove

LEMMA StatusTimerHandles ==
  ASSUME ClientOK, StatusTimer
  PROVE  Handles
<1>1. /\ TypeOK /\ CallsOK /\ SameRound(pending)
      /\ timers \ {"status"} \in SUBSET Timers /\ timers \ {"status"} \subseteq timers
  BY DEF StatusTimer, ClientOK, TypeOK, SameRound
<1>2. Live
  BY TimerLive DEF StatusTimer
<1>3. PICK cs : cs = Post(calls, "probe") /\ CallsMove(cs)
  <2>1. /\ Post(calls, "probe") \in [Kinds -> Calls]
        /\ \A j \in Kinds : CallMove(Post(calls, "probe"), j)
        /\ Post(calls, "probe")["poll"] = calls["poll"]
    BY <1>1, <1>2, PostMoves, CallsStay DEF TypeOK, Authorized, Kinds
  <2>2. QED
    BY <2>1 DEF CallsMove, Active
<1>4. QED
  BY <1>1, <1>2, <1>3, SameRoundSteady, KeepWorks
  DEF StatusTimer, Handles, SameRound, CallsMove

LEMMA FinishProbeHandles ==
  ASSUME ClientOK, FinishProbe
  PROVE  Handles
<1>1. Active("probe") /\ "probe" \in Kinds
  BY DEF FinishProbe, Answered, Active, Kinds, Authorized
<1>2. TypeOK /\ CallsOK /\ Live /\ SameRound(pending)
  BY <1>1, AnsweredRound DEF ClientOK, TypeOK, SameRound
<1>3. CASE \E why \in Ends : Terminate(why)
  BY <1>2, <1>3, TerminateStops DEF Handles
<1>4. CASE Keep(pending, timers \union (BackgroundTimers \intersect {"status"}), Ended("probe"))
  <2>1. PICK ts : ts = timers \union (BackgroundTimers \intersect {"status"})
    OBVIOUS
  <2>2. ts \in SUBSET Timers /\ ts \subseteq timers \union {"status"}
    BY <1>2, <2>1 DEF TypeOK, Timers
  <2>3. PICK cs : cs = Ended("probe")
    OBVIOUS
  <2>4. CallsMove(cs)
    BY <1>1, <1>2, <2>3, EndedMoves
  <2>5. Steady(pending, ts, cs)
    BY <1>2, <2>2, <2>4 DEF Steady, SameRound, CallsMove, CallsOK
  <2>6. Keep(pending, ts, cs)
    BY <1>4, <2>1, <2>3
  <2>7. QED
    BY <1>2, <2>2, <2>4, <2>5, <2>6, KeepWorks DEF Handles, CallsMove, SameRound
<1>5. QED
  BY <1>3, <1>4 DEF FinishProbe, Ends

LEMMA RenewsHandles ==
  ASSUME ClientOK, NEW k \in Kinds, Renews(k)
  PROVE  Handles
<1>1. /\ k \in Authorized /\ k # "refresh" /\ "refresh" \in Kinds
      /\ calls[k].stage = "answered" /\ Active(k) /\ k \notin {"exchange", "discover"}
  BY DEF Renews, Active, Authorized, Kinds
<1>2. TypeOK /\ CallsOK /\ Live /\ SameRound(pending) /\ timers \in SUBSET Timers
  BY <1>1, AnsweredRound DEF ClientOK, TypeOK, SameRound
<1>3. PICK c : c = [Quiet EXCEPT !.stage = "renewing", !.again = TRUE]
  OBVIOUS
<1>4. c \in Calls /\ c.stage = "renewing" /\ c.reply = NoReply
  BY <1>3, QuietType DEF Calls
<1>5. PICK d : d = [Quiet EXCEPT !.stage = "sent", !.base = session]
  OBVIOUS
<1>6. d \in Calls /\ d.stage = "sent" /\ d.reply = NoReply /\ d.base = session
  BY <1>2, <1>5, QuietType DEF Calls, TypeOK
<1>7. /\ calls' \in [Kinds -> Calls] /\ calls'[k] = c
      /\ calls'["refresh"] = IF Active("refresh") THEN calls["refresh"] ELSE d
      /\ \A j \in Kinds \ {k, "refresh"} : calls'[j] = calls[j]
  BY <1>1, <1>2, <1>3, <1>4, <1>5, <1>6 DEF Renews, TypeOK
<1>8. CallsMove(calls')
  BY <1>1, <1>2, <1>4, <1>6, <1>7 DEF CallsMove, CallMove, Active, Kinds, Authorized
<1>9. Keep(pending, timers, calls')
  BY DEF Renews, Keep
<1>10. PICK cs : cs = calls'
  OBVIOUS
<1>11. QED
  BY <1>2, <1>8, <1>9, <1>10, SameRoundSteady, KeepWorks DEF Handles, SameRound, CallsMove

\* The calls that waited for the renewed token go out.
LEMMA ReleasedMoves ==
  ASSUME TypeOK
  PROVE  CallsMove(Released) /\ Released["refresh"].stage = "idle"
<1>1. ASSUME NEW k \in Kinds
      PROVE  /\ Released[k] \in Calls
             /\ k = "refresh" => Released[k] = Quiet
             /\ k # "refresh" =>
                  \/ Released[k] = calls[k]
                  \/ /\ calls[k].stage \in {"await", "renewing"}
                     /\ \/ Released[k].stage = "sent" /\ Released[k].reply = calls[k].reply
                        \/ Released[k].stage = "answered" /\ Released[k].reply = Reply("invalid")
  <2>1. calls[k] \in Calls /\ Reply("invalid") \in Answers
    BY <1>1, ReplyType DEF TypeOK, Replies
  <2>2. PICK a : a = Reply("invalid")
    OBVIOUS
  <2>3. /\ [calls[k] EXCEPT !.stage = "answered", !.reply = a] \in Calls
        /\ [calls[k] EXCEPT !.stage = "answered", !.reply = a].stage = "answered"
        /\ [calls[k] EXCEPT !.stage = "answered", !.reply = a].reply = a
        /\ [calls[k] EXCEPT !.stage = "sent"] \in Calls
        /\ [calls[k] EXCEPT !.stage = "sent"].stage = "sent"
        /\ [calls[k] EXCEPT !.stage = "sent"].reply = calls[k].reply
    BY <2>1, <2>2 DEF Calls
  <2>4. \/ Released[k] = Quiet /\ k = "refresh"
        \/ Released[k] = calls[k] /\ k # "refresh"
        \/ /\ Released[k] = [calls[k] EXCEPT !.stage = "answered", !.reply = a]
           /\ k # "refresh" /\ calls[k].stage \in {"await", "renewing"}
        \/ /\ Released[k] = [calls[k] EXCEPT !.stage = "sent"]
           /\ k # "refresh" /\ calls[k].stage \in {"await", "renewing"}
    BY <1>1, <2>2 DEF Released
  <2>5. QED
    BY <2>1, <2>2, <2>3, <2>4, QuietType
<1>2. /\ Reply("invalid").kind \in Trouble
      /\ Reply("invalid").rev = 0 /\ Reply("invalid").round = NoRound
  BY ReplyType DEF Trouble, Replies
<1>3. "refresh" \in Kinds /\ Released["refresh"].stage = "idle"
  BY <1>1, QuietType DEF Kinds
<1>4. \A k \in Kinds : CallMove(Released, k)
  BY <1>1, <1>2, <1>3, QuietType DEF CallMove, Resumes
<1>5. Released \in [Kinds -> Calls]
  BY <1>1 DEF Released
<1>6. Released["poll"].stage # "idle" => Active("poll")
  BY <1>1 DEF Active, Kinds, Authorized
<1>7. QED
  BY <1>3, <1>4, <1>5, <1>6 DEF CallsMove

\* The calls that waited for the token fail with the refresh.
LEMMA RejectedMoves ==
  ASSUME TypeOK, NEW e \in Retryable
  PROVE  CallsMove(Rejected(e))
<1>1. ASSUME NEW k \in Kinds
      PROVE  /\ Rejected(e)[k] \in Calls
             /\ k = "refresh" => Rejected(e)[k] = Quiet
             /\ k # "refresh" =>
                  \/ Rejected(e)[k] = calls[k]
                  \/ /\ calls[k].stage \in {"await", "renewing"}
                     /\ Rejected(e)[k].stage = "answered"
                     /\ Rejected(e)[k].reply = Reply(e)
  <2>1. calls[k] \in Calls /\ Reply(e) \in Answers
    BY <1>1, ReplyType DEF TypeOK, Replies
  <2>2. PICK a : a = Reply(e)
    OBVIOUS
  <2>3. /\ [calls[k] EXCEPT !.stage = "answered", !.again = TRUE, !.reply = a] \in Calls
        /\ [calls[k] EXCEPT !.stage = "answered", !.again = TRUE, !.reply = a].stage = "answered"
        /\ [calls[k] EXCEPT !.stage = "answered", !.again = TRUE, !.reply = a].reply = a
    BY <2>1, <2>2 DEF Calls
  <2>4. \/ Rejected(e)[k] = Quiet /\ k = "refresh"
        \/ Rejected(e)[k] = calls[k] /\ k # "refresh"
        \/ /\ Rejected(e)[k] = [calls[k] EXCEPT !.stage = "answered", !.again = TRUE, !.reply = a]
           /\ k # "refresh" /\ calls[k].stage \in {"await", "renewing"}
    BY <1>1, <2>2 DEF Rejected
  <2>5. QED
    BY <2>1, <2>2, <2>3, <2>4, QuietType
<1>2. Reply(e).kind \in Trouble /\ Reply(e).rev = 0 /\ Reply(e).round = NoRound
  BY ReplyType DEF Trouble, Replies
<1>3. "refresh" \in Kinds /\ Rejected(e)["refresh"].stage = "idle"
  BY <1>1, QuietType DEF Kinds
<1>4. \A k \in Kinds : CallMove(Rejected(e), k)
  BY <1>1, <1>2, <1>3, QuietType DEF CallMove, Resumes
<1>5. Rejected(e) \in [Kinds -> Calls]
  BY <1>1 DEF Rejected
<1>6. Rejected(e)["poll"].stage # "idle" => Active("poll")
  BY <1>1 DEF Active, Kinds, Authorized
<1>7. QED
  BY <1>4, <1>5, <1>6 DEF CallsMove

\* The token is renewed, and with it the page's view of the session.
Renewed ==
  /\ Live /\ Accepted("refresh")
  /\ UNCHANGED <<server, wire, storage, page, pending, lastApplied, history, budget>>
  /\ LET c == calls["refresh"] IN
     /\ validateRefreshedSession(c.reply.rev, c.base)
     /\ session' = IF StaleOverlap(c.reply.rev, c.base) THEN session ELSE c.reply.rev
  /\ calls'["refresh"].stage = "idle"
  /\ Steady(pending, timers', calls')

LEMMA FinishRefreshHandles ==
  ASSUME ClientOK, FinishRefresh
  PROVE  Handles \/ (TypeOK' /\ Renewed)
<1> DEFINE c == calls["refresh"]
           e == c.reply.kind
<1>1. Active("refresh") /\ c.stage = "answered" /\ "refresh" \in Kinds
  BY DEF FinishRefresh, Active, Kinds
<1>2. TypeOK /\ CallsOK /\ Live /\ SameRound(pending)
  BY <1>1, AnsweredRound DEF ClientOK, TypeOK, SameRound
<1>3. CASE \E why \in Ends : Terminate(why)
  <2>1. Handles
    BY <1>2, <1>3, TerminateStops DEF Handles
  <2>2. QED
    BY <2>1
<1>4. CASE /\ e \in Retryable
           /\ Keep(pending,
                   timers \union (IF c.timer THEN BackgroundTimers \intersect {"refresh"} ELSE {}),
                   Rejected(e))
  <2>1. PICK ts : ts = timers \union
                         (IF c.timer THEN BackgroundTimers \intersect {"refresh"} ELSE {})
    OBVIOUS
  <2>2. ts \in SUBSET Timers /\ ts \subseteq timers \union {"refresh"}
    BY <1>2, <2>1 DEF TypeOK, Timers
  <2>3. PICK cs : cs = Rejected(e)
    OBVIOUS
  <2>4. CallsMove(cs)
    BY <1>2, <1>4, <2>3, RejectedMoves
  <2>5. Steady(pending, ts, cs)
    BY <1>2, <2>2, <2>4 DEF Steady, SameRound, CallsMove, CallsOK
  <2>6. Keep(pending, ts, cs)
    BY <1>4, <2>1, <2>3
  <2>7. Handles
    BY <1>2, <2>2, <2>4, <2>5, <2>6, KeepWorks DEF Handles, CallsMove, SameRound
  <2>8. QED
    BY <2>7
<1>5. CASE /\ e = "ok" /\ validateRefreshedSession(c.reply.rev, c.base)
           /\ session' = IF StaleOverlap(c.reply.rev, c.base) THEN session ELSE c.reply.rev
           /\ timers' = timers \union (BackgroundTimers \intersect {"refresh"})
           /\ calls' = Released
           /\ UNCHANGED <<server, wire, storage, page, pending, lastApplied, history, budget>>
  <2>1. CallsMove(calls') /\ calls'["refresh"].stage = "idle"
    BY <1>2, <1>5, ReleasedMoves
  <2>2. timers' \in SUBSET Timers /\ timers' \subseteq timers \union {"refresh"}
    BY <1>2, <1>5 DEF TypeOK, Timers
  <2>3. Steady(pending, timers', calls')
    BY <1>2, <2>1, <2>2 DEF Steady, SameRound, CallsMove, CallsOK
  <2>4. session' \in -1 .. MaxRounds
    <3>1. c.reply.rev \in 0 .. MaxRounds
      BY <1>1, <1>2 DEF TypeOK, Calls, Answers
    <3>2. QED
      BY <1>2, <1>5, <3>1, Constants DEF TypeOK
  <2>5. TypeOK'
    BY <1>2, <1>5, <2>1, <2>2, <2>4 DEF TypeOK, CallsMove
  <2>6. Renewed
    BY <1>1, <1>2, <1>5, <2>1, <2>3 DEF Renewed, Accepted
  <2>7. QED
    BY <2>5, <2>6
<1>6. QED
  BY <1>3, <1>4, <1>5 DEF FinishRefresh, Ends

\* The page goes offline or is hidden.
LEMMA SuspendHandles ==
  ASSUME ClientOK, Open, NEW online \in BOOLEAN, NEW visible \in BOOLEAN,
         Suspend(online, visible), budget' = [budget EXCEPT !.toggles = @ - 1],
         budget.toggles > 0
  PROVE  Handles
<1>1. TypeOK /\ CallsOK /\ PagesOK /\ SameRound(pending)
  BY DEF ClientOK, TypeOK, SameRound
<1>2. /\ page' \in Pages /\ page'.phase = page.phase /\ page'.end = page.end
      /\ page'.parked = page.parked
  <2>1. PICK b \in BOOLEAN :
          page' = [page EXCEPT !.online = online, !.visible = visible, !.recoveringShown = b]
    <3> DEFINE gone == /\ Available /\ ~(online /\ visible)
                       /\ page.phase \in {"connecting", "connected"}
                       /\ ~pending.delivered
    <3>1. page' = [page EXCEPT !.online = online, !.visible = visible,
                               !.recoveringShown = @ \/ gone]
      BY DEF Suspend
    <3> HIDE DEF gone
    <3>2. page' = [page EXCEPT !.online = online, !.visible = visible,
                               !.recoveringShown = page.recoveringShown \/ gone]
      BY <3>1, Zenon
    <3>3. (page.recoveringShown \/ gone) \in BOOLEAN
      OBVIOUS
    <3>4. QED
      BY <3>2, <3>3
  <2>2. QED
    BY <1>1, <2>1 DEF TypeOK, Pages
<1>3. /\ budget' \in Scenario
      /\ budget'.newTab = budget.newTab /\ budget'.rounds = budget.rounds
  <2>1. PICK n \in Nat : n = budget.toggles - 1
    BY <1>1 DEF TypeOK, Scenario
  <2>2. budget' = [budget EXCEPT !.toggles = n]
    BY <2>1
  <2>3. QED
    BY <1>1, <2>2 DEF TypeOK, Scenario
<1>4. timers' \subseteq timers /\ pending' = pending /\ calls' = calls
  BY DEF Suspend
<1>5. TypeOK'
  BY <1>1, <1>2, <1>3, <1>4 DEF Suspend, TypeOK
<1>6. Steady(pending, timers', calls)
  BY <1>1, <1>4, SameRoundSteady, CallsStay
<1>7. Works
  <2>1. ~Live => timers' = timers
    <3>1. page.phase \in {"new", "connecting"} \/ Live
      BY <1>1 DEF TypeOK, Pages, Open, Live
    <3>2. QED
      BY <1>1, <1>4, <3>1 DEF PagesOK
  <2>2. QED
    BY <1>2, <1>3, <1>4, <1>6, <2>1 DEF Suspend, Works
<1>8. QED
  BY <1>5, <1>7 DEF Handles

-----------------------------------------------------------------------------
(* Kinds of step between the launch and the connection *)

\* The launch code is spent: the exchange is under way.
Connects ==
  /\ page.phase = "new" /\ page'.phase = "connecting" /\ page'.end = page.end
  /\ ~page'.parked
  /\ calls'["exchange"].stage = "sent" /\ calls'["exchange"].reply = NoReply
  /\ \A k \in Kinds \ {"exchange"} : calls'[k] = calls[k]
  /\ UNCHANGED <<server, wire, storage, session, pending, lastApplied, timers,
                 history, budget>>

\* Without a ledger the cursor of the server is asked.
Discovers ==
  /\ page.phase = "connecting" /\ ~Kept /\ Accepted("exchange")
  /\ calls["exchange"].reply.rev > 0
  /\ session' = calls["exchange"].reply.rev
  /\ lastApplied' = [sequence |-> calls["exchange"].reply.rev, round |-> NoRound]
  /\ calls'["exchange"] = Quiet
  /\ calls'["discover"].stage = "sent"
  /\ calls'["discover"].reply = calls["discover"].reply
  /\ \A k \in Kinds \ {"exchange", "discover"} : calls'[k] = calls[k]
  /\ UNCHANGED <<server, wire, storage, page, pending, timers, history, budget>>

\* The page is connected.
Enters ==
  /\ page.phase = "connecting" /\ page'.phase = "connected" /\ page'.end = page.end
  /\ ~page'.parked
  /\ calls' = AllQuiet /\ timers' \subseteq {"refresh", "status", "poll"}
  /\ UNCHANGED <<server, wire, storage, budget>>

\* Nothing is left of an earlier round.
EntersIdle ==
  /\ Enters /\ ~Kept /\ pending' = NoPending /\ "poll" \notin timers'
  /\ session' >= 0 /\ lastApplied'.sequence <= session'
  /\ \/ session' = 0 /\ Accepted("exchange") /\ calls["exchange"].reply.rev = 0
     \/ session' = session /\ Accepted("discover")
  /\ UNCHANGED history

\* The round of the ledger is settled first.
EntersLedger ==
  /\ Enters /\ Kept /\ Accepted("exchange")
  /\ session' = calls["exchange"].reply.rev
  /\ session' \in {storage.start, storage.start + 1}
  /\ pending'.round = storage.round /\ pending'.start = storage.start
  /\ ~pending'.delivered /\ ~pending'.ackStarted /\ pending'.pollAttempts = 0
  /\ lastApplied'.sequence = storage.start
  /\ UNCHANGED history

\* A result found by the cursor is delivered, or left for later.
EntersFound ==
  /\ Enters /\ ~Kept /\ Accepted("discover")
  /\ calls["discover"].reply.rev = session /\ session' = session
  /\ pending'.round \in Rounds /\ pending'.round = calls["discover"].reply.round
  /\ pending'.start = session - 1
  /\ "poll" \notin timers' /\ ~pending'.pollDue
  /\ ~pending'.resubmitOnNotFound /\ ~pending'.ackStarted
  /\ \/ /\ pending'.delivered
        /\ lastApplied' = [sequence |-> session, round |-> pending'.round]
        /\ \A r \in Rounds \ {pending'.round} : history'.here[r] = history.here[r]
        /\ history'.here[pending'.round] = 1
        /\ history'.ever = history.ever \union {pending'.round}
     \/ /\ ~pending'.delivered /\ lastApplied'.sequence = session - 1
        /\ UNCHANGED history

Arrives == TypeOK' /\ (Connects \/ Discovers \/ EntersIdle \/ EntersLedger \/ EntersFound)

LEMMA ExchangeSent ==
  ASSUME TypeOK, PagesOK, page.phase = "new",
         calls' = [calls EXCEPT !["exchange"].stage = "sent"]
  PROVE  /\ calls' \in [Kinds -> Calls]
         /\ calls'["exchange"].stage = "sent" /\ calls'["exchange"].reply = NoReply
         /\ \A k \in Kinds \ {"exchange"} : calls'[k] = calls[k]
<1>1. /\ "exchange" \in Kinds /\ calls = AllQuiet
      /\ calls["exchange"] = Quiet /\ calls["exchange"] \in Calls
      /\ calls["exchange"].reply = NoReply
  BY QuietType DEF PagesOK, Kinds
<1>2. PICK c : c = [calls["exchange"] EXCEPT !.stage = "sent"]
  OBVIOUS
<1>3. c \in Calls /\ c.stage = "sent" /\ c.reply = NoReply
  BY <1>1, <1>2 DEF Calls
<1>4. calls' = [calls EXCEPT !["exchange"] = c]
  BY <1>2
<1>5. QED
  BY <1>1, <1>3, <1>4 DEF TypeOK

LEMMA connectSteps ==
  ASSUME ClientOK, connect
  PROVE  Handles \/ Arrives
<1>1. TypeOK /\ PagesOK /\ CallsOK
  BY DEF ClientOK
<1>2. CASE /\ page' = [page EXCEPT !.phase = "connecting", !.launchCode = FALSE,
                                   !.parked = FALSE, !.recoveringShown = FALSE]
           /\ calls' = [calls EXCEPT !["exchange"].stage = "sent"]
  <2>1. /\ page' \in Pages /\ page'.phase = "connecting" /\ page'.end = page.end
        /\ ~page'.parked
    BY <1>1, <1>2 DEF TypeOK, Pages
  <2>2. Connects
    BY <1>1, <1>2, <2>1, ExchangeSent DEF connect, Connects
  <2>3. TypeOK'
    BY <1>1, <1>2, <2>1, ExchangeSent DEF connect, TypeOK
  <2>4. Arrives
    BY <2>2, <2>3 DEF Arrives
  <2>5. QED
    BY <2>4
<1>3. CASE /\ page' = [page EXCEPT !.parked = TRUE, !.recoveringShown = TRUE]
           /\ UNCHANGED calls
  <2>1. /\ page' \in Pages /\ page'.phase = page.phase /\ page'.end = page.end
    BY <1>1, <1>3 DEF TypeOK, Pages
  <2>2. TypeOK'
    BY <1>1, <1>3, <2>1 DEF connect, TypeOK
  <2>3. Steady(pending, timers, calls)
    BY <1>1, CallsStay, SameRoundSteady DEF SameRound, TypeOK
  <2>4. Works
    BY <1>3, <2>1, <2>3 DEF connect, Works
  <2>5. Handles
    BY <2>2, <2>4 DEF Handles
  <2>6. QED
    BY <2>5
<1>4. QED
  BY <1>2, <1>3 DEF connect

\* The page is online or visible again, and nothing was at its end.
LEMMA ResumeSteps ==
  ASSUME ClientOK, Open, NEW online \in BOOLEAN, NEW visible \in BOOLEAN,
         Resume(online, visible)
  PROVE  Handles \/ Arrives
<1> DEFINE back == online /\ visible
           onlineAgain == ~page.online /\ online
           availableAgain == ~Available /\ back
           repoll == availableAgain /\ Repolls
           reack == onlineAgain /\ Resumable
           reconnects == availableAgain /\ page.parked
           reopen == availableAgain /\ page.recoveringShown /\ page.phase = "connected"
           due == ~pending.ackNotBefore
           sends == reack /\ due
           back1 == \/ /\ \/ reack /\ ~AcknowledgementAllowed(pending)
                          \/ repoll /\ ~pending.pollDue /\ pending.pollAttempts >= maxPollAttempts
                       /\ Terminate(IF reack THEN "window" ELSE "exhausted")
                    \/ /\ onlineAgain /\ page.phase = "connected"
                       /\ "refresh" \in budget.background
                       /\ ~Active("refresh") /\ Terminate("offline")
           newPage == page' = [page EXCEPT !.online = online, !.visible = visible,
                        !.phase = IF reconnects THEN "connecting" ELSE @,
                        !.launchCode = @ /\ ~reconnects,
                        !.parked = @ /\ ~reconnects,
                        !.recoveringShown = @ /\ ~reopen /\ ~reconnects]
           newPending == pending' = [pending EXCEPT
                           !.pollDue = @ \/ repoll,
                           !.ackInFlight = @ \/ sends,
                           !.ackAttempts = IF sends THEN @ + 1 ELSE @]
           newTimers == timers' = timers
               \union (IF onlineAgain /\ page.phase = "connected" /\ ~Active("refresh")
                       THEN budget.background \intersect {"refresh"} ELSE {})
               \union (IF reack /\ ~due THEN {"ack"} ELSE {})
               \union (IF repoll THEN {"poll"} ELSE {})
               \union (IF availableAgain /\ page.phase = "connected" /\ ~Active("probe")
                       THEN budget.background \intersect {"status"} ELSE {})
           newCalls == calls' = IF reconnects THEN [calls EXCEPT !["exchange"].stage = "sent"]
                                ELSE IF sends THEN Post(calls, "ack") ELSE calls
<1>1. TypeOK /\ PagesOK /\ CallsOK /\ PendingOK
  BY DEF ClientOK
<1>2. CASE back1
  <2>1. \E why \in Ends : Terminate(why)
    BY <1>2 DEF Ends
  <2>2. Handles
    BY <1>1, <2>1, TerminateStops DEF Handles
  <2>3. QED
    BY <2>2
<1>3. CASE /\ reack => AcknowledgementAllowed(pending)
           /\ repoll => pending.pollDue \/ pending.pollAttempts < maxPollAttempts
           /\ newPage /\ newPending /\ newTimers /\ newCalls
           /\ UNCHANGED <<server, wire, storage, session, lastApplied, history, budget>>
  <2>1. /\ page' \in Pages /\ page'.end = page.end
        /\ page'.phase = IF reconnects THEN "connecting" ELSE page.phase
        /\ page'.parked => page.parked /\ ~reconnects
    <3>1. PICK b1 \in BOOLEAN, b2 \in BOOLEAN, b3 \in BOOLEAN,
               ph \in {"new", "connecting", "connected", "off"} :
            /\ page' = [page EXCEPT !.online = online, !.visible = visible, !.phase = ph,
                          !.launchCode = b1, !.parked = b2, !.recoveringShown = b3]
            /\ ph = IF reconnects THEN "connecting" ELSE page.phase
            /\ b2 => page.parked /\ ~reconnects
      <4> DEFINE c1 == page.launchCode /\ ~reconnects
                 c2 == page.parked /\ ~reconnects
                 c3 == page.recoveringShown /\ ~reopen /\ ~reconnects
                 cp == IF reconnects THEN "connecting" ELSE page.phase
      <4>1. page' = [page EXCEPT !.online = online, !.visible = visible, !.phase = cp,
                          !.launchCode = c1, !.parked = c2, !.recoveringShown = c3]
        BY <1>3, Zenon
      <4>2. c1 \in BOOLEAN /\ c2 \in BOOLEAN /\ c3 \in BOOLEAN
        OBVIOUS
      <4>3. cp \in {"new", "connecting", "connected", "off"}
        BY <1>1 DEF TypeOK, Pages
      <4>4. (c2 => page.parked /\ ~reconnects)
            /\ cp = IF reconnects THEN "connecting" ELSE page.phase
        OBVIOUS
      <4> HIDE DEF c1, c2, c3, cp
      <4>5. QED
        BY <4>1, <4>2, <4>3, <4>4, Zenon
    <3>2. page' = [page EXCEPT !.online = online, !.visible = visible, !.phase = ph,
                     !.launchCode = b1, !.parked = b2, !.recoveringShown = b3]
      BY <3>1
    <3>3. page' \in Pages /\ page'.end = page.end /\ page'.phase = ph /\ page'.parked = b2
      <4>1. page \in Pages
        BY <1>1 DEF TypeOK
      <4> DEFINE x == [page EXCEPT !.online = online, !.visible = visible, !.phase = ph]
      <4>2. x \in Pages /\ x.end = page.end /\ x.phase = ph
        BY <4>1 DEF Pages
      <4>3. page' = [x EXCEPT !.launchCode = b1, !.parked = b2, !.recoveringShown = b3]
        BY <3>2
      <4> HIDE DEF x
      <4>4. QED
        BY <4>2, <4>3 DEF Pages
    <3>4. /\ ph = IF reconnects THEN "connecting" ELSE page.phase
          /\ b2 => page.parked /\ ~reconnects
      BY <3>1
    <3> HIDE DEF reconnects
    <3>5. QED
      BY <3>3, <3>4
  <2>2. PICK n \in 0 .. acknowledgementMaxAttempts :
          n = IF sends THEN pending.ackAttempts + 1 ELSE pending.ackAttempts
    <3>1. sends => pending.ackAttempts < acknowledgementMaxAttempts
      BY <1>3 DEF AcknowledgementAllowed
    <3>2. pending.ackAttempts \in 0 .. acknowledgementMaxAttempts
      BY <1>1 DEF TypeOK, PendingRounds
    <3> HIDE DEF sends
    <3>3. QED
      BY <3>1, <3>2, Constants
  <2>3. PICK d \in BOOLEAN, f \in BOOLEAN :
          /\ pending' = [pending EXCEPT !.pollDue = d, !.ackInFlight = f, !.ackAttempts = n]
          /\ d = (pending.pollDue \/ repoll) /\ f = (pending.ackInFlight \/ sends)
    <3> DEFINE d == pending.pollDue \/ repoll
               f == pending.ackInFlight \/ sends
               m == IF sends THEN pending.ackAttempts + 1 ELSE pending.ackAttempts
    <3>1. pending' = [pending EXCEPT !.pollDue = d, !.ackInFlight = f, !.ackAttempts = m]
      BY <1>3, Zenon
    <3>2. d \in BOOLEAN /\ f \in BOOLEAN
      OBVIOUS
    <3>3. m = n
      BY <2>2
    <3>4. d = (pending.pollDue \/ repoll) /\ f = (pending.ackInFlight \/ sends)
      OBVIOUS
    <3> HIDE DEF d, f, m
    <3>5. QED
      BY <3>1, <3>2, <3>3, <3>4, Zenon
  <2>4. /\ pending' \in PendingRounds
        /\ pending'.round = pending.round /\ pending'.start = pending.start
        /\ pending'.delivered = pending.delivered
        /\ pending'.pollAttempts = pending.pollAttempts
        /\ pending'.resubmitOnNotFound = pending.resubmitOnNotFound
        /\ pending'.pollDue = d
    BY <1>1, <2>3 DEF TypeOK, PendingRounds
  <2>5. /\ timers' \subseteq Timers
        /\ "ack" \in timers' => "ack" \in timers \/ reack
        /\ "poll" \in timers' => "poll" \in timers \/ repoll
        /\ "deadline" \in timers' => "deadline" \in timers
    <3>1. timers \subseteq Timers
      BY <1>1 DEF TypeOK
    <3> HIDE DEF reack, repoll, onlineAgain, availableAgain, due
    <3>2. QED
      BY <1>3, <3>1 DEF Timers
  <2>6. CASE Live
    <3>1. ~reconnects
      BY <1>1, <2>6 DEF PagesOK, Live
    <3>2. PICK cs \in [Kinds -> Calls] :
            /\ cs = calls' /\ cs["poll"] = calls["poll"]
            /\ \A j \in Kinds : CallMove(cs, j)
      <4>1. sends => pending.delivered
        BY DEF Resumable
      <4>2. calls' = Post(calls, "ack") \/ calls' = calls
        BY <1>3, <3>1
      <4>3. calls' # calls => pending.delivered /\ Waiting /\ calls' = Post(calls, "ack")
        BY <1>1, <1>3, <3>1, <4>1 DEF PendingOK
      <4>4. QED
        BY <1>1, <2>6, <4>2, <4>3, PostMoves, CallsStay DEF TypeOK, Authorized, Kinds
    <3>3. d \/ "poll" \in timers' => Waiting /\ pending.pollAttempts < maxPollAttempts
      <4>1. repoll => Waiting /\ (pending.pollDue \/ pending.pollAttempts < maxPollAttempts)
        BY <1>3 DEF Repolls, Undelivered
      <4>2. QED
        BY <1>1, <2>3, <2>5, <4>1, Zenon DEF CallsOK
    <3>4. "ack" \in timers' => pending.delivered
      BY <1>1, <2>5 DEF CallsOK, Resumable
    <3>5. Steady(pending', timers', calls')
      BY <1>1, <2>4, <2>5, <3>2, <3>3, <3>4 DEF Steady, CallsOK, Active
    <3>6. TypeOK'
      BY <1>1, <1>3, <2>1, <2>4, <2>5, <3>2 DEF TypeOK
    <3>7. Works
      <4>1. page'.phase = page.phase /\ page'.end = page.end /\ (page'.parked => page.parked)
        BY <2>1, <3>1
      <4>2. UNCHANGED <<server, wire, storage, session, lastApplied, history, budget>>
        BY <1>3
      <4> HIDE DEF newPage, newPending, newTimers, newCalls, back1
      <4>3. QED
        BY <2>4, <2>6, <3>5, <4>1, <4>2 DEF Works
    <3>8. Handles
      BY <3>6, <3>7 DEF Handles
    <3>9. QED
      BY <3>8
  <2>7. CASE ~Live
    <3>1. page.phase \in {"new", "connecting"}
      BY <1>1, <2>7 DEF TypeOK, Pages, Open, Live
    <3>2. pending = NoPending /\ timers = {} /\ ~Waiting /\ ~pending.delivered
      BY <1>1, <3>1, PendingType DEF PagesOK, Waiting
    <3>3. ~repoll /\ ~reack /\ ~sends
      BY <3>2 DEF Repolls, Undelivered, Resumable
    <3>4. pending' = pending
      <4>1. n = pending.ackAttempts
        BY <2>2, <3>3
      <4>2. d = pending.pollDue /\ f = pending.ackInFlight
        BY <1>1, <2>3, <3>3 DEF TypeOK, PendingRounds
      <4>3. pending' = [pending EXCEPT !.pollDue = d, !.ackInFlight = f, !.ackAttempts = n]
        BY <2>3
      <4> HIDE DEF repoll, sends
      <4>4. QED
        BY <1>1, <4>1, <4>2, <4>3 DEF TypeOK, PendingRounds
    <3>5. timers' = timers
      BY <1>3, <2>7, <3>3 DEF Live
    <3>6. CASE reconnects
      <4>1. page.phase = "new" /\ page'.phase = "connecting" /\ ~page'.parked
        BY <1>1, <2>1, <3>6 DEF PagesOK
      <4>2. calls' = [calls EXCEPT !["exchange"].stage = "sent"]
        BY <1>3, <3>6
      <4>3. UNCHANGED <<server, wire, storage, session, lastApplied, history, budget>>
        BY <1>3
      <4>4. Connects
        BY <1>1, <2>1, <3>4, <3>5, <4>1, <4>2, <4>3, ExchangeSent DEF Connects
      <4>5. TypeOK'
        BY <1>1, <2>1, <3>4, <3>5, <4>1, <4>2, <4>3, ExchangeSent DEF TypeOK
      <4>6. Arrives
        BY <4>4, <4>5 DEF Arrives
      <4>7. QED
        BY <4>6
    <3>7. CASE ~reconnects
      <4>1. page'.phase = page.phase /\ page'.end = page.end /\ (page'.parked => page.parked)
        BY <2>1, <3>7
      <4>2. calls' = calls
        BY <1>3, <3>3, <3>7
      <4>3. UNCHANGED <<server, wire, storage, session, lastApplied, history, budget>>
        BY <1>3
      <4>4. Steady(pending, timers, calls)
        BY <1>1, CallsStay, SameRoundSteady DEF SameRound, TypeOK
      <4>5. Steady(pending', timers', calls')
        BY <3>4, <3>5, <4>2, <4>4
      <4>6. TypeOK'
        BY <1>1, <2>1, <3>4, <3>5, <4>2, <4>3 DEF TypeOK
      <4>7. Works
        BY <3>4, <3>5, <4>1, <4>2, <4>3, <4>5 DEF Works
      <4>8. Handles
        BY <4>6, <4>7 DEF Handles
      <4>9. QED
        BY <4>8
    <3>8. QED
      BY <3>6, <3>7
  <2>8. QED
    BY <2>6, <2>7
<1>4. QED
  BY <1>2, <1>3 DEF Resume

LEMMA RecoveredType ==
  ASSUME NEW r \in 0 .. MaxRounds, NEW n \in 0 .. MaxRounds
  PROVE  /\ Recovered(r, n) \in PendingRounds
         /\ Recovered(r, n).round = r /\ Recovered(r, n).start = n
         /\ ~Recovered(r, n).delivered /\ ~Recovered(r, n).ackStarted
         /\ ~Recovered(r, n).pollDue /\ ~Recovered(r, n).resubmitOnNotFound
         /\ Recovered(r, n).pollAttempts = 0
  BY PendingType DEF Recovered, PendingRounds

\* What being connected leaves, for a pending round with its type.
LEMMA ConnectedView ==
  ASSUME TypeOK, page.phase = "connecting", PagesOK,
         NEW rev \in -1 .. MaxRounds, NEW p \in PendingRounds,
         NEW applied \in [sequence : 0 .. MaxRounds, round : 0 .. MaxRounds],
         NEW due \in BOOLEAN, Connected(rev, p, applied, due)
  PROVE  /\ TypeOK' /\ Enters
         /\ session' = rev /\ lastApplied' = applied
         /\ pending' = [p EXCEPT !.pollDue = due]
         /\ pending'.round = p.round /\ pending'.start = p.start
         /\ pending'.delivered = p.delivered /\ pending'.pollDue = due
         /\ pending'.resubmitOnNotFound = p.resubmitOnNotFound
         /\ pending'.ackStarted = p.ackStarted
         /\ pending'.pollAttempts = p.pollAttempts
         /\ ~due => "poll" \notin timers'
         /\ UNCHANGED history
<1>1. /\ page' \in Pages /\ page'.phase = "connected" /\ page'.end = page.end
      /\ page'.parked = page.parked
  BY DEF Connected, TypeOK, Pages
<1>2. ~page'.parked
  BY <1>1 DEF PagesOK
<1>3. pending' = [p EXCEPT !.pollDue = due] /\ lastApplied' = applied /\ session' = rev
  BY DEF Connected
<1>4. /\ pending' \in PendingRounds
      /\ pending'.round = p.round /\ pending'.start = p.start
      /\ pending'.delivered = p.delivered /\ pending'.pollDue = due
      /\ pending'.resubmitOnNotFound = p.resubmitOnNotFound
      /\ pending'.ackStarted = p.ackStarted
      /\ pending'.pollAttempts = p.pollAttempts
  BY <1>3 DEF PendingRounds
<1>5. timers' \subseteq {"refresh", "status", "poll"} /\ (~due => "poll" \notin timers')
  BY BackgroundType DEF Connected
<1>6. UNCHANGED <<server, wire, storage, history, budget>> /\ calls' = AllQuiet
  BY DEF Connected
<1>7. TypeOK'
  BY <1>1, <1>3, <1>4, <1>5, <1>6, QuietType DEF TypeOK, Timers
<1>8. Enters
  BY <1>1, <1>2, <1>5, <1>6 DEF Enters
<1>9. QED
  BY <1>3, <1>4, <1>5, <1>6, <1>7, <1>8

LEMMA FailConnectHandles ==
  ASSUME ClientOK, page.phase = "connecting", NEW why \in Ends, FailConnect(why)
  PROVE  Handles
<1>1. TypeOK /\ PagesOK
  BY DEF ClientOK
<1>2. page' \in Pages /\ page'.phase = "off" /\ page'.parked = page.parked
  BY <1>1 DEF FailConnect, TypeOK, Pages
<1>3. TypeOK'
  BY <1>1, <1>2, QuietType DEF FailConnect, TypeOK
<1>4. Stops
  BY <1>1, <1>2 DEF FailConnect, Stops, PagesOK, Abandoned
<1>5. QED
  BY <1>3, <1>4 DEF Handles

LEMMA FinishExchangeSteps ==
  ASSUME ClientOK, FinishExchange
  PROVE  Handles \/ Arrives
<1> DEFINE rev == calls["exchange"].reply.rev
           delta == rev - storage.start
<1>1. /\ calls["exchange"].stage = "answered" /\ Active("exchange")
      /\ "exchange" \in Kinds /\ "discover" \in Kinds
  BY DEF FinishExchange, Active, Kinds
<1>2. /\ TypeOK /\ PagesOK /\ page.phase = "connecting" /\ session = NoSession
      /\ rev \in 0 .. MaxRounds /\ storage \in Ledgers
  <2>1. TypeOK /\ PagesOK /\ page.phase = "connecting" /\ session = NoSession
    BY <1>1 DEF ClientOK, PagesOK
  <2>2. QED
    BY <1>1, <2>1 DEF TypeOK, Calls, Answers
<1>3. CASE \E why \in Ends : FailConnect(why)
  <2>1. Handles
    BY <1>2, <1>3, FailConnectHandles
  <2>2. QED
    BY <2>1
<1>4. CASE /\ calls["exchange"].reply.kind = "ok" /\ storage = NoLedger /\ rev = 0
           /\ Connected(rev, NoPending, [sequence |-> 0, round |-> NoRound], FALSE)
  <2>1. PICK a : a = [sequence |-> 0, round |-> NoRound]
    OBVIOUS
  <2>2. a \in [sequence : 0 .. MaxRounds, round : 0 .. MaxRounds] /\ a.sequence = 0
    BY <2>1, Constants DEF NoRound
  <2>3. PICK n \in -1 .. MaxRounds : n = rev /\ n = 0
    BY <1>2, <1>4, Constants
  <2>4. Connected(n, NoPending, a, FALSE)
    BY <1>4, <2>1, <2>3
  <2>5. /\ TypeOK' /\ Enters
        /\ session' = n /\ lastApplied' = a
        /\ pending' = [NoPending EXCEPT !.pollDue = FALSE]
        /\ "poll" \notin timers' /\ UNCHANGED history
    BY <1>2, <2>2, <2>4, ConnectedView, PendingType
  <2>6. pending' = NoPending
    BY <2>5 DEF NoPending
  <2>7. EntersIdle
    BY <1>1, <1>4, <2>2, <2>3, <2>5, <2>6 DEF EntersIdle, Kept, Accepted
  <2>8. Arrives
    BY <2>5, <2>7 DEF Arrives
  <2>9. QED
    BY <2>8
<1>5. CASE /\ calls["exchange"].reply.kind = "ok" /\ storage = NoLedger /\ rev > 0
           /\ session' = rev
           /\ lastApplied' = [sequence |-> rev, round |-> NoRound]
           /\ calls' = [Ended("exchange") EXCEPT !["discover"].stage = "sent"]
           /\ UNCHANGED <<server, wire, storage, page, pending, timers, history, budget>>
  <2>1. /\ Ended("exchange") \in [Kinds -> Calls]
        /\ \A j \in Kinds \ {"exchange"} : Ended("exchange")[j] = calls[j]
        /\ Ended("exchange")["exchange"] = Quiet
    BY <1>1, <1>2, EndedView
  <2>2. PICK c : c = [Ended("exchange")["discover"] EXCEPT !.stage = "sent"]
    OBVIOUS
  <2>3. c \in Calls /\ c.stage = "sent" /\ c.reply = calls["discover"].reply
    <3>1. Ended("exchange")["discover"] \in Calls
          /\ Ended("exchange")["discover"] = calls["discover"]
      BY <1>1, <2>1
    <3>2. QED
      BY <2>2, <3>1 DEF Calls
  <2>4. calls' = [Ended("exchange") EXCEPT !["discover"] = c]
    BY <1>5, <2>2
  <2>5. /\ calls' \in [Kinds -> Calls]
        /\ calls'["exchange"] = Quiet /\ calls'["discover"] = c
        /\ \A j \in Kinds \ {"exchange", "discover"} : calls'[j] = calls[j]
    BY <1>1, <2>1, <2>3, <2>4
  <2>6. PICK n \in 0 .. MaxRounds : n = rev
    BY <1>2
  <2>7. lastApplied' = [sequence |-> n, round |-> NoRound] /\ session' = n
    BY <1>5, <2>6
  <2>8. lastApplied' \in [sequence : 0 .. MaxRounds, round : 0 .. MaxRounds]
    BY <2>7, Constants DEF NoRound
  <2>9. TypeOK'
    BY <1>2, <1>5, <2>5, <2>7, <2>8, Constants DEF TypeOK
  <2>10. Discovers
    BY <1>1, <1>2, <1>5, <2>3, <2>5 DEF Discovers, Kept, Accepted
  <2>11. Arrives
    BY <2>9, <2>10 DEF Arrives
  <2>12. QED
    BY <2>11
<1>6. CASE /\ calls["exchange"].reply.kind = "ok" /\ storage # NoLedger /\ delta \in {0, 1}
           /\ Connected(rev,
                     [Recovered(storage.round, storage.start) EXCEPT
                        !.resubmitOnNotFound = (delta = 0)],
                     [sequence |-> rev - delta, round |-> NoRound], TRUE)
  <2>1. /\ storage.round \in 0 .. MaxRounds /\ storage.start \in 0 .. MaxRounds
        /\ rev - delta = storage.start
    BY <1>2 DEF Ledgers
  <2>2. PICK q : q = Recovered(storage.round, storage.start)
    OBVIOUS
  <2>3. /\ q \in PendingRounds /\ q.round = storage.round /\ q.start = storage.start
        /\ ~q.delivered /\ ~q.ackStarted /\ q.pollAttempts = 0
    BY <2>1, <2>2, RecoveredType
  <2>4. PICK b \in BOOLEAN : b = (delta = 0)
    OBVIOUS
  <2>5. PICK p : p = [q EXCEPT !.resubmitOnNotFound = b]
    OBVIOUS
  <2>6. /\ p \in PendingRounds /\ p.round = storage.round /\ p.start = storage.start
        /\ ~p.delivered /\ ~p.ackStarted /\ p.pollAttempts = 0
    BY <2>3, <2>5 DEF PendingRounds
  <2>7. PICK a : a = [sequence |-> rev - delta, round |-> NoRound]
    OBVIOUS
  <2>8. PICK m \in 0 .. MaxRounds : m = rev - delta /\ m = storage.start
    BY <2>1
  <2>9. a \in [sequence : 0 .. MaxRounds, round : 0 .. MaxRounds] /\ a.sequence = storage.start
    <3>1. a = [sequence |-> m, round |-> NoRound]
      BY <2>7, <2>8
    <3>2. QED
      BY <2>8, <3>1, Constants DEF NoRound
  <2>10. PICK n \in -1 .. MaxRounds : n = rev /\ n \in {storage.start, storage.start + 1}
    <3>1. rev \in {storage.start, storage.start + 1}
      BY <1>2, <1>6, <2>1
    <3>2. QED
      BY <1>2, <3>1, Constants
  <2>11. Connected(n, p, a, TRUE)
    BY <1>6, <2>2, <2>4, <2>5, <2>7, <2>10
  <2>12. /\ TypeOK' /\ Enters /\ session' = n /\ lastApplied' = a
         /\ pending'.round = p.round /\ pending'.start = p.start
         /\ pending'.delivered = p.delivered /\ pending'.pollAttempts = p.pollAttempts
         /\ pending'.ackStarted = p.ackStarted
         /\ UNCHANGED history
    BY <1>2, <2>6, <2>9, <2>11, ConnectedView
  <2>13. EntersLedger
    BY <1>1, <1>6, <2>6, <2>9, <2>10, <2>12 DEF EntersLedger, Kept, Accepted
  <2>14. Arrives
    BY <2>12, <2>13 DEF Arrives
  <2>15. QED
    BY <2>14
<1>7. QED
  BY <1>3, <1>4, <1>5, <1>6 DEF FinishExchange, Ends

LEMMA FinishDiscoverSteps ==
  ASSUME ClientOK, FinishDiscover
  PROVE  Handles \/ Arrives
<1> DEFINE found == calls["discover"].reply.round
           at == [sequence |-> session - 1, round |-> NoRound]
           p == Recovered(found, session - 1)
<1>1. calls["discover"].stage = "answered" /\ Active("discover") /\ "discover" \in Kinds
  BY DEF FinishDiscover, Active, Kinds
<1>2. /\ TypeOK /\ PagesOK /\ CallsOK /\ page.phase = "connecting" /\ ~Kept /\ session > 0
      /\ session \in -1 .. MaxRounds /\ lastApplied.sequence <= session
      /\ lastApplied \in [sequence : 0 .. MaxRounds, round : 0 .. MaxRounds]
      /\ found \in 0 .. MaxRounds
  <2>1. /\ TypeOK /\ PagesOK /\ CallsOK /\ page.phase = "connecting" /\ ~Kept /\ session > 0
        /\ lastApplied.sequence <= session
    BY <1>1 DEF ClientOK, PagesOK
  <2>2. QED
    BY <1>1, <2>1 DEF TypeOK, Calls, Answers
<1>3. PICK m \in 0 .. MaxRounds : m = session - 1
  BY <1>2, Constants
<1>4. PICK q : q = p
  OBVIOUS
<1>5. /\ q \in PendingRounds /\ q.round = found /\ q.start = m
      /\ ~q.delivered /\ ~q.ackStarted /\ ~q.pollDue /\ ~q.resubmitOnNotFound
  <2>1. PICK n \in 0 .. MaxRounds : n = found
    BY <1>2
  <2>2. q = Recovered(n, m)
    BY <1>3, <1>4, <2>1
  <2>3. QED
    BY <2>1, <2>2, RecoveredType
<1>6. CASE \E why \in Ends : Terminate(why)
  <2>1. Handles
    BY <1>2, <1>6, TerminateStops DEF Handles
  <2>2. QED
    BY <2>1
<1>7. CASE /\ calls["discover"].reply.kind = "ok"
           /\ Connected(session, NoPending, lastApplied, FALSE)
  <2>1. /\ TypeOK' /\ Enters
        /\ session' = session /\ lastApplied' = lastApplied
        /\ pending' = [NoPending EXCEPT !.pollDue = FALSE]
        /\ "poll" \notin timers' /\ UNCHANGED history
    BY <1>2, <1>7, ConnectedView, PendingType
  <2>2. pending' = NoPending
    BY <2>1 DEF NoPending
  <2>3. session >= 0
    BY <1>2
  <2>4. EntersIdle
    BY <1>1, <1>2, <1>7, <2>1, <2>2, <2>3 DEF EntersIdle, Accepted
  <2>5. Arrives
    BY <2>1, <2>4 DEF Arrives
  <2>6. QED
    BY <2>5
<1>8. CASE /\ calls["discover"].reply.kind = "ok" /\ found # NoRound
           /\ calls["discover"].reply.rev = session
           /\ Connected(session, p, at, FALSE)
  <2>1. PICK a : a = [sequence |-> m, round |-> NoRound] /\ a = at
    BY <1>3
  <2>2. /\ a \in [sequence : 0 .. MaxRounds, round : 0 .. MaxRounds] /\ a.sequence = m
    BY <2>1, Constants DEF NoRound
  <2>3. Connected(session, q, a, FALSE)
    BY <1>4, <1>8, <2>1
  <2>4. /\ TypeOK' /\ Enters /\ session' = session /\ lastApplied' = a
        /\ pending'.round = q.round /\ pending'.start = q.start
        /\ pending'.delivered = q.delivered /\ ~pending'.pollDue
        /\ pending'.resubmitOnNotFound = q.resubmitOnNotFound
        /\ pending'.ackStarted = q.ackStarted
        /\ "poll" \notin timers' /\ UNCHANGED history
    BY <1>2, <1>5, <2>2, <2>3, ConnectedView
  <2>5. found \in Rounds
    BY <1>2, <1>8, Constants DEF Rounds, NoRound
  <2>6. EntersFound
    BY <1>1, <1>2, <1>3, <1>5, <1>8, <2>2, <2>4, <2>5 DEF EntersFound, Accepted
  <2>7. Arrives
    BY <2>4, <2>6 DEF Arrives
  <2>8. QED
    BY <2>7
<1>9. CASE /\ calls["discover"].reply.kind = "ok" /\ found # NoRound
           /\ calls["discover"].reply.rev = session
           /\ page' = [page EXCEPT !.phase = "connected"]
           /\ history' = ShownBy(found)
           /\ lastApplied' = [sequence |-> session, round |-> found]
           /\ pending' = [p EXCEPT !.delivered = TRUE]
           /\ timers' = BackgroundTimers
           /\ calls' = AllQuiet
           /\ UNCHANGED <<server, wire, storage, session, budget>>
  <2>1. found \in Rounds
    BY <1>2, <1>9, Constants DEF Rounds, NoRound
  <2>2. pending' = [q EXCEPT !.delivered = TRUE]
    BY <1>4, <1>9
  <2>3. /\ pending' \in PendingRounds /\ pending'.round = found /\ pending'.start = m
        /\ pending'.delivered /\ ~pending'.ackStarted /\ ~pending'.pollDue
        /\ ~pending'.resubmitOnNotFound
    BY <1>5, <2>2 DEF PendingRounds
  <2>4. /\ page' \in Pages /\ page'.phase = "connected" /\ page'.end = page.end
        /\ page'.parked = page.parked
    BY <1>2, <1>9 DEF TypeOK, Pages
  <2>5. /\ history' \in [here : [Rounds -> 0 .. 2], ever : SUBSET Rounds, asked : SUBSET Rounds]
        /\ \A r \in Rounds \ {found} : history'.here[r] = history.here[r]
        /\ history.here[found] = 0 => history'.here[found] = 1
        /\ history'.ever = history.ever \union {found}
    BY <1>2, <1>9, <2>1, ShownView
  <2>6. history'.here[found] = 1
    BY <1>2, <2>1, <2>5 DEF PagesOK
  <2>7. PICK n \in 0 .. MaxRounds : n = session
    BY <1>2, Constants
  <2>8. lastApplied' = [sequence |-> n, round |-> found]
    BY <1>9, <2>7
  <2>9. lastApplied' \in [sequence : 0 .. MaxRounds, round : 0 .. MaxRounds]
    BY <1>2, <2>8
  <2>10. timers' \subseteq {"refresh", "status"}
    BY <1>2, <1>9, BackgroundType
  <2>11. TypeOK'
    BY <1>2, <1>9, <2>3, <2>4, <2>5, <2>9, <2>10, QuietType DEF TypeOK, Timers
  <2>12. Enters
    BY <1>2, <1>9, <2>4, <2>10 DEF Enters, PagesOK
  <2>13. EntersFound
    BY <1>1, <1>2, <1>3, <1>9, <2>1, <2>3, <2>5, <2>6, <2>10, <2>12 DEF EntersFound, Accepted
  <2>14. Arrives
    BY <2>11, <2>13 DEF Arrives
  <2>15. QED
    BY <2>14
<1>10. QED
  BY <1>6, <1>7, <1>8, <1>9 DEF FinishDiscover, Ends

\* The page submits a new round, saved before.
Stakes ==
  /\ Live /\ ~Waiting
  /\ storage' = [round |-> pending'.round, start |-> session]
  /\ pending' = Recovered(pending'.round, session)
  /\ pending'.round \in Rounds /\ server.round[pending'.round] = "absent"
  /\ \A m \in wire : m.round # pending'.round
  /\ calls'["submit"].stage \in {"sent", "await"} /\ calls'["submit"].reply = NoReply
  /\ calls'["submit"].stage = "sent" => calls["refresh"].stage = "idle"
  /\ \A k \in Kinds \ {"submit"} : calls'[k] = calls[k]
  /\ UNCHANGED <<server, wire, page, session, lastApplied, timers, history, budget>>

LEMMA requestSpinStakes ==
  ASSUME ClientOK, requestSpin
  PROVE  TypeOK' /\ Stakes
<1>1. TypeOK /\ CallsOK /\ Live /\ ~Waiting /\ session \in 0 .. MaxRounds
  BY DEF ClientOK, PagesOK, requestSpin, Live, TypeOK
<1>2. PICK r \in Unused : storage' = Saved(r) /\ pending' = Recovered(r, session)
  BY DEF requestSpin
<1>3. /\ r \in Rounds /\ server.round[r] = "absent" /\ \A m \in wire : m.round # r
      /\ r \in 0 .. MaxRounds
  <2>1. r \in 1 .. budget.rounds /\ budget.rounds \in Nat /\ budget.rounds <= MaxRounds
    BY <1>1 DEF Unused, ClientOK, ServerOK, TypeOK, Scenario
  <2>2. r \in Rounds /\ r \in 0 .. MaxRounds
    BY <2>1, Constants DEF Rounds
  <2>3. QED
    BY <2>2 DEF Unused
<1>4. /\ pending' \in PendingRounds /\ pending'.round = r
  BY <1>1, <1>2, <1>3, RecoveredType
<1>5. storage' \in Ledgers /\ storage' = [round |-> r, start |-> session]
  BY <1>1, <1>2, <1>3 DEF Saved, Ledgers
<1>6. /\ calls' \in [Kinds -> Calls]
      /\ \A k \in Kinds \ {"submit"} : calls'[k] = calls[k]
      /\ calls'["submit"].reply = NoReply
      /\ calls'["submit"].stage = IF calls["refresh"].stage = "idle" THEN "sent" ELSE "await"
  BY <1>1, PostView DEF requestSpin, TypeOK, Kinds, Authorized
<1>7. UNCHANGED <<server, wire, page, session, lastApplied, timers, history, budget>>
  BY DEF requestSpin
<1>8. TypeOK'
  BY <1>1, <1>4, <1>5, <1>6, <1>7 DEF TypeOK
<1>9. Stakes
  BY <1>1, <1>2, <1>3, <1>4, <1>5, <1>6, <1>7 DEF Stakes
<1>10. QED
  BY <1>8, <1>9

-----------------------------------------------------------------------------
(* Every step is of one of these kinds *)

PageSteps ==
  \/ Stops \/ Works \/ Delivers \/ Clears \/ Renewed
  \/ Connects \/ Discovers \/ EntersIdle \/ EntersLedger \/ EntersFound
  \/ Stakes \/ Relaunch

WorldSteps == SettlePending \/ ArriveLate \/ \E k \in Kinds : Serve(k) \/ Fault(k)

LEMMA RespondSteps ==
  ASSUME ClientOK, Respond
  PROVE  TypeOK' /\ PageSteps
<1>1. CASE FinishExchange \/ FinishDiscover
  BY <1>1, FinishExchangeSteps, FinishDiscoverSteps DEF Handles, Arrives, PageSteps
<1>2. CASE FinishSubmit \/ FinishPoll \/ FinishAcknowledgement \/ FinishProbe
           \/ \E k \in Authorized : Renews(k)
  <2>1. Handles
    BY <1>2, FinishSubmitHandles, FinishPollHandles, FinishAcknowledgementHandles,
       FinishProbeHandles, RenewsHandles DEF Kinds
  <2>2. QED
    BY <2>1 DEF Handles, PageSteps
<1>3. CASE FinishRefresh
  BY <1>3, FinishRefreshHandles DEF Handles, PageSteps
<1>4. QED
  BY <1>1, <1>2, <1>3 DEF Respond

LEMMA AvailabilitySteps ==
  ASSUME ClientOK, NEW online \in BOOLEAN, NEW visible \in BOOLEAN,
         setRuntimeAvailability(online, visible)
  PROVE  TypeOK' /\ PageSteps
<1>1. CASE /\ budget.toggles > 0 /\ Suspend(online, visible)
           /\ budget' = [budget EXCEPT !.toggles = @ - 1]
  BY <1>1, SuspendHandles DEF setRuntimeAvailability, Handles, PageSteps
<1>2. CASE Resume(online, visible)
  BY <1>2, ResumeSteps DEF setRuntimeAvailability, Handles, Arrives, PageSteps
<1>3. QED
  BY <1>1, <1>2 DEF setRuntimeAvailability

LEMMA StepKinds ==
  ASSUME ClientOK, Next
  PROVE  TypeOK' /\ (PageSteps \/ WorldSteps)
<1>1. TypeOK /\ ServerOK /\ PagesOK /\ CallsOK /\ PendingOK
  BY DEF ClientOK
<1>2. CASE connect
  BY <1>2, connectSteps DEF Handles, Arrives, PageSteps
<1>3. CASE requestSpin
  BY <1>3, requestSpinStakes DEF PageSteps
<1>4. CASE Respond
  BY <1>4, RespondSteps
<1>5. CASE acknowledgeSpinResult \/ Fire \/ WindowCloses \/ SessionTimeout \/ Close
  <2>1. Handles
    BY <1>5, acknowledgeSpinResultHandles, PollTimerHandles, AcknowledgementTimerHandles,
       DeadlineTimerHandles, RefreshTimerHandles, StatusTimerHandles,
       WindowClosesHandles, CloseHandles DEF Fire
  <2>2. QED
    BY <2>1 DEF Handles, PageSteps
<1>6. CASE Relaunch
  BY <1>1, <1>6, RelaunchType DEF PageSteps
<1>7. CASE \E online, visible \in BOOLEAN : setRuntimeAvailability(online, visible)
  BY <1>7, AvailabilitySteps
<1>8. CASE SettlePending \/ ArriveLate
  BY <1>1, <1>8, SettleView, ArriveView DEF WorldSteps
<1>9. CASE \E k \in Kinds : Serve(k) \/ Fault(k)
  BY <1>1, <1>9, ServeView, FaultView DEF WorldSteps
<1>10. QED
  BY <1>2, <1>3, <1>4, <1>5, <1>6, <1>7, <1>8, <1>9 DEF Next

\* A confirmation adds to what the server knows to be confirmed.
Confirmed ==
  /\ Live /\ Waiting /\ pending.delivered
  /\ server'.round = server.round /\ server'.rev = server.rev
  /\ server'.acked = server.acked \union {pending.round}

\* What the server does: nothing, move one round, or note a confirmation.
Serves ==
  \/ server' = server
  \/ \E r \in Rounds : Moved(server', r)
  \/ Confirmed

LEMMA WorldServes ==
  ASSUME ClientOK, WorldSteps
  PROVE  Serves
<1>1. TypeOK /\ ServerOK /\ PagesOK /\ CallsOK /\ PendingOK
  BY DEF ClientOK
<1>2. CASE SettlePending \/ ArriveLate
  BY <1>1, <1>2, SettleView, ArriveView, AcceptedMoves DEF Serves, Messages
<1>3. CASE \E k \in Kinds : Serve(k)
  <2>1. PICK k \in Kinds : Serve(k)
    BY <1>3
  <2>2. CASE k = "submit"
    BY <1>1, <2>1, <2>2, ServeView, AcceptedMoves DEF Serves, Messages
  <2>3. CASE k = "ack"
    <3>1. Active("ack") /\ "ack" \in Kinds
      BY <2>1, <2>3 DEF Serve, Active
    <3>2. Live /\ Waiting /\ pending.delivered
      BY <1>1, <3>1, AnsweredRound DEF CallsOK
    <3>3. QED
      BY <1>1, <2>1, <2>3, <3>2, ServeView DEF Serves, Confirmed
  <2>4. CASE k \notin {"submit", "ack"}
    BY <1>1, <2>1, <2>4, ServeView DEF Serves
  <2>5. QED
    BY <2>2, <2>3, <2>4
<1>4. CASE \E k \in Kinds : Fault(k)
  BY <1>4 DEF Fault, Serves
<1>5. QED
  BY <1>2, <1>3, <1>4 DEF WorldSteps

\* The server never takes back a verdict, a confirmation or a revision, and
\* counts each commit.
LEMMA ServerGrows ==
  ASSUME TypeOK, ServerOK, Serves
  PROVE  /\ server.rev <= server'.rev
         /\ server.acked \subseteq server'.acked
         /\ \A q \in Rounds : server.round[q] \in {"committed", "rejected", "review"}
              => server'.round[q] = server.round[q]
         /\ \A q \in Rounds : server'.round[q] = "committed" =>
              server.round[q] = "committed" \/ server'.rev = server.rev + 1
<1>1. server.rev \in Nat
  BY Constants DEF TypeOK, Servers
<1>2. CASE server' = server
  BY <1>1, <1>2
<1>3. CASE \E r \in Rounds : Moved(server', r)
  BY <1>1, <1>3 DEF Moved
<1>4. CASE Confirmed
  BY <1>1, <1>4 DEF Confirmed
<1>5. QED
  BY <1>2, <1>3, <1>4 DEF Serves

\* A step of the world leaves the page as it is.
LEMMA WorldKeeps ==
  ASSUME ClientOK, WorldSteps
  PROVE  /\ UNCHANGED <<storage, page, session, pending, lastApplied, timers, history>>
         /\ budget'.newTab = budget.newTab /\ budget'.rounds = budget.rounds
<1>1. CASE SettlePending \/ ArriveLate \/ \E k \in Kinds : Serve(k)
  BY <1>1 DEF SettlePending, ArriveLate, Serve
<1>2. CASE \E k \in Kinds : Fault(k)
  BY <1>2, FaultView DEF ClientOK, Fault
<1>3. QED
  BY <1>1, <1>2 DEF WorldSteps

LEMMA ServerInvariant ==
  ASSUME ClientOK, TypeOK', PageSteps \/ WorldSteps
  PROVE  ServerOK'
<1>1. TypeOK /\ ServerOK /\ PagesOK /\ CallsOK /\ RepliesOK /\ PendingOK
  BY DEF ClientOK
<1>2. CASE /\ server' = server /\ history'.ever = history.ever
           /\ \A r \in Rounds : history'.here[r] \in {0, history.here[r]}
           /\ budget'.rounds = budget.rounds
  <2>1. CommittedRounds' = CommittedRounds
    BY <1>2 DEF CommittedRounds
  <2>2. QED
    BY <1>1, <1>2, <2>1 DEF ServerOK
<1>3. CASE \E r \in Rounds :
             /\ server' = server /\ server.round[r] = "committed"
             /\ \A q \in Rounds \ {r} : history'.here[q] = history.here[q]
             /\ history'.ever = history.ever \union {r}
             /\ budget'.rounds = budget.rounds
  <2>1. CommittedRounds' = CommittedRounds
    BY <1>3 DEF CommittedRounds
  <2>2. QED
    BY <1>1, <1>3, <2>1 DEF ServerOK, CommittedRounds
<1>4. CASE WorldSteps
  <2>1. UNCHANGED history /\ budget'.rounds = budget.rounds /\ Serves
    BY <1>4, WorldKeeps, WorldServes
  <2>2. CASE server' = server
    BY <1>2, <2>1, <2>2
  <2>3. CASE \E r \in Rounds : Moved(server', r)
    <3>1. PICK r \in Rounds : Moved(server', r)
      BY <2>3
    <3>2. server'.acked = server.acked /\ server.round[r] # "committed"
      BY <3>1 DEF Moved
    <3>3. CommittedRounds' = IF server'.round[r] = "committed"
                             THEN CommittedRounds \union {r} ELSE CommittedRounds
      BY <3>1 DEF Moved, CommittedRounds
    <3>4. server'.rev = Cardinality(CommittedRounds')
      <4>1. CASE server'.round[r] = "committed"
        <5>1. server'.rev = server.rev + 1
          BY <3>1, <4>1 DEF Moved
        <5>2. Cardinality(CommittedRounds \union {r}) = server.rev + 1
          BY <1>1, <3>2, CountsOneMore
        <5>3. QED
          BY <3>3, <4>1, <5>1, <5>2
      <4>2. CASE server'.round[r] # "committed"
        <5>1. server'.rev = server.rev
          BY <3>1, <4>2 DEF Moved
        <5>2. QED
          BY <1>1, <3>3, <4>2, <5>1 DEF ServerOK
      <4>3. QED
        BY <4>1, <4>2
    <3>5. QED
      BY <1>1, <2>1, <3>2, <3>3, <3>4 DEF ServerOK
  <2>4. CASE Confirmed
    <3>1. pending.round \in history.ever
      BY <1>1, <2>4 DEF Confirmed, PendingOK
    <3>2. CommittedRounds' = CommittedRounds
      BY <2>4 DEF Confirmed, CommittedRounds
    <3>3. QED
      BY <1>1, <2>1, <2>4, <3>1, <3>2 DEF ServerOK, Confirmed
  <2>5. QED
    BY <2>1, <2>2, <2>3, <2>4 DEF Serves
<1>5. CASE Stops \/ Works \/ Clears \/ Renewed \/ Connects \/ Discovers \/ EntersIdle
           \/ EntersLedger \/ Stakes
  BY <1>2, <1>5 DEF Stops, Works, Clears, Renewed, Connects, Discovers, EntersIdle,
                    EntersLedger, Enters, Stakes
<1>6. CASE Delivers
  <2>1. pending.round \in Rounds
    BY <1>1, <1>6, WaitingRound DEF Delivers
  <2>2. QED
    BY <1>3, <1>6, <2>1 DEF Delivers
<1>7. CASE EntersFound
  <2>1. server.round[pending'.round] = "committed"
    BY <1>1, <1>7, Constants DEF EntersFound, RepliesOK, Rounds, NoRound
  <2>2. QED
    BY <1>2, <1>3, <1>7, <2>1 DEF EntersFound, Enters
<1>8. CASE Relaunch
  <2>1. /\ history'.ever = history.ever /\ \A r \in Rounds : history'.here[r] = 0
        /\ budget'.rounds = budget.rounds
    BY <1>1, <1>8 DEF Relaunch, TypeOK, Scenario
  <2>2. QED
    BY <1>2, <1>8, <2>1 DEF Relaunch
<1>9. QED
  BY <1>4, <1>5, <1>6, <1>7, <1>8 DEF PageSteps

\* What a step of the world makes of the calls: one of them may get its answer.
LEMMA WorldCalls ==
  ASSUME ClientOK, WorldSteps
  PROVE  /\ \A k \in Kinds :
              \/ calls'[k] = calls[k]
              \/ /\ calls[k].stage \in {"sent", "answered"} /\ calls'[k].stage = "answered"
                 /\ calls'[k].base = calls[k].base
         /\ \A k \in Kinds : Active(k)' <=> Active(k)
         /\ calls = AllQuiet => calls' = AllQuiet
<1>1. TypeOK /\ ServerOK /\ PagesOK /\ CallsOK /\ PendingOK
  BY DEF ClientOK
<1>2. calls = AllQuiet => \A k \in Kinds : calls[k].stage \notin {"sent", "answered"}
  BY QuietType
<1>3. CASE SettlePending \/ ArriveLate
  BY <1>3 DEF SettlePending, ArriveLate, Active
<1>4. CASE \E k \in Kinds : Serve(k) \/ Fault(k)
  <2>1. PICK k \in Kinds : Serve(k) \/ Fault(k)
    BY <1>4
  <2>2. /\ calls[k].stage \in {"sent", "answered"} /\ calls'[k].stage = "answered"
        /\ calls'[k].base = calls[k].base
        /\ \A j \in Kinds \ {k} : calls'[j] = calls[j]
    BY <1>1, <2>1, ServeView, FaultView
  <2>3. QED
    BY <1>2, <2>2 DEF Active
<1>5. QED
  BY <1>3, <1>4 DEF WorldSteps

\* A connected page starts no exchange and asks no cursor.
LEMMA SteadyCalls ==
  ASSUME ClientOK, Live, NEW p, NEW ts, NEW cs, Steady(p, ts, cs)
  PROVE  \A k \in Kinds : cs[k].stage # "idle" => k \notin {"exchange", "discover"}
<1>1. \A k \in {"exchange", "discover"} : k \in Kinds /\ calls[k].stage = "idle"
  BY DEF ClientOK, PagesOK, Live, Active, Kinds
<1>2. \A k \in {"exchange", "discover"} : CallMove(cs, k)
  BY <1>1 DEF Steady
<1>3. QED
  BY <1>1, <1>2 DEF CallMove, Posts, Resumes, Authorized

LEMMA RenewedSession ==
  ASSUME ClientOK, Renewed
  PROVE  /\ session' \in {session, session + 1}
         /\ session' # session => /\ session' = calls["refresh"].reply.rev
                                  /\ Waiting /\ session' <= pending.start + 1
                                  /\ pending.start <= session'
<1>1. /\ session \in -1 .. MaxRounds /\ calls["refresh"].reply.rev \in 0 .. MaxRounds
      /\ pending.start \in 0 .. MaxRounds
  BY DEF ClientOK, TypeOK, PendingRounds, Calls, Answers, Kinds
<1>2. QED
  BY <1>1, Constants DEF Renewed, validateRefreshedSession

LEMMA PagesInvariant ==
  ASSUME ClientOK, TypeOK', PageSteps \/ WorldSteps
  PROVE  PagesOK'
<1>1. TypeOK /\ ServerOK /\ PagesOK /\ CallsOK /\ RepliesOK /\ PendingOK
  BY DEF ClientOK
<1>2. \A k \in Kinds : AllQuiet[k].stage = "idle"
  BY QuietType
<1>3. CASE Stops
  BY <1>2, <1>3 DEF Stops, PagesOK, Active, Live, Kinds
<1>4. CASE Works /\ ~Live
  BY <1>1, <1>4 DEF Works, PagesOK, Active, Live, Kept
<1>5. CASE (Works /\ Live) \/ Delivers \/ Clears \/ Renewed
  <2>1. Live /\ Live'
    BY <1>5 DEF Works, Delivers, Clears, Renewed, Live
  <2>2. page'.phase = "connected" /\ page'.parked => FALSE
    BY <1>1, <1>5, <2>1 DEF Works, Delivers, Clears, Renewed, Live, PagesOK
  <2>3. \A k \in Kinds : calls'[k].stage # "idle" => k \notin {"exchange", "discover"}
    <3>1. CASE \/ Works \/ Delivers \/ Renewed
      <4>1. \E p : Steady(p, timers', calls')
        BY <3>1 DEF Works, Delivers, Renewed
      <4>2. QED
        BY <2>1, <4>1, SteadyCalls
    <3>2. CASE Clears
      <4>1. \A k \in {"exchange", "discover"} : calls'[k] = calls[k]
        BY <3>2 DEF Clears, Kinds
      <4>2. QED
        BY <1>1, <2>1, <4>1 DEF PagesOK, Active, Live, Kinds
    <3>3. QED
      BY <1>5, <3>1, <3>2
  <2>4. session' >= 0 /\ lastApplied'.sequence <= session'
    <3>1. /\ session \in -1 .. MaxRounds /\ lastApplied.sequence \in 0 .. MaxRounds
          /\ pending.start \in 0 .. MaxRounds
      BY <1>1 DEF TypeOK, PendingRounds
    <3>2. CASE Works \/ Clears
      BY <1>1, <2>1, <3>2 DEF Works, Clears, PagesOK
    <3>3. CASE Delivers
      <4>1. PICK n : n = pending.start + 1
        OBVIOUS
      <4>2. lastApplied'.sequence = n /\ session' = n
        BY <3>3, <4>1 DEF Delivers
      <4>3. QED
        BY <3>1, <4>1, <4>2, Constants
    <3>4. CASE Renewed
      <4>1. session' \in {session, session + 1} /\ lastApplied' = lastApplied
        BY <3>4, RenewedSession DEF Renewed
      <4>2. QED
        BY <1>1, <2>1, <3>1, <4>1, Constants DEF PagesOK
    <3>5. QED
      BY <1>5, <3>2, <3>3, <3>4
  <2>5. QED
    BY <2>1, <2>2, <2>3, <2>4 DEF PagesOK, Active, Live, Kinds
<1>6. CASE Connects
  BY <1>1, <1>6 DEF Connects, PagesOK, Active, Live, Kept, Kinds
<1>7. CASE Discovers
  <2>1. PICK n \in 0 .. MaxRounds : n = calls["exchange"].reply.rev
    BY <1>1 DEF TypeOK, Calls, Answers, Kinds
  <2>2. lastApplied' = [sequence |-> n, round |-> NoRound] /\ session' = n /\ n > 0
    BY <1>7, <2>1 DEF Discovers
  <2>3. lastApplied'.sequence = n /\ n <= n
    BY <2>1, <2>2
  <2>4. \A k \in Kinds : calls'[k].stage # "idle" => k = "discover"
    <3>1. \A k \in Kinds \ {"exchange", "discover"} : ~Active(k)
      BY <1>1, <1>7 DEF Discovers, PagesOK, Live
    <3>2. QED
      BY <1>7, <3>1, QuietType DEF Discovers, Active
  <2>5. page' = page /\ pending' = pending /\ timers' = timers /\ history' = history
        /\ storage' = storage /\ ~Kept /\ page.phase = "connecting"
    BY <1>7 DEF Discovers
  <2>6. QED
    BY <1>1, <2>2, <2>3, <2>4, <2>5 DEF PagesOK, Active, Live, Kept, Kinds
<1>8. CASE EntersIdle \/ EntersLedger \/ EntersFound
  <2>1. Enters
    BY <1>8 DEF EntersIdle, EntersLedger, EntersFound
  <2>2. Live' /\ ~page'.parked /\ page'.phase = "connected"
    BY <2>1 DEF Enters, Live
  <2>3. \A k \in Kinds : calls'[k].stage = "idle"
    BY <1>2, <2>1 DEF Enters
  <2>4. session' >= 0 /\ lastApplied'.sequence <= session'
    <3>1. CASE EntersIdle
      BY <3>1 DEF EntersIdle
    <3>2. CASE EntersLedger
      <4>1. storage.start \in 0 .. MaxRounds
        BY <1>1 DEF TypeOK, Ledgers
      <4>2. QED
        BY <3>2, <4>1, Constants DEF EntersLedger
    <3>3. CASE EntersFound
      <4>1. session > 0 /\ session \in -1 .. MaxRounds
        BY <1>1, <3>3 DEF EntersFound, Accepted, PagesOK, Active, TypeOK, Kinds
      <4>2. session' = session /\ lastApplied'.sequence \in {session, session - 1}
        BY <3>3 DEF EntersFound
      <4>3. QED
        BY <4>1, <4>2, Constants
    <3>4. QED
      BY <1>8, <3>1, <3>2, <3>3
  <2>5. QED
    BY <2>2, <2>3, <2>4 DEF PagesOK, Active, Live, Kinds
<1>9. CASE Stakes
  BY <1>1, <1>9 DEF Stakes, PagesOK, Active, Live, Kinds, Authorized
<1>10. CASE Relaunch
  <2>1. /\ page'.phase = "new" /\ ~page'.parked /\ calls' = AllQuiet /\ timers' = {}
        /\ session' = NoSession /\ pending' = NoPending
    BY <1>10 DEF Relaunch, FreshPage
  <2>2. \A r \in Rounds : history'.here[r] = 0
    BY <1>1, <1>10 DEF Relaunch, TypeOK
  <2>3. QED
    BY <1>2, <2>1, <2>2 DEF PagesOK, Active, Live, Kinds
<1>11. CASE WorldSteps
  <2>1. UNCHANGED <<storage, page, session, pending, lastApplied, timers, history>>
    BY <1>11, WorldKeeps
  <2>2. /\ \A k \in Kinds : Active(k)' <=> Active(k)
        /\ calls = AllQuiet => calls' = AllQuiet
    BY <1>11, WorldCalls
  <2>3. "exchange" \in Kinds /\ "discover" \in Kinds
    BY DEF Kinds
  <2>4. (Active("exchange")' <=> Active("exchange")) /\ (Active("discover")' <=> Active("discover"))
    BY <2>2, <2>3
  <2>5. Live' <=> Live
    BY <2>1 DEF Live
  <2>6. QED
    BY <1>1, <2>1, <2>2, <2>4, <2>5 DEF PagesOK, Kept
<1>12. QED
  BY <1>3, <1>4, <1>5, <1>6, <1>7, <1>8, <1>9, <1>10, <1>11 DEF PageSteps

\* A call under way was under way before, or has a reason.
LEMMA SteadyActive ==
  ASSUME ClientOK, NEW p, NEW ts, NEW cs, Steady(p, ts, cs)
  PROVE  \A k \in Kinds : cs[k].stage # "idle" => Active(k) \/ Posts(cs, k) \/ k = "refresh"
  BY DEF Steady, CallMove, Resumes, Active

LEMMA SteadyCallsOK ==
  ASSUME ClientOK, Live, Steady(pending', timers', calls'), storage' = storage,
         pending.delivered => pending'.delivered
  PROVE  CallsOK'
<1>1. /\ TypeOK /\ CallsOK /\ (Waiting' <=> Waiting)
      /\ "submit" \in Kinds /\ "poll" \in Kinds /\ "ack" \in Kinds
  BY DEF ClientOK, Steady, Waiting, Kinds, Authorized
<1>2. \A k \in {"submit", "poll", "ack"} : Active(k)' => Active(k) \/ Posts(calls', k)
  BY <1>1, SteadyActive DEF Active
<1>3. \A k \in {"submit", "poll", "ack"} : Active(k)' => Waiting'
  BY <1>1, <1>2 DEF Posts, CallsOK
<1>4. (timers \intersect {"poll", "ack", "deadline"} # {})' => Waiting'
  <2>1. pending.delivered => Waiting
    BY DEF ClientOK, PendingOK
  <2>2. "poll" \in timers' \/ "ack" \in timers' \/ "deadline" \in timers' => Waiting
    BY <2>1 DEF Steady
  <2>3. QED
    BY <1>1, <2>2
<1>5. Active("ack")' \/ "ack" \in timers' => pending'.delivered
  BY <1>1, <1>2 DEF Steady, Posts, CallsOK
<1>6. Active("submit")' \/ pending'.resubmitOnNotFound =>
        storage' = [round |-> pending'.round, start |-> pending'.start] /\ Waiting'
  BY <1>1, <1>2 DEF Steady, Posts, CallsOK
<1>7. QED
  BY <1>1, <1>3, <1>4, <1>5, <1>6 DEF CallsOK, Steady, Active

LEMMA CallsInvariant ==
  ASSUME ClientOK, TypeOK', PageSteps \/ WorldSteps
  PROVE  CallsOK'
<1>1. TypeOK /\ ServerOK /\ PagesOK /\ CallsOK /\ BoundsOK /\ PendingOK
  BY DEF ClientOK
<1>2. \A k \in Kinds : AllQuiet[k].stage = "idle"
  BY QuietType
<1>3. "submit" \in Kinds /\ "poll" \in Kinds /\ "ack" \in Kinds
  BY DEF Kinds, Authorized
<1>4. ASSUME calls' = AllQuiet, timers' \intersect {"poll", "ack", "deadline"} = {},
             storage' = storage, pending' \in {pending, NoPending}
      PROVE  CallsOK'
  BY <1>1, <1>2, <1>3, <1>4, PendingType DEF CallsOK, Active, Waiting
<1>5. CASE Stops \/ EntersIdle \/ Relaunch
  <2>1. calls' = AllQuiet /\ timers' \intersect {"poll", "ack", "deadline"} = {}
    BY <1>5 DEF Stops, EntersIdle, Enters, Relaunch
  <2>2. CASE Relaunch
    BY <1>2, <1>3, <2>1, <2>2, PendingType DEF CallsOK, Active, Waiting, Relaunch
  <2>3. CASE Stops \/ EntersIdle
    BY <1>4, <2>1, <2>3 DEF Stops, EntersIdle, Enters
  <2>4. QED
    BY <1>5, <2>2, <2>3
<1>6. CASE Works /\ ~Live
  BY <1>1, <1>6 DEF Works, CallsOK, Active, Waiting
<1>7. CASE (Works /\ Live) \/ Delivers \/ Renewed
  <2>1. /\ Live /\ Steady(pending', timers', calls') /\ storage' = storage
        /\ pending.delivered => pending'.delivered
    BY <1>7 DEF Works, Delivers, Renewed
  <2>2. QED
    BY <2>1, SteadyCallsOK
<1>8. CASE Clears
  BY <1>3, <1>8, QuietType, PendingType DEF Clears, CallsOK, Active, Waiting
<1>9. CASE Connects \/ Discovers
  <2>1. /\ UNCHANGED <<storage, pending, timers>>
        /\ \A k \in {"submit", "poll", "ack"} : calls'[k] = calls[k]
    BY <1>3, <1>9 DEF Connects, Discovers
  <2>2. QED
    BY <1>1, <2>1 DEF CallsOK, Active, Waiting
<1>10. CASE EntersLedger
  <2>1. /\ calls' = AllQuiet /\ timers' \subseteq {"refresh", "status", "poll"}
        /\ storage' = storage
        /\ pending'.round = storage.round /\ pending'.start = storage.start
        /\ pending'.pollAttempts = 0 /\ storage.round # NoRound
    BY <1>1, <1>10 DEF EntersLedger, Enters, BoundsOK
  <2>2. storage = [round |-> pending'.round, start |-> pending'.start]
    BY <1>1, <2>1 DEF TypeOK, Ledgers
  <2>3. QED
    BY <1>2, <1>3, <2>1, <2>2, Constants DEF CallsOK, Active, Waiting
<1>11. CASE EntersFound
  <2>1. /\ calls' = AllQuiet /\ timers' \subseteq {"refresh", "status"}
        /\ ~pending'.pollDue /\ ~pending'.resubmitOnNotFound
    BY <1>11 DEF EntersFound, Enters
  <2>2. QED
    BY <1>2, <1>3, <2>1 DEF CallsOK, Active, Waiting
<1>12. CASE Stakes
  <2>1. /\ pending'.round \in 0 .. MaxRounds /\ session \in 0 .. MaxRounds
        /\ pending'.round # NoRound
    BY <1>1, <1>12 DEF Stakes, TypeOK, PagesOK, Rounds, NoRound
  <2>2. /\ pending'.start = session /\ ~pending'.pollDue /\ pending'.round # NoRound
    BY <1>12, <2>1, RecoveredType DEF Stakes
  <2>3. storage' = [round |-> pending'.round, start |-> pending'.start]
    BY <1>12, <2>2 DEF Stakes
  <2>4. /\ calls'["poll"] = calls["poll"] /\ calls'["ack"] = calls["ack"] /\ timers' = timers
        /\ ~Active("poll") /\ ~Active("ack")
        /\ timers \intersect {"poll", "ack", "deadline"} = {}
    BY <1>1, <1>3, <1>12 DEF Stakes, CallsOK
  <2>5. QED
    BY <2>2, <2>3, <2>4 DEF CallsOK, Active, Waiting
<1>13. CASE WorldSteps
  <2>1. /\ UNCHANGED <<storage, pending, timers>>
        /\ \A k \in {"submit", "poll", "ack"} : Active(k)' <=> Active(k)
    BY <1>3, <1>13, WorldKeeps, WorldCalls
  <2>2. QED
    BY <1>1, <2>1 DEF CallsOK, Waiting
<1>14. QED
  BY <1>5, <1>6, <1>7, <1>8, <1>9, <1>10, <1>11, <1>12, <1>13 DEF PageSteps

LEMMA NoReplyView == NoReply.kind = "none" /\ NoReply.rev = 0 /\ NoReply.round = NoRound
  BY DEF NoReply

\* An answer read after a step of the page: the one that was there, or none
\* that says anything.
LEMMA SteadyReplies ==
  ASSUME ClientOK, NEW p, NEW ts, NEW cs, Steady(p, ts, cs)
  PROVE  \A k \in Kinds :
           \/ cs[k].reply = calls[k].reply
              /\ (cs[k].stage = "answered" => calls[k].stage = "answered")
           \/ /\ cs[k].reply.rev = 0
              /\ cs[k].stage = "answered" => cs[k].reply.kind \in Trouble
<1>1. \A k \in Kinds : CallMove(cs, k)
  BY DEF Steady
<1>2. QED
  BY <1>1, NoReplyView DEF CallMove, Posts, Resumes

\* An answer after a step of the world: the one that was there, a failure, or
\* what the server says now.
LEMMA WorldReplies ==
  ASSUME ClientOK, WorldSteps
  PROVE  \A k \in Kinds :
           \/ calls'[k] = calls[k]
           \/ calls'[k].reply.kind \in Trouble /\ calls'[k].reply.rev = 0
           \/ /\ calls'[k].reply = Served(k, server') /\ calls[k].stage = "sent"
              /\ k = "ack" => pending.round \in server'.acked
              /\ k \in {"submit", "poll"} => pending.round \in Rounds
<1>1. TypeOK /\ ServerOK /\ PagesOK /\ CallsOK /\ PendingOK
  BY DEF ClientOK
<1>2. CASE SettlePending \/ ArriveLate
  BY <1>2 DEF SettlePending, ArriveLate
<1>3. CASE \E k \in Kinds : Serve(k)
  <2>1. PICK j \in Kinds : Serve(j)
    BY <1>3
  <2>2. /\ \A k \in Kinds \ {j} : calls'[k] = calls[k]
        /\ calls'[j].reply = Served(j, server') /\ calls[j].stage = "sent"
        /\ j \in {"submit", "poll"} => pending.round \in Rounds
        /\ j = "ack" => server'.acked = server.acked \union {pending.round}
    BY <1>1, <2>1, ServeView
  <2>3. QED
    BY <2>2
<1>4. CASE \E k \in Kinds : Fault(k)
  BY <1>1, <1>4, FaultView
<1>5. QED
  BY <1>2, <1>3, <1>4 DEF WorldSteps

LEMMA RepliesInvariant ==
  ASSUME ClientOK, TypeOK', PageSteps \/ WorldSteps
  PROVE  RepliesOK'
<1>1. /\ TypeOK /\ ServerOK /\ PagesOK /\ CallsOK /\ RepliesOK /\ PendingOK
      /\ server.rev \in 0 .. MaxRounds
  BY DEF ClientOK, TypeOK, Servers
<1>2. \A k \in Kinds : AllQuiet[k].stage = "idle" /\ AllQuiet[k].reply.rev = 0
  BY QuietType, NoReplyView
<1>3. {"submit", "poll", "ack", "discover", "exchange"} \subseteq Kinds
  BY DEF Kinds, Authorized
<1>4. CASE server' = server /\ calls' = AllQuiet
  BY <1>1, <1>2, <1>3, <1>4, Constants DEF RepliesOK, Accepted
<1>5. CASE Stops \/ EntersIdle \/ EntersLedger \/ EntersFound \/ Relaunch
  BY <1>4, <1>5 DEF Stops, EntersIdle, EntersLedger, EntersFound, Enters, Relaunch
<1>6. CASE Works /\ ~Live
  BY <1>1, <1>6 DEF Works, RepliesOK, Accepted
<1>7. CASE (Works /\ Live) \/ Delivers \/ Renewed
  <2>1. Steady(pending', timers', calls') /\ server' = server /\ pending'.round = pending.round
    BY <1>7 DEF Works, Delivers, Renewed, Steady
  <2>2. \A k \in Kinds :
          \/ calls'[k].reply = calls[k].reply
             /\ (calls'[k].stage = "answered" => calls[k].stage = "answered")
          \/ /\ calls'[k].reply.rev = 0
             /\ calls'[k].stage = "answered" => calls'[k].reply.kind \in Trouble
    BY <2>1, SteadyReplies
  <2>3. "ok" \notin Trouble /\ "committed" \notin Trouble /\ "rejected" \notin Trouble
    BY DEF Trouble, Retryable
  <2>4. \A k \in Kinds : calls'[k].reply.rev <= server'.rev
    BY <1>1, <2>1, <2>2, Constants DEF RepliesOK
  <2>5. QED
    BY <1>1, <1>3, <2>1, <2>2, <2>3, <2>4 DEF RepliesOK, Accepted
<1>8. CASE Clears
  <2>1. \A k \in Kinds : calls'[k] = calls[k] \/ calls'[k] = Quiet
    BY <1>8 DEF Clears
  <2>2. \A k \in {"submit", "poll", "ack"} : calls'[k] = Quiet
    BY <1>8 DEF Clears
  <2>3. server' = server
    BY <1>8 DEF Clears
  <2>4. QED
    BY <1>1, <1>3, <2>1, <2>2, <2>3, QuietType, NoReplyView, Constants DEF RepliesOK, Accepted
<1>9. CASE Connects \/ Discovers
  <2>1. /\ server' = server /\ pending' = pending
        /\ \A k \in {"submit", "poll", "ack"} : calls'[k] = calls[k]
        /\ calls'["discover"].stage = "answered" => calls'["discover"] = calls["discover"]
        /\ \A k \in Kinds : calls'[k].reply = calls[k].reply \/ calls'[k].reply = NoReply
    BY <1>3, <1>9, QuietType DEF Connects, Discovers
  <2>2. QED
    BY <1>1, <1>3, <2>1, NoReplyView, Constants DEF RepliesOK, Accepted
<1>10. CASE Stakes
  <2>1. /\ server' = server /\ ~Active("poll") /\ ~Active("ack")
        /\ \A k \in Kinds \ {"submit"} : calls'[k] = calls[k]
        /\ calls'["submit"].stage # "answered" /\ calls'["submit"].reply = NoReply
    BY <1>1, <1>10 DEF Stakes, CallsOK
  <2>2. \A k \in Kinds : calls'[k].reply = calls[k].reply \/ calls'[k].reply = NoReply
    BY <2>1
  <2>3. calls'["poll"].stage = "idle" /\ calls'["ack"].stage = "idle"
        /\ calls'["discover"] = calls["discover"]
    BY <1>3, <2>1 DEF Active
  <2>4. QED
    BY <1>1, <1>3, <2>1, <2>2, <2>3, NoReplyView, Constants DEF RepliesOK, Accepted
<1>11. CASE WorldSteps
  <2>1. /\ pending' = pending /\ server' \in Servers
        /\ server.rev <= server'.rev /\ server.acked \subseteq server'.acked
        /\ \A q \in Rounds : server.round[q] \in {"committed", "rejected", "review"}
             => server'.round[q] = server.round[q]
    BY <1>1, <1>11, WorldKeeps, WorldServes, ServerGrows DEF TypeOK
  <2>2. server'.rev \in 0 .. MaxRounds
    BY <2>1 DEF Servers
  <2>3. /\ "ok" \notin Trouble /\ "committed" \notin Trouble /\ "rejected" \notin Trouble
    BY DEF Trouble, Retryable
  <2>4. ASSUME NEW k \in Kinds
        PROVE  calls'[k].reply.rev <= server'.rev
    <3>1. CASE calls'[k] = calls[k]
      <4>1. calls[k].reply.rev \in 0 .. MaxRounds
        BY <1>1 DEF TypeOK, Calls, Answers
      <4>2. QED
        BY <1>1, <2>1, <2>2, <3>1, <4>1, Constants DEF RepliesOK
    <3>2. CASE calls'[k].reply.rev = 0
      BY <2>2, <3>2
    <3>3. CASE /\ calls'[k].reply = Served(k, server')
               /\ k \in {"submit", "poll"} => pending.round \in Rounds
      BY <1>1, <2>1, <3>3, ServedType
    <3>4. QED
      BY <1>11, <3>1, <3>2, <3>3, WorldReplies
  <2>5. ASSUME NEW k \in {"submit", "poll"}, calls'[k].stage = "answered"
        PROVE  /\ calls'[k].reply.kind = "committed" => server'.round[pending.round] = "committed"
               /\ calls'[k].reply.kind = "rejected" => server'.round[pending.round] = "rejected"
    <3>1. CASE calls'[k] = calls[k]
      <4>1. pending.round \in Rounds
        BY <1>1, <1>3, <2>5, <3>1, WaitingRound DEF CallsOK, Active
      <4>2. QED
        BY <1>1, <2>1, <2>5, <3>1, <4>1 DEF RepliesOK
    <3>2. CASE calls'[k].reply.kind \in Trouble
      BY <2>3, <3>2
    <3>3. CASE calls'[k].reply = Served(k, server') /\ pending.round \in Rounds
      BY <1>1, <1>3, <2>1, <3>3, ServedType
    <3>4. QED
      BY <1>3, <1>11, <3>1, <3>2, <3>3, WorldReplies
  <2>6. Accepted("ack")' => pending.round \in server'.acked
    BY <1>1, <1>3, <1>11, <2>1, <2>3, WorldReplies DEF RepliesOK, Accepted
  <2>7. ASSUME Accepted("discover")', calls'["discover"].reply.round # NoRound
        PROVE  server'.round[calls'["discover"].reply.round] = "committed"
    <3>1. CASE calls'["discover"] = calls["discover"]
      <4>1. calls["discover"].reply.round \in Rounds
        <5>1. calls["discover"].reply.round \in 0 .. MaxRounds
          BY <1>1, <1>3 DEF TypeOK, Calls, Answers
        <5>2. QED
          BY <2>7, <3>1, <5>1, Constants DEF Rounds, NoRound
      <4>2. QED
        BY <1>1, <2>1, <2>7, <3>1, <4>1 DEF RepliesOK, Accepted
    <3>2. CASE calls'["discover"].reply.kind \in Trouble
      BY <2>3, <2>7, <3>2 DEF Accepted
    <3>3. CASE calls'["discover"].reply = Served("discover", server')
      BY <1>1, <1>3, <2>1, <2>7, <3>3, ServedType
    <3>4. QED
      BY <1>3, <1>11, <3>1, <3>2, <3>3, WorldReplies
  <2>8. QED
    BY <2>1, <2>4, <2>5, <2>6, <2>7 DEF RepliesOK
<1>12. QED
  BY <1>5, <1>6, <1>7, <1>8, <1>9, <1>10, <1>11 DEF PageSteps

\* The numbers the bounds are about.
LEMMA Numbers ==
  ASSUME TypeOK
  PROVE  /\ server.rev \in 0 .. MaxRounds /\ session \in -1 .. MaxRounds
         /\ storage.start \in 0 .. MaxRounds /\ storage.round \in 0 .. MaxRounds
         /\ pending.start \in 0 .. MaxRounds /\ pending.round \in 0 .. MaxRounds
         /\ lastApplied.sequence \in 0 .. MaxRounds
         /\ \A k \in Kinds : calls[k].reply.rev \in 0 .. MaxRounds
         /\ \A m \in wire : m.start \in 0 .. MaxRounds /\ m.round \in Rounds
  BY DEF TypeOK, Servers, Ledgers, PendingRounds, Calls, Answers, Messages

LEMMA CommandStart == Command.start = pending.start /\ Command.round = pending.round
  BY DEF Command

LEMMA BoundsInvariant ==
  ASSUME ClientOK, TypeOK', PageSteps \/ WorldSteps
  PROVE  BoundsOK'
<1>1. TypeOK /\ ServerOK /\ PagesOK /\ CallsOK /\ RepliesOK /\ BoundsOK /\ PendingOK
  BY DEF ClientOK
<1>2. /\ server.rev \in 0 .. MaxRounds /\ session \in -1 .. MaxRounds
      /\ storage.start \in 0 .. MaxRounds /\ storage.round \in 0 .. MaxRounds
      /\ pending.start \in 0 .. MaxRounds /\ pending.round \in 0 .. MaxRounds
      /\ \A m \in wire : m.start \in 0 .. MaxRounds
  BY <1>1, Numbers
<1>3. \A k \in Kinds : calls[k].reply.rev <= server.rev
  BY <1>1 DEF RepliesOK
<1>4. NoSession = -1 /\ NoPending.start = 0 /\ NoPending.round = NoRound
      /\ NoLedger.start = 0
  BY DEF NoSession, NoPending, NoLedger
<1>5. \A m \in Abandoned : m.start <= server.rev
  BY <1>1, CommandType, CommandStart DEF BoundsOK
<1>6. CASE Stops
  <2>1. /\ server' = server /\ storage' = storage /\ wire' \subseteq Abandoned
        /\ session' \in {session, NoSession} /\ pending' \in {pending, NoPending} /\ ~Live'
    BY <1>6 DEF Stops, Live
  <2>2. session' <= server.rev /\ pending'.start <= server.rev
    BY <1>1, <1>2, <1>4, <2>1, Constants DEF BoundsOK
  <2>3. QED
    BY <1>1, <1>5, <2>1, <2>2 DEF BoundsOK, Kept
<1>7. CASE Works \/ Connects
  BY <1>1, <1>7 DEF Works, Connects, Steady, BoundsOK, Live, Waiting, Kept
<1>8. CASE Delivers
  <2>1. /\ UNCHANGED <<server, wire, storage, page>>
        /\ pending'.round = pending.round /\ pending'.start = pending.start
        /\ session' = pending.start + 1
    BY <1>8 DEF Delivers, Steady
  <2>2. pending.start + 1 <= server.rev
    BY <1>1, <1>2, <1>8, Constants DEF Delivers, BoundsOK
  <2>3. QED
    BY <1>1, <2>1, <2>2 DEF BoundsOK, Live, Waiting, Kept
<1>9. CASE Clears
  <2>1. /\ UNCHANGED <<server, page, session>> /\ storage' = NoLedger
        /\ pending' = NoPending /\ wire' \subseteq Abandoned
    BY <1>9 DEF Clears
  <2>2. 0 <= server.rev /\ ~Waiting' /\ ~Kept'
    BY <1>2, <1>4, <2>1, Constants DEF Waiting, Kept
  <2>3. QED
    BY <1>1, <1>4, <1>5, <2>1, <2>2 DEF BoundsOK
<1>10. CASE Renewed
  <2>1. UNCHANGED <<server, wire, storage, page, pending>>
    BY <1>10 DEF Renewed
  <2>2. session' <= server.rev
    BY <1>1, <1>3, <1>10, RenewedSession DEF BoundsOK, Kinds
  <2>3. QED
    BY <1>1, <2>1, <2>2 DEF BoundsOK, Live, Waiting, Kept
<1>11. CASE Discovers
  <2>1. UNCHANGED <<server, wire, storage, page, pending>> /\ session' <= server.rev
    BY <1>3, <1>11 DEF Discovers, Kinds
  <2>2. QED
    BY <1>1, <2>1 DEF BoundsOK, Live, Waiting, Kept
<1>12. CASE EntersIdle
  <2>1. UNCHANGED <<server, wire, storage>> /\ pending' = NoPending
    BY <1>12 DEF EntersIdle, Enters
  <2>2. session' <= server.rev /\ ~Waiting' /\ 0 <= server.rev
    BY <1>1, <1>2, <1>4, <1>12, <2>1, Constants DEF EntersIdle, BoundsOK, Waiting
  <2>3. QED
    BY <1>1, <1>4, <2>1, <2>2 DEF BoundsOK, Kept
<1>13. CASE EntersLedger
  <2>1. /\ UNCHANGED <<server, wire, storage>> /\ Kept
        /\ pending'.start = storage.start /\ pending'.round = storage.round
        /\ session' <= server.rev
    BY <1>3, <1>13 DEF EntersLedger, Enters, Kinds
  <2>2. QED
    BY <1>1, <2>1 DEF BoundsOK, Kept
<1>14. CASE EntersFound
  <2>1. /\ UNCHANGED <<server, wire, storage>> /\ session' = session
        /\ pending'.start = session - 1
    BY <1>14 DEF EntersFound, Enters
  <2>2. session <= server.rev /\ pending'.start < server.rev /\ pending'.start <= server.rev
    BY <1>1, <1>2, <2>1, Constants DEF BoundsOK
  <2>3. QED
    BY <1>1, <2>1, <2>2 DEF BoundsOK, Kept
<1>15. CASE Stakes
  <2>1. /\ UNCHANGED <<server, wire, session>> /\ pending'.round \in Rounds
        /\ storage' = [round |-> pending'.round, start |-> session]
        /\ server.round[pending'.round] = "absent"
    BY <1>15 DEF Stakes
  <2>2. session \in 0 .. MaxRounds /\ pending'.round \in 0 .. MaxRounds
        /\ pending'.round # NoRound
    BY <1>1, <1>2, <1>15, <2>1 DEF Stakes, PagesOK, Rounds, NoRound
  <2>3. pending'.start = session
    BY <1>15, <2>2, RecoveredType DEF Stakes
  <2>4. QED
    BY <1>1, <2>1, <2>2, <2>3 DEF BoundsOK
<1>16. CASE Relaunch
  <2>1. /\ server' = server /\ session' = NoSession /\ pending' = NoPending
        /\ wire' = Abandoned /\ storage' \in {storage, NoLedger} /\ ~Live'
    BY <1>16 DEF Relaunch, FreshPage, Live
  <2>2. session' <= server.rev /\ 0 <= server.rev
    BY <1>2, <1>4, <2>1, Constants
  <2>3. QED
    BY <1>1, <1>4, <1>5, <2>1, <2>2 DEF BoundsOK, Kept
<1>17. CASE WorldSteps
  <2>1. /\ UNCHANGED <<storage, page, session, pending>>
        /\ server.rev <= server'.rev /\ server'.rev \in 0 .. MaxRounds
        /\ \A q \in Rounds : server'.round[q] = "committed" =>
             server.round[q] = "committed" \/ server'.rev = server.rev + 1
    BY <1>1, <1>17, WorldKeeps, WorldServes, ServerGrows DEF TypeOK, Servers
  <2>2. \A m \in wire' : m.start <= server.rev
    <3>1. CASE SettlePending \/ ArriveLate \/ \E k \in Kinds : Serve(k)
      BY <1>1, <3>1, ArriveView DEF SettlePending, Serve, BoundsOK
    <3>2. CASE \E k \in Kinds : Fault(k)
      BY <1>1, <3>2, FaultView, CommandStart DEF BoundsOK
    <3>3. QED
      BY <1>17, <3>1, <3>2 DEF WorldSteps
  <2>3. \A m \in wire' : m.start \in 0 .. MaxRounds
    BY DEF TypeOK, Messages
  <2>4. \A m \in wire' : m.start <= server'.rev
    BY <1>2, <2>1, <2>2, <2>3, Constants
  <2>5. session <= server'.rev /\ storage.start <= server'.rev /\ pending.start <= server'.rev
    BY <1>1, <1>2, <2>1, Constants DEF BoundsOK
  <2>6. Kept /\ server'.round[storage.round] = "committed" => storage.start < server'.rev
    <3>1. Kept => storage.round \in Rounds
      BY <1>1, <1>2, Constants DEF BoundsOK, Rounds, NoRound
    <3>2. QED
      BY <1>1, <1>2, <2>1, <3>1, Constants DEF BoundsOK
  <2>7. Live /\ Waiting /\ server'.round[pending.round] = "committed"
          => pending.start < server'.rev
    BY <1>1, <1>2, <2>1, WaitingRound, Constants DEF BoundsOK
  <2>8. QED
    BY <1>1, <2>1, <2>4, <2>5, <2>6, <2>7 DEF BoundsOK, Kept, Live, Waiting
<1>18. QED
  BY <1>6, <1>7, <1>8, <1>9, <1>10, <1>11, <1>12, <1>13, <1>14, <1>15, <1>16, <1>17
  DEF PageSteps

LEMMA PendingInvariant ==
  ASSUME ClientOK, TypeOK', PageSteps \/ WorldSteps
  PROVE  PendingOK'
<1>1. TypeOK /\ ServerOK /\ PagesOK /\ CallsOK /\ RepliesOK /\ BoundsOK /\ PendingOK
  BY DEF ClientOK
<1>2. /\ session \in -1 .. MaxRounds
      /\ storage.start \in 0 .. MaxRounds /\ storage.round \in 0 .. MaxRounds
      /\ pending.start \in 0 .. MaxRounds /\ pending.round \in 0 .. MaxRounds
      /\ lastApplied.sequence \in 0 .. MaxRounds
  BY <1>1, Numbers
<1>3. NoPending.round = NoRound /\ ~NoPending.delivered
  BY PendingType
<1>4. CASE Stops
  BY <1>1, <1>3, <1>4 DEF Stops, PendingOK, Live, Waiting
<1>5. CASE Works
  BY <1>1, <1>5 DEF Works, Steady, PendingOK, Live, Waiting, Kept
<1>6. CASE Delivers
  <2>1. /\ UNCHANGED <<storage, page>> /\ Live /\ Waiting
        /\ pending'.round = pending.round /\ pending'.start = pending.start
        /\ pending'.delivered
        /\ lastApplied' = [sequence |-> pending'.start + 1, round |-> pending'.round]
        /\ session' = pending.start + 1
        /\ history'.ever = history.ever \union {pending'.round}
    BY <1>6 DEF Delivers, Steady
  <2>2. pending'.start <= session' /\ pending'.start < session'
    BY <1>2, <2>1, Constants
  <2>3. QED
    BY <1>1, <2>1, <2>2 DEF PendingOK, Live, Waiting, Kept
<1>7. CASE Clears
  BY <1>3, <1>7 DEF Clears, PendingOK, Waiting, Kept
<1>8. CASE Renewed
  <2>1. UNCHANGED <<storage, page, pending, lastApplied, history>>
    BY <1>8 DEF Renewed
  <2>2. /\ pending.start <= session => pending.start <= session'
        /\ pending.start < session => pending.start < session'
    BY <1>1, <1>2, <1>8, RenewedSession, Constants
  <2>3. QED
    BY <1>1, <2>1, <2>2 DEF PendingOK, Live, Waiting, Kept
<1>9. CASE Connects \/ Discovers
  BY <1>1, <1>9 DEF Connects, Discovers, PendingOK, Live, Waiting
<1>10. CASE EntersIdle
  BY <1>3, <1>10 DEF EntersIdle, Enters, PendingOK, Waiting, Kept
<1>11. CASE EntersLedger
  <2>1. /\ storage' = storage /\ Kept /\ history' = history
        /\ pending'.round = storage.round /\ pending'.start = storage.start
        /\ session' \in {storage.start, storage.start + 1}
        /\ ~pending'.delivered /\ lastApplied'.sequence = storage.start
        /\ page.phase = "connecting"
    BY <1>11 DEF EntersLedger, Enters
  <2>2. storage = [round |-> pending'.round, start |-> pending'.start]
    BY <1>1, <2>1 DEF TypeOK, Ledgers
  <2>3. storage.round \in Rounds
    BY <1>1, <1>2, <2>1, Constants DEF BoundsOK, Rounds, NoRound
  <2>4. history'.here[pending'.round] = 0
    BY <1>1, <2>1, <2>3 DEF PagesOK
  <2>5. pending'.start <= session' /\ lastApplied'.sequence <= pending'.start
    BY <1>2, <2>1, Constants
  <2>6. pending'.round # NoRound
    BY <1>1, <2>1 DEF BoundsOK
  <2>7. QED
    BY <2>1, <2>2, <2>4, <2>5, <2>6 DEF PendingOK, Waiting, Kept
<1>12. CASE EntersFound
  <2>1. /\ ~Kept /\ storage' = storage /\ session' = session /\ page.phase = "connecting"
        /\ pending'.round \in Rounds /\ pending'.start = session - 1
    BY <1>12 DEF EntersFound, Enters
  <2>2. pending'.start < session' /\ pending'.start <= session' /\ pending'.start + 1 = session
        /\ pending'.start <= pending'.start
    BY <1>2, <2>1, Constants
  <2>3. pending'.round # NoRound
    BY <2>1, Constants DEF Rounds, NoRound
  <2>4. CASE /\ pending'.delivered
             /\ lastApplied' = [sequence |-> session, round |-> pending'.round]
             /\ history'.ever = history.ever \union {pending'.round}
    BY <2>1, <2>2, <2>3, <2>4 DEF PendingOK, Waiting, Kept
  <2>5. CASE ~pending'.delivered /\ lastApplied'.sequence = session - 1 /\ history' = history
    <3>1. history'.here[pending'.round] = 0
      BY <1>1, <2>1, <2>5 DEF PagesOK
    <3>2. QED
      BY <2>1, <2>2, <2>3, <2>5, <3>1 DEF PendingOK, Waiting, Kept
  <2>6. QED
    BY <1>12, <2>4, <2>5 DEF EntersFound
<1>13. CASE Stakes
  <2>1. /\ pending'.round \in Rounds /\ server.round[pending'.round] = "absent"
        /\ storage' = [round |-> pending'.round, start |-> session]
        /\ UNCHANGED <<page, session, lastApplied, history>> /\ Live
    BY <1>13 DEF Stakes
  <2>2. /\ session \in 0 .. MaxRounds /\ pending'.round \in 0 .. MaxRounds
        /\ pending'.round # NoRound /\ lastApplied.sequence <= session
    BY <1>1, <1>2, <2>1 DEF PagesOK, Rounds, NoRound
  <2>3. pending'.start = session /\ ~pending'.delivered
    BY <1>13, <2>2, RecoveredType DEF Stakes
  <2>4. history.here[pending'.round] = 0
    <3>1. pending'.round \notin history.ever
      BY <1>1, <2>1 DEF ServerOK, CommittedRounds
    <3>2. ~(history.here[pending'.round] > 0) /\ history.here[pending'.round] \in 0 .. 2
      BY <1>1, <2>1, <3>1 DEF ServerOK, TypeOK
    <3>3. QED
      BY <3>2
  <2>5. session <= session
    BY <2>2
  <2>6. QED
    BY <2>1, <2>2, <2>3, <2>4, <2>5 DEF PendingOK, Waiting, Kept
<1>14. CASE Relaunch
  BY <1>3, <1>14 DEF Relaunch, FreshPage, PendingOK, Live, Waiting
<1>15. CASE WorldSteps
  <2>1. UNCHANGED <<storage, page, session, pending, lastApplied, history>>
    BY <1>15, WorldKeeps
  <2>2. QED
    BY <1>1, <2>1 DEF PendingOK, Live, Waiting, Kept
<1>16. QED
  BY <1>4, <1>5, <1>6, <1>7, <1>8, <1>9, <1>10, <1>11, <1>12, <1>13, <1>14, <1>15
  DEF PageSteps

LEMMA ClientStarts == Init => ClientOK
<1> SUFFICES ASSUME Init PROVE ClientOK
  OBVIOUS
<1>1. /\ server.rev = 0 /\ server.acked = {} /\ server.round = [r \in Rounds |-> "absent"]
      /\ wire = {} /\ storage = NoLedger /\ page = FreshPage /\ session = NoSession
      /\ pending = NoPending /\ timers = {} /\ calls = AllQuiet
      /\ history.here = [r \in Rounds |-> 0] /\ history.ever = {} /\ history.asked = {}
      /\ lastApplied = [sequence |-> 0, round |-> NoRound]
      /\ budget \in Scenario /\ budget.rounds <= MaxRounds
  BY ClientAssumption DEF Init
<1>2. TypeOK
  <2>1. server \in Servers
    BY Constants DEF Init, Servers
  <2>2. history \in [here : [Rounds -> 0 .. 2], ever : SUBSET Rounds, asked : SUBSET Rounds]
    BY DEF Init
  <2>3. lastApplied \in [sequence : 0 .. MaxRounds, round : 0 .. MaxRounds]
    BY <1>1, Constants DEF NoRound
  <2>4. session \in -1 .. MaxRounds
    BY <1>1, Constants DEF NoSession
  <2>5. QED
    BY <1>1, <2>1, <2>2, <2>3, <2>4, FreshType, PendingType, QuietType DEF TypeOK
<1>3. page.phase = "new" /\ ~page.parked /\ ~Live
  BY <1>1 DEF FreshPage, Live
<1>4. \A k \in Kinds : ~Active(k) /\ calls[k].stage = "idle" /\ calls[k].reply.rev = 0
  BY <1>1, QuietType, NoReplyView DEF Active
<1>5. {"submit", "poll", "ack", "discover", "exchange"} \subseteq Kinds
  BY DEF Kinds, Authorized
<1>6. pending = NoPending /\ ~Waiting /\ ~pending.pollDue /\ ~pending.delivered
      /\ ~pending.resubmitOnNotFound /\ pending.start = 0
  BY <1>1, PendingType DEF Waiting
<1>7. ServerOK
  <2>1. CommittedRounds = {}
    BY <1>1 DEF CommittedRounds
  <2>2. Cardinality(CommittedRounds) = 0
    BY <2>1, FS_EmptySet
  <2>3. QED
    BY <1>1, <2>1, <2>2 DEF ServerOK
<1>8. PagesOK
  BY <1>1, <1>3, <1>4, <1>5, <1>6 DEF PagesOK
<1>9. CallsOK
  BY <1>1, <1>4, <1>5, <1>6 DEF CallsOK
<1>10. RepliesOK
  BY <1>1, <1>4, <1>5 DEF RepliesOK, Accepted
<1>11. BoundsOK
  BY <1>1, <1>3, <1>6 DEF BoundsOK, NoSession, NoLedger, Kept
<1>12. PendingOK
  BY <1>3, <1>6 DEF PendingOK
<1>13. QED
  BY <1>2, <1>7, <1>8, <1>9, <1>10, <1>11, <1>12 DEF ClientOK

LEMMA ClientKeeps == ClientOK /\ [Next]_vars => ClientOK'
<1>1. ASSUME ClientOK, Next
      PROVE  ClientOK'
  BY <1>1, StepKinds, ServerInvariant, PagesInvariant, CallsInvariant, RepliesInvariant,
     BoundsInvariant, PendingInvariant DEF ClientOK
<1>2. ASSUME ClientOK, UNCHANGED vars
      PROVE  ClientOK'
  BY <1>2 DEF vars, ClientOK, TypeOK, ServerOK, CommittedRounds, PagesOK, CallsOK,
              RepliesOK, BoundsOK, PendingOK, Live, Kept, Accepted, Active, Waiting
<1>3. QED
  BY <1>1, <1>2

-----------------------------------------------------------------------------
(* What a tab knows that kept its ledger *)

\* A round the server may still decide, or has committed and not confirmed.
OnItsWay(r) ==
  \/ server.round[r] \in {"pending", "review"}
  \/ server.round[r] = "committed" /\ r \notin server.acked
  \/ server.round[r] = "absent" /\ \E m \in wire : m.round = r

\* It is the round of the ledger; the server is at most one revision ahead of
\* that, and where it is when there is none, as every answer says.
KeptLedger ==
  /\ \A r \in Rounds : OnItsWay(r) => storage.round = r
  /\ Kept => server.rev = IF server.round[storage.round] = "committed"
                          THEN storage.start + 1 ELSE storage.start
  /\ ~Kept /\ session # NoSession => session = server.rev
  /\ Accepted("exchange") => IF Kept THEN storage.start <= calls["exchange"].reply.rev
                             ELSE calls["exchange"].reply.rev = server.rev
  /\ Accepted("discover") => calls["discover"].reply.rev = server.rev
  /\ Live /\ Waiting /\ ~Kept => /\ pending.start + 1 = session
                                 /\ server.round[pending.round] = "committed"

LedgerOK == ~budget.newTab => KeptLedger

\* While the token is renewed the session stays where the refresh saw it, or
\* one delivery ahead, and no confirmation of that delivery is on its way.
KeptRefresh ==
  LET c == calls["refresh"] IN
  /\ 0 <= c.base
  /\ \/ c.base = session
     \/ /\ Waiting /\ c.base = pending.start /\ session = pending.start + 1
        /\ calls["ack"].stage \notin {"sent", "answered"}
  /\ Accepted("refresh") => c.base <= c.reply.rev

RefreshOK == ~budget.newTab /\ Active("refresh") => KeptRefresh

TrustOK == ClientOK /\ LedgerOK /\ RefreshOK

LEMMA Never == \A r \in Rounds : r # NoRound
  BY Constants DEF Rounds, NoRound

LEMMA EmptyLedger == NoLedger.round = NoRound /\ NoLedger.start = 0
  BY DEF NoLedger

\* Without a ledger nothing is on its way.
LEMMA NothingOnItsWay ==
  ASSUME TypeOK, KeptLedger, ~Kept
  PROVE  \A r \in Rounds : ~OnItsWay(r)
  BY Never, EmptyLedger DEF KeptLedger, Kept

\* A page that leaves changes nothing of what is on its way.
LEMMA AbandonedOnItsWay ==
  ASSUME ClientOK, KeptLedger, server' = server, storage' = storage, wire' \subseteq Abandoned
  PROVE  \A r \in Rounds : OnItsWay(r)' => storage'.round = r
<1> SUFFICES ASSUME NEW r \in Rounds, OnItsWay(r)' PROVE storage.round = r
  OBVIOUS
<1>1. CASE OnItsWay(r)
  BY <1>1 DEF KeptLedger
<1>2. CASE ~OnItsWay(r)
  <2>1. server.round[r] = "absent" /\ \E m \in Abandoned : m.round = r /\ m \notin wire
    BY <1>2 DEF OnItsWay
  <2>2. calls["submit"].stage = "sent" /\ Command.round = r
    BY <2>1, CommandType DEF ClientOK
  <2>3. storage = [round |-> pending.round, start |-> pending.start] /\ pending.round = r
    BY <2>2, CommandStart DEF ClientOK, CallsOK, Active
  <2>4. QED
    BY <2>3
<1>3. QED
  BY <1>1, <1>2

\* The round the server moves is the one of the ledger.
LEMMA MovedLedger ==
  ASSUME ClientOK, KeptLedger, WorldSteps, NEW r \in Rounds, Moved(server', r)
  PROVE  storage.round = r
<1>1. TypeOK /\ ServerOK /\ PagesOK /\ CallsOK /\ PendingOK
  BY DEF ClientOK
<1>2. CASE server.round[r] = "pending"
  BY <1>2 DEF KeptLedger, OnItsWay
<1>3. CASE server.round[r] = "absent"
  <2>1. server'.round[r] # "absent"
    BY DEF Moved, Verdicts
  <2>2. CASE SettlePending
    <3>1. PICK q \in Rounds : Moved(server', q) /\ server.round[q] = "pending"
      BY <1>1, <2>2, SettleView
    <3>2. QED
      BY <1>3, <2>1, <3>1 DEF Moved
  <2>3. CASE ArriveLate
    <3>1. PICK m \in wire : server' \in Accepts(server, m) /\ m \in Messages
      BY <1>1, <2>3, ArriveView
    <3>2. Moved(server', m.round) /\ m.round \in Rounds
      BY <1>1, <1>3, <2>1, <3>1, AcceptedMoves DEF Messages
    <3>3. m.round = r
      BY <1>3, <2>1, <3>2 DEF Moved
    <3>4. QED
      BY <1>3, <3>1, <3>3 DEF KeptLedger, OnItsWay
  <2>4. CASE \E k \in Kinds : Serve(k)
    <3>1. PICK k \in Kinds : Serve(k)
      BY <2>4
    <3>2. k = "submit"
      <4>1. k = "ack" => server'.round = server.round
        BY <1>1, <3>1, ServeView
      <4>2. k \notin {"submit", "ack"} => server' = server
        BY <1>1, <3>1, ServeView
      <4>3. QED
        BY <1>3, <2>1, <4>1, <4>2
    <3>3. server' \in Accepts(server, Command) /\ Command \in Messages /\ Active("submit")
      BY <1>1, <3>1, <3>2, ServeView DEF Active
    <3>4. Moved(server', Command.round) /\ Command.round \in Rounds
      BY <1>1, <1>3, <2>1, <3>3, AcceptedMoves DEF Messages
    <3>5. Command.round = r
      BY <1>3, <2>1, <3>4 DEF Moved
    <3>6. storage = [round |-> pending.round, start |-> pending.start] /\ pending.round = r
      BY <1>1, <3>3, <3>5, CommandStart DEF CallsOK
    <3>7. QED
      BY <3>6
  <2>5. CASE \E k \in Kinds : Fault(k)
    BY <1>3, <2>1, <2>5 DEF Fault
  <2>6. QED
    BY <2>2, <2>3, <2>4, <2>5 DEF WorldSteps
<1>4. QED
  BY <1>2, <1>3 DEF Moved

\* Only a relaunch changes what is left in the tab, and not this tab.
LEMMA SameTab ==
  ASSUME ClientOK, PageSteps \/ WorldSteps
  PROVE  budget'.newTab = budget.newTab
<1>1. CASE Relaunch
  BY <1>1 DEF Relaunch, ClientOK, TypeOK, Scenario
<1>2. CASE WorldSteps
  BY <1>2, WorldKeeps
<1>3. CASE ~Relaunch /\ PageSteps
  BY <1>3 DEF PageSteps, Stops, Works, Delivers, Clears, Renewed, Connects, Discovers,
              EntersIdle, EntersLedger, EntersFound, Enters, Stakes
<1>4. QED
  BY <1>1, <1>2, <1>3

LEMMA LedgerStays ==
  ASSUME ClientOK, KeptLedger, UNCHANGED <<server, wire, storage>>
  PROVE  /\ \A r \in Rounds : OnItsWay(r)' => storage'.round = r
         /\ Kept' => server'.rev = IF server'.round[storage'.round] = "committed"
                                   THEN storage'.start + 1 ELSE storage'.start
         /\ Kept' <=> Kept
  BY DEF KeptLedger, OnItsWay, Kept

\* A connected or closed page has no exchange and no cursor to hear from.
LEMMA NoHandshake ==
  ASSUME PagesOK', page'.phase # "connecting"
  PROVE  ~Accepted("exchange")' /\ ~Accepted("discover")'
  BY DEF PagesOK, Accepted, Active, Kinds

\* A submission that will arrive late is one of before, or of the ledger.
LEMMA WorldWire ==
  ASSUME ClientOK, WorldSteps
  PROVE  \A m \in wire' : m \in wire \/ m.round = storage.round
<1>1. TypeOK /\ ServerOK /\ CallsOK
  BY DEF ClientOK
<1>2. CASE SettlePending \/ ArriveLate \/ \E k \in Kinds : Serve(k)
  BY <1>1, <1>2, ArriveView DEF SettlePending, Serve
<1>3. CASE \E k \in Kinds : Fault(k)
  <2>1. PICK k \in Kinds : Fault(k)
    BY <1>3
  <2>2. CASE wire' = wire
    BY <2>2
  <2>3. CASE k = "submit" /\ calls[k].stage = "sent" /\ wire' = wire \union {Command}
    <3>1. storage = [round |-> pending.round, start |-> pending.start]
      BY <1>1, <2>3 DEF CallsOK, Active
    <3>2. QED
      BY <2>3, <3>1, CommandStart
  <2>4. QED
    BY <1>1, <2>1, <2>2, <2>3, FaultView
<1>4. QED
  BY <1>2, <1>3 DEF WorldSteps

LEMMA LedgerInvariant ==
  ASSUME ClientOK, ClientOK', LedgerOK, PageSteps \/ WorldSteps
  PROVE  LedgerOK'
<1> SUFFICES ASSUME ~budget'.newTab PROVE KeptLedger'
  BY DEF LedgerOK
<1>1. /\ TypeOK /\ ServerOK /\ PagesOK /\ CallsOK /\ RepliesOK /\ BoundsOK /\ PendingOK
      /\ PagesOK' /\ BoundsOK' /\ KeptLedger /\ ~budget.newTab
  BY SameTab DEF ClientOK, LedgerOK
<1>2. /\ server.rev \in 0 .. MaxRounds /\ session \in -1 .. MaxRounds
      /\ storage.start \in 0 .. MaxRounds /\ storage.round \in 0 .. MaxRounds
      /\ pending.start \in 0 .. MaxRounds /\ pending.round \in 0 .. MaxRounds
  BY <1>1, Numbers
<1>3. CASE Stops \/ Relaunch
  <2>1. /\ server' = server /\ storage' = storage /\ wire' \subseteq Abandoned
        /\ session' \in {session, NoSession} /\ page'.phase \in {"off", "new"}
    BY <1>1, <1>3 DEF Stops, Relaunch, FreshPage
  <2>2. QED
    BY <1>1, <2>1, NoHandshake, AbandonedOnItsWay DEF KeptLedger, Kept, Live
<1>4. CASE Works /\ Live
  <2>1. /\ UNCHANGED <<server, wire, storage, session>> /\ page'.phase = "connected"
        /\ pending'.round = pending.round /\ pending'.start = pending.start
    BY <1>4 DEF Works, Steady, Live
  <2>2. QED
    BY <1>1, <1>4, <2>1, NoHandshake, LedgerStays DEF KeptLedger, Live, Waiting
<1>5. CASE Works /\ ~Live
  <2>1. /\ UNCHANGED <<server, wire, storage, session, calls, pending>>
        /\ page'.phase = page.phase
    BY <1>5 DEF Works
  <2>2. QED
    BY <1>1, <2>1, LedgerStays DEF KeptLedger, Live, Waiting, Accepted
<1>6. CASE Delivers
  <2>1. /\ UNCHANGED <<server, wire, storage, page>> /\ Live /\ Waiting
        /\ pending'.round = pending.round /\ pending'.start = pending.start
        /\ session' = pending.start + 1 /\ server.round[pending.round] = "committed"
    BY <1>6 DEF Delivers, Steady
  <2>2. ~Kept => session' = server.rev
    BY <1>1, <2>1, Constants DEF KeptLedger, PagesOK, NoSession
  <2>3. page'.phase # "connecting"
    BY <2>1 DEF Live
  <2>4. QED
    BY <1>1, <2>1, <2>2, <2>3, NoHandshake, LedgerStays DEF KeptLedger, Live, Waiting
<1>7. CASE Renewed
  <2>1. /\ UNCHANGED <<server, wire, storage, page, pending>> /\ Live
    BY <1>7 DEF Renewed
  <2>2. ~Kept => session' = session
    <3>1. ~Kept => session = server.rev
      BY <1>1, <2>1, Constants DEF KeptLedger, PagesOK, NoSession
    <3>2. session' <= server.rev
      BY <1>1, <2>1 DEF BoundsOK
    <3>3. QED
      BY <1>1, <1>2, <1>7, <3>1, <3>2, RenewedSession, Constants
  <2>3. page'.phase # "connecting"
    BY <2>1 DEF Live
  <2>4. QED
    BY <1>1, <2>1, <2>2, <2>3, NoHandshake, LedgerStays DEF KeptLedger, Live, Waiting
<1>8. CASE Clears
  <2>1. /\ Live /\ Waiting /\ UNCHANGED <<server, page, session>>
        /\ storage' = NoLedger /\ pending' = NoPending /\ wire' \subseteq Abandoned
    BY <1>8 DEF Clears
  <2>2. ~Kept' /\ ~Waiting' /\ page'.phase # "connecting" /\ pending.round \in Rounds
    BY <1>1, <2>1, PendingType, WaitingRound DEF Kept, Waiting, Live
  <2>3. ~OnItsWay(pending.round) /\ server.round[pending.round] # "absent"
    BY <1>1, <1>8, <2>2 DEF Clears, OnItsWay, ServerOK, CommittedRounds
  <2>4. \A r \in Rounds : ~OnItsWay(r)
    <3>1. CASE Kept
      BY <1>1, <2>1, <2>3, <3>1 DEF PendingOK, KeptLedger
    <3>2. CASE ~Kept
      BY <1>1, <3>2, NothingOnItsWay
    <3>3. QED
      BY <3>1, <3>2
  <2>5. \A r \in Rounds : ~OnItsWay(r)'
    <3>1. \A m \in wire' : m \in wire \/ m.round = pending.round
      BY <1>1, <2>1, CommandType, CommandStart
    <3>2. QED
      BY <2>1, <2>3, <2>4, <3>1 DEF OnItsWay
  <2>6. session' = server.rev
    <3>1. CASE ~Kept
      BY <1>1, <2>1, <3>1, Constants DEF KeptLedger, PagesOK, NoSession
    <3>2. CASE Kept
      <4>1. /\ storage = [round |-> pending.round, start |-> pending.start]
            /\ pending.start <= session /\ session <= server.rev
        BY <1>1, <2>1, <3>2 DEF PendingOK, BoundsOK
      <4>2. storage.round = pending.round /\ storage.start = pending.start
        BY <4>1
      <4>3. CASE server.round[pending.round] = "rejected"
        <5>1. server.rev = pending.start
          BY <1>1, <3>2, <4>2, <4>3 DEF KeptLedger
        <5>2. QED
          BY <1>2, <2>1, <4>1, <5>1, Constants
      <4>4. CASE pending.delivered /\ pending.round \in server.acked
        <5>1. server.round[pending.round] = "committed" /\ pending.start < session
          BY <1>1, <2>1, <2>2, <4>4 DEF ServerOK, CommittedRounds, PendingOK
        <5>2. server.rev = pending.start + 1
          BY <1>1, <3>2, <4>2, <5>1 DEF KeptLedger
        <5>3. QED
          BY <1>2, <2>1, <4>1, <5>1, <5>2, Constants
      <4>5. QED
        BY <1>8, <4>3, <4>4 DEF Clears
    <3>3. QED
      BY <3>1, <3>2
  <2>7. QED
    BY <1>1, <2>1, <2>2, <2>5, <2>6, NoHandshake DEF KeptLedger
<1>9. CASE Connects
  <2>1. /\ UNCHANGED <<server, wire, storage, session>> /\ ~Live'
        /\ calls'["exchange"].stage = "sent" /\ calls'["discover"] = calls["discover"]
        /\ page.phase = "new"
    BY <1>9 DEF Connects, Live, Kinds
  <2>2. ~Accepted("discover")
    BY <1>1, <2>1, QuietType DEF PagesOK, Accepted, Kinds
  <2>3. ~Accepted("exchange")' /\ ~Accepted("discover")'
    BY <2>1, <2>2 DEF Accepted
  <2>4. QED
    BY <1>1, <2>1, <2>3, LedgerStays DEF KeptLedger
<1>10. CASE Discovers
  <2>1. /\ UNCHANGED <<server, wire, storage, page>> /\ ~Kept /\ Accepted("exchange")
        /\ session' = calls["exchange"].reply.rev
        /\ calls'["exchange"] = Quiet /\ calls'["discover"].stage = "sent" /\ ~Live'
    BY <1>10 DEF Discovers, Live
  <2>2. session' = server.rev /\ ~Accepted("exchange")' /\ ~Accepted("discover")'
    BY <1>1, <2>1, QuietType DEF KeptLedger, Accepted
  <2>3. QED
    BY <1>1, <2>1, <2>2, LedgerStays DEF KeptLedger
<1>11. CASE EntersIdle
  <2>1. /\ UNCHANGED <<server, wire, storage>> /\ ~Kept /\ pending' = NoPending
        /\ page'.phase = "connected"
    BY <1>11 DEF EntersIdle, Enters
  <2>2. session' = server.rev
    <3>1. CASE session' = 0 /\ Accepted("exchange") /\ calls["exchange"].reply.rev = 0
      BY <1>1, <2>1, <3>1 DEF KeptLedger
    <3>2. CASE session' = session /\ Accepted("discover")
      BY <1>1, <2>1, <3>2, Constants
      DEF KeptLedger, PagesOK, Accepted, Active, NoSession, Kinds
    <3>3. QED
      BY <1>11, <3>1, <3>2 DEF EntersIdle
  <2>3. ~Waiting'
    BY <2>1, PendingType DEF Waiting
  <2>4. QED
    BY <1>1, <2>1, <2>2, <2>3, NoHandshake, LedgerStays DEF KeptLedger
<1>12. CASE EntersLedger
  <2>1. UNCHANGED <<server, wire, storage>> /\ Kept /\ page'.phase = "connected"
    BY <1>12 DEF EntersLedger, Enters
  <2>2. QED
    BY <1>1, <2>1, NoHandshake, LedgerStays DEF KeptLedger
<1>13. CASE EntersFound
  <2>1. /\ UNCHANGED <<server, wire, storage>> /\ ~Kept /\ page'.phase = "connected"
        /\ session' = session /\ Accepted("discover")
        /\ pending'.start = session - 1
    BY <1>13 DEF EntersFound, Enters
  <2>2. session = server.rev
    BY <1>1, <2>1, Constants DEF KeptLedger, PagesOK, Accepted, Active, NoSession, Kinds
  <2>3. server.round[pending'.round] = "committed"
    BY <1>1, <1>13, Never DEF EntersFound, RepliesOK
  <2>4. pending'.start + 1 = session'
    BY <1>2, <2>1, Constants
  <2>5. QED
    BY <1>1, <2>1, <2>2, <2>3, <2>4, NoHandshake, LedgerStays DEF KeptLedger
<1>14. CASE Stakes
  <2>1. /\ Live /\ ~Waiting /\ UNCHANGED <<server, wire, session, page>>
        /\ storage' = [round |-> pending'.round, start |-> session]
        /\ pending'.round \in Rounds /\ server.round[pending'.round] = "absent"
    BY <1>14 DEF Stakes
  <2>2. ~Kept /\ session = server.rev /\ page'.phase # "connecting"
    BY <1>1, <2>1, Constants DEF PendingOK, KeptLedger, PagesOK, NoSession, Live
  <2>3. \A r \in Rounds : ~OnItsWay(r)'
    BY <1>1, <2>1, <2>2, NothingOnItsWay DEF OnItsWay
  <2>4. storage'.round = pending'.round /\ storage'.start = server.rev /\ Kept'
    BY <2>1, <2>2, Never, EmptyLedger DEF Kept
  <2>5. QED
    BY <1>1, <2>1, <2>2, <2>3, <2>4, NoHandshake DEF KeptLedger
<1>15. CASE WorldSteps
  <2>1. UNCHANGED <<storage, page, session, pending>> /\ server' \in Servers
    BY <1>15, WorldKeeps DEF ClientOK, TypeOK
  <2>2. \A m \in wire' : m \in wire \/ m.round = storage.round
    BY <1>15, WorldWire
  <2>3. /\ Kept' <=> Kept
        /\ Live' <=> Live
        /\ Waiting' <=> Waiting
    BY <2>1 DEF Kept, Live, Waiting
  <2>4. "exchange" \in Kinds /\ "discover" \in Kinds /\ "ok" \notin Trouble
    BY DEF Kinds, Trouble, Retryable
  <2>5. Accepted("exchange")' =>
          \/ calls'["exchange"] = calls["exchange"] /\ Accepted("exchange")
          \/ calls'["exchange"].reply.rev = server'.rev
    BY <1>1, <1>15, <2>1, <2>4, WorldReplies, ServedType DEF Accepted
  <2>6. Accepted("discover")' =>
          \/ calls'["discover"] = calls["discover"] /\ Accepted("discover")
          \/ calls'["discover"].reply.rev = server'.rev
    BY <1>1, <1>15, <2>1, <2>4, WorldReplies, ServedType DEF Accepted
  <2>7. CASE \E r \in Rounds : Moved(server', r)
    <3>1. PICK r \in Rounds : Moved(server', r)
      BY <2>7
    <3>2. storage.round = r /\ Kept
      BY <1>1, <1>15, <3>1, MovedLedger, Never, EmptyLedger DEF Kept
    <3>3. \A q \in Rounds : OnItsWay(q)' => storage.round = q
      BY <1>1, <2>2, <3>1, <3>2 DEF OnItsWay, Moved, KeptLedger
    <3>4. server'.rev = IF server'.round[storage.round] = "committed"
                        THEN storage.start + 1 ELSE storage.start
      <4>1. server.rev = storage.start
        BY <1>1, <3>1, <3>2 DEF KeptLedger, Moved
      <4>2. QED
        BY <3>1, <3>2, <4>1 DEF Moved
    <3>5. Accepted("exchange")' => storage.start <= calls'["exchange"].reply.rev
      BY <1>1, <2>1, <2>5, <3>2 DEF KeptLedger, BoundsOK
    <3>6. ~Accepted("discover")'
      BY <1>1, <2>3, <2>4, <3>2 DEF PagesOK, Accepted, Active
    <3>7. QED
      BY <2>1, <2>3, <3>2, <3>3, <3>4, <3>5, <3>6 DEF KeptLedger
  <2>8. CASE server'.round = server.round /\ server'.rev = server.rev
             /\ server.acked \subseteq server'.acked
    <3>1. \A q \in Rounds : OnItsWay(q)' => storage.round = q
      BY <1>1, <2>2, <2>8 DEF OnItsWay, KeptLedger
    <3>2. Accepted("exchange")' => IF Kept THEN storage.start <= calls'["exchange"].reply.rev
                                   ELSE calls'["exchange"].reply.rev = server'.rev
      BY <1>1, <2>1, <2>5, <2>8 DEF KeptLedger, BoundsOK
    <3>3. Accepted("discover")' => calls'["discover"].reply.rev = server'.rev
      BY <1>1, <2>6, <2>8 DEF KeptLedger
    <3>4. QED
      BY <1>1, <2>1, <2>3, <2>8, <3>1, <3>2, <3>3 DEF KeptLedger
  <2>9. QED
    BY <1>15, <2>7, <2>8, WorldServes DEF Serves, Confirmed
<1>16. QED
  BY <1>3, <1>4, <1>5, <1>6, <1>7, <1>8, <1>9, <1>10, <1>11, <1>12, <1>13, <1>14, <1>15
  DEF PageSteps

\* While the token is renewed no other call is sent.
LEMMA SteadyRefresh ==
  ASSUME NEW p, NEW ts, NEW cs, Steady(p, ts, cs), cs["refresh"].stage # "idle"
  PROVE  /\ \/ /\ cs["refresh"].stage = calls["refresh"].stage
               /\ cs["refresh"].reply = calls["refresh"].reply
               /\ cs["refresh"].base = calls["refresh"].base
            \/ Live /\ cs["refresh"].stage = "sent" /\ cs["refresh"].base = session
         /\ cs["ack"].stage \in {"sent", "answered"}
              => calls["ack"].stage \in {"sent", "answered"}
<1>1. "refresh" \in Kinds /\ "ack" \in Kinds /\ "refresh" \notin Authorized
  BY DEF Kinds, Authorized
<1>2. CallMove(cs, "refresh") /\ CallMove(cs, "ack")
  BY <1>1 DEF Steady
<1>3. QED
  BY <1>1, <1>2 DEF CallMove, Posts, Resumes

LEMMA RefreshInvariant ==
  ASSUME ClientOK, ClientOK', LedgerOK, RefreshOK, PageSteps \/ WorldSteps
  PROVE  RefreshOK'
<1> SUFFICES ASSUME ~budget'.newTab, Active("refresh")' PROVE KeptRefresh'
  BY DEF RefreshOK
<1>1. /\ TypeOK /\ ServerOK /\ PagesOK /\ CallsOK /\ BoundsOK /\ PendingOK
      /\ PagesOK' /\ BoundsOK' /\ KeptLedger
      /\ Active("refresh") => KeptRefresh
  BY SameTab DEF ClientOK, LedgerOK, RefreshOK
<1>2. /\ server.rev \in 0 .. MaxRounds /\ session \in -1 .. MaxRounds
      /\ storage.start \in 0 .. MaxRounds /\ pending.start \in 0 .. MaxRounds
  BY <1>1, Numbers
<1>3. "refresh" \in Kinds /\ Live' /\ calls'["refresh"].stage # "idle"
  BY <1>1 DEF PagesOK, Active, Kinds
<1>4. ~Stops /\ ~Relaunch /\ ~Connects /\ ~Discovers /\ ~EntersIdle /\ ~EntersLedger
      /\ ~EntersFound /\ ~Renewed
  BY <1>3, QuietType DEF Live, Stops, Relaunch, FreshPage, Connects, Discovers, Enters,
     EntersIdle, EntersLedger, EntersFound, Renewed
<1>5. CASE Works
  <2>1. /\ UNCHANGED session /\ Steady(pending', timers', calls')
        /\ pending'.round = pending.round /\ pending'.start = pending.start
        /\ page'.phase = page.phase
    BY <1>5 DEF Works, Steady
  <2>2. Live /\ session >= 0
    BY <1>1, <1>3, <2>1 DEF Live, PagesOK
  <2>3. CASE /\ calls'["refresh"].stage = calls["refresh"].stage
             /\ calls'["refresh"].reply = calls["refresh"].reply
             /\ calls'["refresh"].base = calls["refresh"].base
    BY <1>1, <1>3, <2>1, <2>3, SteadyRefresh DEF KeptRefresh, Active, Accepted, Waiting
  <2>4. CASE calls'["refresh"].stage = "sent" /\ calls'["refresh"].base = session
    BY <2>1, <2>2, <2>4 DEF KeptRefresh, Accepted
  <2>5. QED
    BY <1>3, <2>1, <2>3, <2>4, SteadyRefresh
<1>6. CASE Delivers
  <2>1. /\ Live /\ Waiting /\ server.round[pending.round] = "committed"
        /\ session' = pending.start + 1 /\ Steady(pending', timers', calls')
        /\ pending'.round = pending.round /\ pending'.start = pending.start
        /\ lastApplied.sequence <= pending.start
    BY <1>6 DEF Delivers, Steady
  <2>2. ~pending.delivered
    <3>1. pending.delivered => lastApplied.sequence = pending.start + 1
      BY <1>1, <2>1 DEF PendingOK
    <3>2. QED
      BY <1>2, <2>1, <3>1, Constants
  <2>3. session = pending.start \/ session = pending.start + 1
    <3>1. CASE ~Kept
      BY <1>1, <2>1, <3>1 DEF KeptLedger
    <3>2. CASE Kept
      <4>1. storage = [round |-> pending.round, start |-> pending.start]
        BY <1>1, <2>1, <3>2 DEF PendingOK
      <4>2. storage.round = pending.round /\ storage.start = pending.start
        BY <4>1
      <4>3. server.rev = pending.start + 1
        BY <1>1, <2>1, <3>2, <4>2 DEF KeptLedger
      <4>4. pending.start <= session /\ session <= server.rev
        BY <1>1, <2>1 DEF PendingOK, BoundsOK
      <4>5. QED
        BY <1>2, <4>3, <4>4, Constants
    <3>3. QED
      BY <3>1, <3>2
  <2>4. calls'["ack"].stage \notin {"sent", "answered"}
    <3>1. calls["ack"].stage \notin {"sent", "answered"}
      BY <1>1, <2>2 DEF CallsOK, Active
    <3>2. QED
      BY <1>3, <2>1, <3>1, SteadyRefresh
  <2>5. Waiting' /\ pending'.start = pending.start
    BY <2>1 DEF Waiting
  <2>6. CASE /\ calls'["refresh"].stage = calls["refresh"].stage
             /\ calls'["refresh"].reply = calls["refresh"].reply
             /\ calls'["refresh"].base = calls["refresh"].base
    <3>1. KeptRefresh
      BY <1>1, <1>3, <2>6 DEF Active
    <3>2. \/ calls["refresh"].base = session
          \/ calls["refresh"].base = pending.start /\ session = pending.start + 1
      BY <3>1 DEF KeptRefresh
    <3>3. calls["refresh"].base = session' \/ calls["refresh"].base = pending.start
      BY <2>1, <2>3, <3>2
    <3>4. QED
      BY <2>1, <2>4, <2>5, <2>6, <3>1, <3>3 DEF KeptRefresh, Accepted
  <2>7. CASE calls'["refresh"].stage = "sent" /\ calls'["refresh"].base = session
    <3>1. session >= 0
      BY <1>1, <2>1 DEF PagesOK
    <3>2. QED
      BY <2>1, <2>3, <2>4, <2>5, <2>7, <3>1 DEF KeptRefresh, Accepted
  <2>8. QED
    BY <1>3, <2>1, <2>6, <2>7, SteadyRefresh
<1>7. CASE Clears
  <2>1. /\ Live /\ Waiting /\ UNCHANGED session /\ calls'["refresh"] = calls["refresh"]
    BY <1>3, <1>7 DEF Clears
  <2>2. KeptRefresh
    BY <1>1, <1>3, <2>1 DEF Active
  <2>3. CASE calls["refresh"].base = session
    BY <2>1, <2>2, <2>3 DEF KeptRefresh, Accepted
  <2>4. CASE calls["refresh"].base # session
    <3>1. /\ session = pending.start + 1
          /\ calls["ack"].stage \notin {"sent", "answered"}
      BY <2>2, <2>4 DEF KeptRefresh
    <3>2. server.round[pending.round] = "rejected"
      BY <1>7, <3>1 DEF Clears
    <3>3. Kept
      BY <1>1, <2>1, <3>2 DEF KeptLedger
    <3>4. storage = [round |-> pending.round, start |-> pending.start]
      BY <1>1, <2>1, <3>3 DEF PendingOK
    <3>5. storage.round = pending.round /\ storage.start = pending.start
      BY <3>4
    <3>6. server.rev = pending.start /\ session <= server.rev
      BY <1>1, <3>2, <3>3, <3>5 DEF KeptLedger, BoundsOK
    <3>7. QED
      BY <1>2, <3>1, <3>6, Constants
  <2>5. QED
    BY <2>3, <2>4
<1>8. CASE Stakes
  <2>1. ~Waiting /\ UNCHANGED session /\ calls'["refresh"] = calls["refresh"]
    BY <1>3, <1>8 DEF Stakes
  <2>2. KeptRefresh
    BY <1>1, <1>3, <2>1 DEF Active
  <2>3. QED
    BY <2>1, <2>2 DEF KeptRefresh, Accepted
<1>9. CASE WorldSteps
  <2>1. UNCHANGED <<storage, page, session, pending>> /\ server' \in Servers
    BY <1>9, WorldKeeps DEF ClientOK, TypeOK
  <2>2. /\ Active("refresh")
        /\ calls'["refresh"].base = calls["refresh"].base \/ calls'["refresh"] = calls["refresh"]
        /\ calls'["ack"].stage \in {"sent", "answered"}
             => calls["ack"].stage \in {"sent", "answered"}
    BY <1>3, <1>9, WorldCalls DEF Kinds, Authorized
  <2>3. KeptRefresh
    BY <1>1, <2>2
  <2>4. "ok" \notin Trouble
    BY DEF Trouble, Retryable
  <2>5. Accepted("refresh")' =>
          \/ calls'["refresh"] = calls["refresh"] /\ Accepted("refresh")
          \/ calls'["refresh"].reply.rev = server'.rev
    BY <1>1, <1>3, <1>9, <2>1, <2>4, WorldReplies, ServedType DEF Accepted
  <2>6. calls["refresh"].base <= server'.rev
    BY <1>1, <2>1, <2>3 DEF KeptRefresh, BoundsOK
  <2>7. QED
    BY <2>1, <2>2, <2>3, <2>5, <2>6 DEF KeptRefresh, Waiting, Accepted
<1>10. QED
  BY <1>4, <1>5, <1>6, <1>7, <1>8, <1>9 DEF PageSteps

LEMMA TrustStarts == Init => LedgerOK /\ RefreshOK
<1> SUFFICES ASSUME Init PROVE LedgerOK /\ RefreshOK
  OBVIOUS
<1>1. /\ server.rev = 0 /\ server.round = [r \in Rounds |-> "absent"]
      /\ wire = {} /\ storage = NoLedger /\ page = FreshPage /\ session = NoSession
      /\ calls = AllQuiet
  BY DEF Init
<1>2. \A k \in Kinds : calls[k].stage = "idle"
  BY <1>1, QuietType
<1>3. {"exchange", "discover", "refresh"} \subseteq Kinds
  BY DEF Kinds
<1>4. ~Live /\ ~Kept
  BY <1>1 DEF Live, Kept, FreshPage
<1>5. KeptLedger
  BY <1>1, <1>2, <1>3, <1>4 DEF KeptLedger, OnItsWay, Accepted
<1>6. QED
  BY <1>2, <1>3, <1>5 DEF LedgerOK, RefreshOK, Active

LEMMA TrustKeeps == TrustOK /\ [Next]_vars => TrustOK'
<1>1. ASSUME TrustOK, Next
      PROVE  TrustOK'
  <2>1. ClientOK /\ ClientOK'
    BY <1>1, ClientKeeps DEF TrustOK
  <2>2. PageSteps \/ WorldSteps
    BY <1>1, <2>1, StepKinds
  <2>3. QED
    BY <1>1, <2>1, <2>2, LedgerInvariant, RefreshInvariant DEF TrustOK
<1>2. ASSUME TrustOK, UNCHANGED vars
      PROVE  TrustOK'
  <2>1. ClientOK'
    BY <1>2, ClientKeeps DEF TrustOK
  <2>2. LedgerOK' /\ RefreshOK'
    BY <1>2 DEF vars, TrustOK, LedgerOK, RefreshOK, KeptLedger, KeptRefresh, OnItsWay,
                Live, Kept, Accepted, Active, Waiting
  <2>3. QED
    BY <2>1, <2>2 DEF TrustOK
<1>3. QED
  BY <1>1, <1>2

\* The two hold in every state the gateway and the server can reach together.
THEOREM LedgerAgrees == Spec => []TrustOK
<1>1. Init => TrustOK
  BY ClientStarts, TrustStarts DEF TrustOK
<1>2. QED
  BY <1>1, TrustKeeps, PTL DEF Spec

\* Whatever ends a page, a round that is staked or may still be is in the ledger
\* of its tab: requestSpin saves before it sends, a resubmission is that of the
\* ledger, and clearPending forgets only what the server has refused or knows
\* to be confirmed.
THEOREM KeepsRecords == Spec => []RecordsRight
<1>1. TrustOK => RecordsRight
  <2> SUFFICES ASSUME TrustOK, ~budget.newTab, NEW r \in Rounds,
                      \/ server.round[r] = "pending"
                      \/ server.round[r] = "absent" /\ \E m \in wire : m.round = r
                      \/ /\ server.round[r] = "absent" /\ pending.round = r
                         /\ calls["submit"].stage = "sent"
               PROVE  storage.round = r
    BY DEF TrustOK, ClientOK, RecordsRight, NothingForgotten
  <2>1. KeptLedger /\ CallsOK
    BY DEF TrustOK, LedgerOK, ClientOK
  <2>2. CASE OnItsWay(r)
    BY <2>1, <2>2 DEF KeptLedger
  <2>3. CASE pending.round = r /\ calls["submit"].stage = "sent"
    <3>1. storage = [round |-> pending.round, start |-> pending.start]
      BY <2>1, <2>3 DEF CallsOK, Active
    <3>2. QED
      BY <2>3, <3>1
  <2>4. QED
    BY <2>2, <2>3 DEF OnItsWay
<1>2. QED
  BY <1>1, LedgerAgrees, PTL

-----------------------------------------------------------------------------
(* No genuine answer looks inconsistent, and none is shown again *)

\* The step does not end the page for an answer that contradicts it.
Trusts == page'.end = "protocol" => page.end = "protocol"

LEMMA TrustingEnds ==
  ASSUME TypeOK
  PROVE  /\ page' = page => Trusts
         /\ \A why \in Ends \ {"protocol"} : Terminate(why) => Trusts
         /\ \A why \in Ends \ {"protocol"} : FailConnect(why) => Trusts
         /\ \A p, ts, cs : Keep(p, ts, cs) => Trusts
         /\ \A cs : clearPending(cs) => Trusts
         /\ \A rev, p, applied, due : Connected(rev, p, applied, due) => Trusts
         /\ \A p, cs : schedulePoll(p, cs) => Trusts
<1>1. /\ page' = page => Trusts
      /\ \A why \in Ends \ {"protocol"} : Terminate(why) => Trusts
  BY DEF Trusts, Terminate, TypeOK, Pages
<1>2. \A why \in Ends \ {"protocol"} : FailConnect(why) => Trusts
  BY DEF Trusts, FailConnect, TypeOK, Pages
<1>3. /\ \A p, ts, cs : Keep(p, ts, cs) => Trusts
      /\ \A cs : clearPending(cs) => Trusts
  BY <1>1 DEF Keep, clearPending
<1>4. \A rev, p, applied, due : Connected(rev, p, applied, due) => Trusts
  BY DEF Connected, Trusts, TypeOK, Pages
<1>5. \A p, cs : schedulePoll(p, cs) => Trusts
  BY <1>1, <1>3 DEF schedulePoll, Ends
<1>6. QED
  BY <1>1, <1>2, <1>3, <1>4, <1>5

\* A committed result of the pending round is accepted, or was before.
LEMMA ResultsTrusted ==
  ASSUME ClientOK, Live, Waiting, NEW p, p.round = pending.round, p.start = pending.start,
         NEW cs, acceptCommitted(p, cs)
  PROVE  Trusts
<1>1. TypeOK /\ PendingOK
  BY DEF ClientOK
<1>2. pending.start \in 0 .. MaxRounds /\ lastApplied.sequence \in 0 .. MaxRounds
  BY <1>1, Numbers
<1>3. classifySpinResult(p) # "reject"
  <2>1. CASE pending.delivered
    <3>1. lastApplied = [sequence |-> pending.start + 1, round |-> pending.round]
      BY <1>1, <2>1 DEF PendingOK
    <3>2. lastApplied.sequence = pending.start + 1 /\ lastApplied.round = pending.round
      BY <3>1
    <3>3. QED
      BY <3>2 DEF classifySpinResult, ResultSequence
  <2>2. CASE ~pending.delivered
    <3>1. pending.start + 1 > lastApplied.sequence
      BY <1>1, <1>2, <2>2, Constants DEF PendingOK
    <3>2. QED
      BY <3>1 DEF classifySpinResult, ResultSequence
  <2>3. QED
    BY <2>1, <2>2
<1>4. QED
  BY <1>1, <1>3, TrustingEnds DEF acceptCommitted

\* The exchange finds the ledger's revision, or the one after it.
LEMMA ExchangeTrusted ==
  ASSUME ClientOK, LedgerOK, ~budget.newTab, FinishExchange
  PROVE  Trusts
<1>1. TypeOK /\ KeptLedger /\ RepliesOK /\ BoundsOK
  BY DEF ClientOK, LedgerOK
<1>2. /\ server.rev \in 0 .. MaxRounds /\ storage.start \in 0 .. MaxRounds
      /\ calls["exchange"].reply.rev \in 0 .. MaxRounds /\ "exchange" \in Kinds
  BY <1>1, Numbers DEF Kinds
<1>3. CASE Accepted("exchange") /\ Kept
  <2>1. /\ storage.start <= calls["exchange"].reply.rev
        /\ calls["exchange"].reply.rev <= server.rev
        /\ server.rev = storage.start \/ server.rev = storage.start + 1
    BY <1>1, <1>2, <1>3 DEF KeptLedger, RepliesOK
  <2>2. calls["exchange"].reply.rev - storage.start \in {0, 1}
    BY <1>2, <2>1, Constants
  <2>3. QED
    BY <1>1, <1>3, <2>2, TrustingEnds DEF FinishExchange, Kept, Accepted, Ends
<1>4. CASE ~(Accepted("exchange") /\ Kept)
  BY <1>1, <1>4, TrustingEnds DEF FinishExchange, Kept, Accepted, Ends
<1>5. QED
  BY <1>3, <1>4

\* The cursor answers for the session the exchange described.
LEMMA CursorTrusted ==
  ASSUME ClientOK, LedgerOK, ~budget.newTab, FinishDiscover
  PROVE  Trusts
<1>1. TypeOK /\ KeptLedger /\ PagesOK
  BY DEF ClientOK, LedgerOK
<1>2. Active("discover") /\ calls["discover"].stage = "answered" /\ "discover" \in Kinds
  BY DEF FinishDiscover, Active, Kinds
<1>3. ~Kept /\ session > 0
  BY <1>1, <1>2 DEF PagesOK
<1>4. session \in -1 .. MaxRounds
  BY <1>1, Numbers
<1>5. session = server.rev
  BY <1>1, <1>3, <1>4, Constants DEF KeptLedger, NoSession
<1>6. Accepted("discover") => calls["discover"].reply.rev = session
  BY <1>1, <1>5 DEF KeptLedger
<1>7. ASSUME page' = [page EXCEPT !.phase = "connected"]
      PROVE  Trusts
  BY <1>1, <1>7 DEF Trusts, TypeOK, Pages
<1>8. QED
  BY <1>1, <1>2, <1>6, <1>7, TrustingEnds DEF FinishDiscover, Accepted, Ends

\* A renewed session is the one of the page, before or after one delivery.
LEMMA RefreshTrusted ==
  ASSUME ClientOK, LedgerOK, RefreshOK, ~budget.newTab, FinishRefresh
  PROVE  Trusts
<1> DEFINE c == calls["refresh"]
<1>1. TypeOK /\ KeptLedger /\ PagesOK /\ RepliesOK /\ BoundsOK /\ PendingOK
  BY DEF ClientOK, LedgerOK
<1>2. Active("refresh") /\ c.stage = "answered" /\ "refresh" \in Kinds
  BY DEF FinishRefresh, Active, Kinds
<1>3. Live /\ KeptRefresh /\ session >= 0
  BY <1>1, <1>2 DEF PagesOK, RefreshOK
<1>4. /\ server.rev \in 0 .. MaxRounds /\ session \in 0 .. MaxRounds
      /\ storage.start \in 0 .. MaxRounds /\ pending.start \in 0 .. MaxRounds
      /\ c.reply.rev \in 0 .. MaxRounds /\ c.base \in -1 .. MaxRounds
  BY <1>1, <1>2, <1>3, Numbers DEF TypeOK, Calls
<1>5. Accepted("refresh") => validateRefreshedSession(c.reply.rev, c.base)
  <2> SUFFICES ASSUME Accepted("refresh") PROVE validateRefreshedSession(c.reply.rev, c.base)
    OBVIOUS
  <2>1. c.base <= c.reply.rev /\ c.reply.rev <= server.rev /\ session <= server.rev
    BY <1>1, <1>2, <1>3 DEF KeptRefresh, RepliesOK, BoundsOK
  <2>2. CASE ~Kept
    <3>1. session = server.rev
      BY <1>1, <1>4, <2>2, Constants DEF KeptLedger, NoSession
    <3>2. CASE c.base = session
      BY <1>4, <2>1, <3>1, <3>2, Constants DEF validateRefreshedSession
    <3>3. CASE Waiting /\ c.base = pending.start /\ session = pending.start + 1
      <4>1. c.reply.rev = pending.start \/ c.reply.rev = session
        BY <1>4, <2>1, <3>1, <3>3, Constants
      <4>2. QED
        BY <3>3, <4>1 DEF validateRefreshedSession, StaleOverlap
    <3>4. QED
      BY <1>3, <3>2, <3>3 DEF KeptRefresh
  <2>3. CASE Kept
    <3>1. Waiting /\ storage = [round |-> pending.round, start |-> pending.start]
          /\ pending.start <= session
      BY <1>1, <1>3, <2>3 DEF PendingOK
    <3>2. storage.start = pending.start
      BY <3>1
    <3>3. server.rev = pending.start \/ server.rev = pending.start + 1
      BY <1>1, <2>3, <3>2 DEF KeptLedger
    <3>4. CASE c.base = session
      <4>1. /\ pending.start <= c.reply.rev /\ c.reply.rev <= pending.start + 1
            /\ c.reply.rev - session \in {0, 1}
        BY <1>4, <2>1, <3>1, <3>3, <3>4, Constants
      <4>2. c.reply.rev \in pending.start .. (pending.start + 1)
        BY <1>4, <4>1, Constants
      <4>3. QED
        BY <3>1, <4>1, <4>2 DEF validateRefreshedSession
    <3>5. CASE c.base = pending.start /\ session = pending.start + 1
      <4>1. c.reply.rev = pending.start \/ c.reply.rev = session
        BY <1>4, <2>1, <3>3, <3>5, Constants
      <4>2. QED
        BY <3>1, <3>5, <4>1 DEF validateRefreshedSession, StaleOverlap
    <3>6. QED
      BY <1>3, <3>4, <3>5 DEF KeptRefresh
  <2>4. QED
    BY <2>2, <2>3
<1>6. QED
  BY <1>1, <1>2, <1>5, TrustingEnds DEF FinishRefresh, Accepted, Ends

\* The other answers, the timers and the player.
LEMMA AnswersTrusted ==
  ASSUME ClientOK, LedgerOK, RefreshOK, ~budget.newTab, Respond
  PROVE  Trusts
<1>1. TypeOK /\ RepliesOK
  BY DEF ClientOK
<1>2. CASE FinishExchange \/ FinishDiscover \/ FinishRefresh
  BY <1>2, ExchangeTrusted, CursorTrusted, RefreshTrusted
<1>3. CASE FinishSubmit
  <2>1. Active("submit") /\ "submit" \in Kinds
    BY <1>3 DEF FinishSubmit, Answered, Active, Kinds, Authorized
  <2>2. Live /\ Waiting
    BY <2>1, AnsweredRound
  <2>3. QED
    BY <1>1, <1>3, <2>2, ResultsTrusted, TrustingEnds DEF FinishSubmit, Ends
<1>4. CASE FinishPoll
  <2>1. Active("poll") /\ "poll" \in Kinds
    BY <1>4 DEF FinishPoll, Answered, Active, Kinds, Authorized
  <2>2. Live /\ Waiting
    BY <2>1, AnsweredRound
  <2>3. PICK p : p = [pending EXCEPT !.resubmitOnNotFound = FALSE]
    OBVIOUS
  <2>4. p.round = pending.round /\ p.start = pending.start
    BY <1>1, <2>3 DEF TypeOK, PendingRounds
  <2>5. \A cs : acceptCommitted(p, cs) => Trusts
    BY <2>2, <2>4, ResultsTrusted
  <2>6. QED
    BY <1>1, <1>4, <2>3, <2>5, TrustingEnds DEF FinishPoll, Ends
<1>5. CASE FinishAcknowledgement
  BY <1>1, <1>5, TrustingEnds DEF FinishAcknowledgement, Ends
<1>6. CASE FinishProbe
  BY <1>1, <1>6, TrustingEnds DEF FinishProbe, Ends
<1>7. CASE \E k \in Authorized : Renews(k)
  BY <1>1, <1>7, TrustingEnds DEF Renews
<1>8. QED
  BY <1>2, <1>3, <1>4, <1>5, <1>6, <1>7 DEF Respond

LEMMA StepsTrust ==
  ASSUME ClientOK, LedgerOK, RefreshOK, ~budget.newTab, Next
  PROVE  Trusts
<1>1. TypeOK
  BY DEF ClientOK
<1>2. CASE connect
  BY <1>1, <1>2 DEF connect, Trusts, TypeOK, Pages
<1>3. CASE requestSpin \/ WindowCloses \/ SettlePending \/ ArriveLate
  BY <1>1, <1>3, TrustingEnds DEF requestSpin, WindowCloses, SettlePending, ArriveLate
<1>4. CASE acknowledgeSpinResult
  BY <1>1, <1>4, TrustingEnds DEF acknowledgeSpinResult, Ends
<1>5. CASE Respond
  BY <1>5, AnswersTrusted
<1>6. CASE PollTimer \/ DeadlineTimer \/ RefreshTimer \/ StatusTimer
  BY <1>1, <1>6, TrustingEnds DEF PollTimer, DeadlineTimer, RefreshTimer, StatusTimer, Ends
<1>7. CASE AcknowledgementTimer
  BY <1>1, <1>7, TrustingEnds
  DEF AcknowledgementTimer, submitResultAcknowledgement, Ends
<1>8. CASE SessionTimeout
  BY <1>1, <1>8, TrustingEnds DEF SessionTimeout, Ends
<1>9. CASE Close
  BY <1>1, <1>9 DEF Close, Trusts, TypeOK, Pages
<1>10. CASE Relaunch
  BY <1>10 DEF Relaunch, Trusts, FreshPage
<1>11. CASE \E online, visible \in BOOLEAN : setRuntimeAvailability(online, visible)
  <2>1. PICK online \in BOOLEAN, visible \in BOOLEAN : setRuntimeAvailability(online, visible)
    BY <1>11
  <2>2. CASE Suspend(online, visible)
    BY <1>1, <2>2 DEF Suspend, Trusts, TypeOK, Pages
  <2>3. CASE Resume(online, visible)
    <3>1. \/ \E why \in {"window", "exhausted", "offline"} : Terminate(why)
          \/ page'.end = page.end
      <4> DEFINE availableAgain == ~Available /\ (online /\ visible)
                 reconnects == availableAgain /\ page.parked
                 reopen == availableAgain /\ page.recoveringShown /\ page.phase = "connected"
                 ph == IF reconnects THEN "connecting" ELSE page.phase
                 lc == page.launchCode /\ ~reconnects
                 pk == page.parked /\ ~reconnects
                 rs == page.recoveringShown /\ ~reopen /\ ~reconnects
      <4>1. CASE page' = [page EXCEPT !.online = online, !.visible = visible, !.phase = ph,
                            !.launchCode = lc, !.parked = pk, !.recoveringShown = rs]
        <5> HIDE DEF ph, lc, pk, rs
        <5>1. QED
          BY <1>1, <4>1 DEF TypeOK, Pages
      <4>2. QED
        BY <2>3, <4>1, Zenon DEF Resume
    <3>2. QED
      BY <1>1, <3>1, TrustingEnds DEF Trusts, Ends
  <2>4. QED
    BY <2>1, <2>2, <2>3 DEF setRuntimeAvailability
<1>12. CASE \E k \in Kinds : Serve(k) \/ Fault(k)
  BY <1>1, <1>12, TrustingEnds DEF Serve, Fault
<1>13. QED
  BY <1>2, <1>3, <1>4, <1>5, <1>6, <1>7, <1>8, <1>9, <1>10, <1>11, <1>12 DEF Next, Fire

\* A result is delivered when its page has not shown its round.
LEMMA ShownInvariant ==
  ASSUME ClientOK, TypeOK', ShownOnce, PageSteps \/ WorldSteps
  PROVE  ShownOnce'
<1>1. TypeOK /\ PendingOK /\ \A r \in Rounds : history.here[r] <= 1
  BY DEF ClientOK, ShownOnce
<1>2. ASSUME \A r \in Rounds : history'.here[r] \in {0, 1, history.here[r]}
      PROVE  ShownOnce'
  BY <1>1, <1>2 DEF ShownOnce
<1>3. CASE Delivers
  <2>1. history.here[pending.round] = 0
    <3>1. /\ Live /\ Waiting /\ lastApplied.sequence <= pending.start
          /\ pending.start \in 0 .. MaxRounds
      BY <1>1, <1>3, Numbers DEF Delivers
    <3>2. pending.delivered => lastApplied.sequence = pending.start + 1
      BY <1>1, <3>1 DEF PendingOK
    <3>3. ~pending.delivered
      BY <3>1, <3>2, Constants
    <3>4. QED
      BY <1>1, <3>1, <3>3 DEF PendingOK
  <2>2. QED
    BY <1>2, <1>3, <2>1 DEF Delivers
<1>4. CASE EntersFound
  BY <1>2, <1>4 DEF EntersFound
<1>5. CASE Relaunch
  <2>1. \A r \in Rounds : history'.here[r] = 0
    BY <1>1, <1>5 DEF Relaunch, TypeOK
  <2>2. QED
    BY <1>2, <2>1
<1>6. CASE WorldSteps
  BY <1>2, <1>6, WorldKeeps
<1>7. CASE Stops \/ Works \/ Clears \/ Renewed \/ Connects \/ Discovers \/ EntersIdle
           \/ EntersLedger \/ Stakes
  BY <1>2, <1>7 DEF Stops, Works, Clears, Renewed, Connects, Discovers, EntersIdle,
                    EntersLedger, Stakes
<1>8. QED
  BY <1>3, <1>4, <1>5, <1>6, <1>7 DEF PageSteps

\* Committed, polled, refreshed and recovered in any order, a genuine answer is
\* never taken for an inconsistent one (acceptCommitted, validateRefreshedSession,
\* connect and discoverPendingResult throw the player out for those), and a page
\* shows its round once (classifySpinResult), whichever call brings it.
THEOREM HonoursResults == Spec => []GenuineResults
<1>1. Init => GenuineResults
  <2> SUFFICES ASSUME Init PROVE GenuineResults
    OBVIOUS
  <2>1. page.end = "none" /\ \A r \in Rounds : history.here[r] = 0
    BY DEF Init, FreshPage
  <2>2. QED
    BY <2>1 DEF GenuineResults, HonestServerTrusted, ShownOnce
<1>2. TrustOK /\ GenuineResults /\ [Next]_vars => GenuineResults'
  <2>1. ASSUME TrustOK, GenuineResults, Next
        PROVE  GenuineResults'
    <3>1. ClientOK /\ TypeOK' /\ (PageSteps \/ WorldSteps) /\ ShownOnce
      BY <2>1, StepKinds DEF TrustOK, GenuineResults
    <3>2. ShownOnce'
      BY <3>1, ShownInvariant
    <3>3. HonestServerTrusted'
      BY <2>1, <3>1, SameTab, StepsTrust
      DEF TrustOK, GenuineResults, HonestServerTrusted, Trusts
    <3>4. QED
      BY <3>2, <3>3 DEF GenuineResults
  <2>2. ASSUME GenuineResults, UNCHANGED vars
        PROVE  GenuineResults'
    BY <2>2 DEF vars, GenuineResults, HonestServerTrusted, ShownOnce
  <2>3. QED
    BY <2>1, <2>2
<1>3. QED
  BY <1>1, <1>2, LedgerAgrees, PTL DEF Spec

-----------------------------------------------------------------------------
(* Somebody is always working on what is under way *)

\* A copy of the pending round as far along as it.
AsFar(p) ==
  /\ p.round = pending.round /\ p.start = pending.start
  /\ p.delivered = pending.delivered /\ p.ackStarted = pending.ackStarted

\* The calls and timers that work on it have not become fewer.
Busy(ts, cs) ==
  /\ "poll" \in timers => "poll" \in ts
  /\ Active("submit") => cs["submit"].stage # "idle"
  /\ Active("poll") => cs["poll"].stage # "idle"

LEMMA KeepWorking ==
  ASSUME NeverStuck, NEW p, AsFar(p), NEW ts, NEW cs,
         "deadline" \in timers => "deadline" \in ts,
         \/ ~Available \/ pending.delivered \/ "poll" \in ts \/ Busy(ts, cs)
         \/ cs["submit"].stage # "idle" \/ cs["poll"].stage # "idle",
         pending' = p, timers' = ts, calls' = cs, page' = page
  PROVE  NeverStuck'
  BY DEF NeverStuck, AsFar, Busy, Available, Undelivered, Waiting, Active, Open

LEMMA KeepNeverStuck ==
  ASSUME NeverStuck, NEW p, AsFar(p), NEW ts, NEW cs, Keep(p, ts, cs),
         "deadline" \in timers => "deadline" \in ts,
         \/ ~Available \/ pending.delivered \/ "poll" \in ts \/ Busy(ts, cs)
         \/ cs["submit"].stage # "idle" \/ cs["poll"].stage # "idle"
  PROVE  NeverStuck'
<1>1. pending' = p /\ timers' = ts /\ calls' = cs /\ page' = page
  BY DEF Keep
<1>2. QED
  BY <1>1, KeepWorking

\* A page that has ended, or has nothing pending, is not stuck.
LEMMA RestNeverStuck ==
  ASSUME TypeOK
  PROVE  /\ \A why : Terminate(why) \/ FailConnect(why) => NeverStuck'
         /\ page'.phase = "off" => NeverStuck'
         /\ pending' = NoPending => NeverStuck'
         /\ \A cs : clearPending(cs) => NeverStuck'
<1>1. page'.phase = "off" => NeverStuck'
  BY DEF NeverStuck, Open
<1>2. pending' = NoPending => NeverStuck'
  BY PendingType DEF NeverStuck, Undelivered, Waiting
<1>3. \A why : Terminate(why) \/ FailConnect(why) => page'.phase = "off"
  BY DEF Terminate, FailConnect, TypeOK, Pages
<1>4. QED
  BY <1>1, <1>2, <1>3 DEF clearPending

\* Scheduling a poll leaves its timer, or the page ends.
LEMMA schedulePollWorks ==
  ASSUME TypeOK, NeverStuck, NEW p \in PendingRounds, AsFar(p), NEW cs, schedulePoll(p, cs)
  PROVE  NeverStuck'
<1>1. CASE "poll" \in timers /\ Keep(p, timers, cs)
  BY <1>1, KeepNeverStuck
<1>2. CASE Terminate("exhausted")
  BY <1>2, RestNeverStuck
<1>3. CASE Keep([p EXCEPT !.pollDue = TRUE], timers \union ScheduledPoll, cs)
  <2>1. PICK q : q = [p EXCEPT !.pollDue = TRUE]
    OBVIOUS
  <2>2. AsFar(q)
    BY <2>1 DEF AsFar, PendingRounds
  <2>3. PICK ts : ts = timers \union ScheduledPoll
    OBVIOUS
  <2>4. /\ "deadline" \in timers => "deadline" \in ts
        /\ ~Available \/ "poll" \in ts
    BY <2>3 DEF ScheduledPoll
  <2>5. Keep(q, ts, cs)
    BY <1>3, <2>1, <2>3
  <2>6. QED
    BY <2>2, <2>4, <2>5, KeepNeverStuck
<1>4. QED
  BY <1>1, <1>2, <1>3 DEF schedulePoll

\* A committed result is delivered, or was, unless the page cannot be seen.
LEMMA acceptCommittedWorks ==
  ASSUME ClientOK, NeverStuck, Live, Waiting, NEW p \in PendingRounds, AsFar(p),
         NEW cs, acceptCommitted(p, cs)
  PROVE  NeverStuck'
<1>1. TypeOK /\ PendingOK
  BY DEF ClientOK
<1>2. pending.start \in 0 .. MaxRounds /\ lastApplied.sequence \in 0 .. MaxRounds
  BY <1>1, Numbers
<1>3. CASE ~Available /\ Keep(p, timers, cs)
  BY <1>3, KeepNeverStuck
<1>4. CASE classifySpinResult(p) = "duplicate" /\ Keep(p, timers, cs)
  <2>1. ~pending.delivered => pending.start + 1 > lastApplied.sequence
    BY <1>1, <1>2, Constants DEF PendingOK
  <2>2. pending.delivered
    BY <1>4, <2>1 DEF classifySpinResult, ResultSequence, AsFar
  <2>3. QED
    BY <1>4, <2>2, KeepNeverStuck
<1>5. CASE /\ pending' = [p EXCEPT !.delivered = TRUE, !.ackInFlight = FALSE,
                                   !.pollDue = FALSE]
           /\ timers' = timers \ {"poll"} /\ page' = page
  <2>1. pending'.delivered /\ pending'.ackStarted = pending.ackStarted
    BY <1>5 DEF PendingRounds, AsFar
  <2>2. QED
    BY <1>5, <2>1 DEF NeverStuck, Undelivered, Open
<1>6. CASE Terminate("protocol")
  BY <1>1, <1>6, RestNeverStuck
<1>7. QED
  BY <1>3, <1>4, <1>5, <1>6 DEF acceptCommitted

LEMMA FinishSubmitWorks ==
  ASSUME ClientOK, NeverStuck, FinishSubmit
  PROVE  NeverStuck'
<1> DEFINE e == calls["submit"].reply.kind
<1>1. Active("submit") /\ "submit" \in Kinds
  BY DEF FinishSubmit, Answered, Active, Kinds, Authorized
<1>2. TypeOK /\ Live /\ Waiting /\ pending \in PendingRounds /\ AsFar(pending)
  BY <1>1, AnsweredRound DEF ClientOK, TypeOK, AsFar
<1>3. \E b \in BOOLEAN : b = (e \in {"network", "busy"})
  <2>1. CASE e \in {"network", "busy"}
    <3>1. (e \in {"network", "busy"}) = TRUE
      BY <2>1, SMT
    <3>2. QED
      BY <3>1, Zenon
  <2>2. CASE e \notin {"network", "busy"}
    <3>1. (e \in {"network", "busy"}) = FALSE
      BY <2>2, SMT
    <3>2. QED
      BY <3>1, Zenon
  <2>3. QED
    BY <2>1, <2>2
<1>4. PICK p : p = [pending EXCEPT !.resubmitOnNotFound = e \in {"network", "busy"}]
  OBVIOUS
<1>5. p \in PendingRounds /\ AsFar(p)
  <2>1. PICK b \in BOOLEAN : p = [pending EXCEPT !.resubmitOnNotFound = b]
    BY <1>3, <1>4, Zenon
  <2>2. QED
    BY <1>2, <2>1 DEF PendingRounds, AsFar
<1>6. CASE acceptCommitted(pending, Ended("submit"))
  BY <1>2, <1>6, acceptCommittedWorks
<1>7. CASE schedulePoll(pending, Ended("submit"))
  BY <1>2, <1>7, schedulePollWorks
<1>8. CASE schedulePoll(p, Ended("submit"))
  BY <1>2, <1>5, <1>8, schedulePollWorks
<1>9. CASE ~Available /\ Keep(pending, timers, Ended("submit"))
  BY <1>2, <1>9, KeepNeverStuck
<1>10. CASE clearPending(Ended("submit")) \/ \E why : Terminate(why)
  BY <1>2, <1>10, RestNeverStuck
<1>11. QED
  BY <1>4, <1>6, <1>7, <1>8, <1>9, <1>10, Zenon DEF FinishSubmit

LEMMA FinishPollWorks ==
  ASSUME ClientOK, NeverStuck, FinishPoll
  PROVE  NeverStuck'
<1> DEFINE cs == Ended("poll")
<1>1. Active("poll") /\ "poll" \in Kinds
  BY DEF FinishPoll, Answered, Active, Kinds, Authorized
<1>2. TypeOK /\ Live /\ Waiting /\ pending \in PendingRounds /\ AsFar(pending)
  BY <1>1, AnsweredRound DEF ClientOK, TypeOK, AsFar
<1>3. PICK seen : seen = [pending EXCEPT !.resubmitOnNotFound = FALSE]
  OBVIOUS
<1>4. seen \in PendingRounds /\ AsFar(seen)
  BY <1>2, <1>3 DEF PendingRounds, AsFar
<1>5. PICK later : later = [seen EXCEPT !.pollAttempts = @ - 1]
  OBVIOUS
<1>6. AsFar(later)
  BY <1>4, <1>5 DEF PendingRounds, AsFar
<1>7. cs \in [Kinds -> Calls]
  BY <1>1, <1>2, EndedView
<1>8. CASE ~Available /\ Keep(later, timers, cs)
  BY <1>6, <1>8, KeepNeverStuck
<1>9. CASE acceptCommitted(seen, cs)
  BY <1>2, <1>4, <1>9, acceptCommittedWorks
<1>10. CASE schedulePoll(seen, cs) \/ schedulePoll(pending, cs)
  BY <1>2, <1>4, <1>10, schedulePollWorks
<1>11. CASE Keep(seen, timers, Post(cs, "submit"))
  <2>1. Post(cs, "submit")["submit"].stage # "idle"
    BY <1>7, PostView DEF Kinds, Authorized
  <2>2. PICK ds : ds = Post(cs, "submit")
    OBVIOUS
  <2>3. ds["submit"].stage # "idle" /\ Keep(seen, timers, ds)
    BY <1>11, <2>1, <2>2
  <2>4. QED
    BY <1>4, <2>3, KeepNeverStuck
<1>12. CASE clearPending(cs) \/ \E why : Terminate(why)
  BY <1>2, <1>12, RestNeverStuck
<1>13. QED
  BY <1>3, <1>5, <1>8, <1>9, <1>10, <1>11, <1>12, Zenon DEF FinishPoll

LEMMA AcknowledgesWork ==
  ASSUME ClientOK, NeverStuck, acknowledgeSpinResult
  PROVE  NeverStuck'
<1>1. TypeOK /\ pending.delivered
  BY DEF ClientOK, acknowledgeSpinResult, Confirmable
<1>2. CASE Terminate("window")
  BY <1>1, <1>2, RestNeverStuck
<1>3. CASE ~Terminate("window")
  <2>1. PICK begun : begun = IF pending.ackStarted THEN pending
                             ELSE [pending EXCEPT !.ackStarted = TRUE, !.windowOpen = TRUE]
    OBVIOUS
  <2>2. PICK n : n = IF page.online THEN begun.ackAttempts + 1 ELSE begun.ackAttempts
    OBVIOUS
  <2>3. /\ pending' = [begun EXCEPT !.ackInFlight = TRUE, !.ackAttempts = n]
        /\ timers' = timers \union {"deadline"} /\ page' = page
    BY <1>3, <2>1, <2>2 DEF acknowledgeSpinResult
  <2>4. begun.delivered = pending.delivered /\ begun \in PendingRounds
    BY <1>1, <2>1 DEF TypeOK, PendingRounds
  <2>5. pending'.delivered
    BY <1>1, <2>3, <2>4 DEF PendingRounds
  <2>6. QED
    BY <2>3, <2>5 DEF NeverStuck, Undelivered
<1>4. QED
  BY <1>2, <1>3

LEMMA FinishAcknowledgementWorks ==
  ASSUME ClientOK, NeverStuck, FinishAcknowledgement
  PROVE  NeverStuck'
<1>1. Active("ack") /\ "ack" \in Kinds
  BY DEF FinishAcknowledgement, Answered, Active, Kinds, Authorized
<1>2. TypeOK /\ pending.delivered /\ pending \in PendingRounds
  BY <1>1 DEF ClientOK, CallsOK, TypeOK
<1>3. PICK p : p = [pending EXCEPT !.ackNotBefore = TRUE]
  OBVIOUS
<1>4. PICK q : q = [pending EXCEPT !.ackInFlight = FALSE]
  OBVIOUS
<1>5. AsFar(p) /\ AsFar(q)
  BY <1>2, <1>3, <1>4 DEF AsFar, PendingRounds
<1>6. CASE Keep(p, RetryTimers, Ended("ack"))
  BY <1>2, <1>5, <1>6, KeepNeverStuck DEF RetryTimers
<1>7. CASE Keep(q, timers, Ended("ack"))
  BY <1>2, <1>5, <1>7, KeepNeverStuck
<1>8. CASE clearPending(Ended("ack")) \/ \E why : Terminate(why)
  BY <1>2, <1>8, RestNeverStuck
<1>9. QED
  BY <1>3, <1>4, <1>6, <1>7, <1>8, Zenon DEF FinishAcknowledgement

LEMMA TimersWork ==
  ASSUME ClientOK, NeverStuck, Fire \/ WindowCloses
  PROVE  NeverStuck'
<1>1. TypeOK /\ pending \in PendingRounds /\ AsFar(pending) /\ calls \in [Kinds -> Calls]
  BY DEF ClientOK, TypeOK, AsFar
<1>2. {"poll", "probe", "ack", "submit", "refresh"} \subseteq Kinds
  BY DEF Kinds, Authorized
<1>3. CASE PollTimer
  <2>1. PICK p : p = [pending EXCEPT !.pollDue = FALSE]
    OBVIOUS
  <2>2. PICK n : n = pending.pollAttempts + 1
    OBVIOUS
  <2>3. PICK q : q = [pending EXCEPT !.pollDue = FALSE, !.pollAttempts = n]
    OBVIOUS
  <2>4. AsFar(p) /\ AsFar(q)
    BY <1>1, <2>1, <2>3 DEF AsFar, PendingRounds
  <2>5. CASE Active("poll") /\ Keep(p, timers \ {"poll"}, calls)
    BY <2>4, <2>5, KeepNeverStuck DEF Active
  <2>6. CASE Keep(q, timers \ {"poll"}, Post(calls, "poll"))
    <3>1. PICK cs : cs = Post(calls, "poll")
      OBVIOUS
    <3>2. cs["poll"].stage # "idle" /\ Keep(q, timers \ {"poll"}, cs)
      BY <1>1, <1>2, <2>6, <3>1, PostView
    <3>3. QED
      BY <2>4, <3>2, KeepNeverStuck
  <2>7. QED
    BY <1>3, <2>1, <2>2, <2>3, <2>5, <2>6 DEF PollTimer
<1>4. CASE AcknowledgementTimer
  <2>1. "ack" \in timers /\ pending.delivered
    BY <1>4 DEF AcknowledgementTimer, ClientOK, CallsOK
  <2>2. PICK p : p = [pending EXCEPT !.ackNotBefore = FALSE]
    OBVIOUS
  <2>3. PICK n : n = p.ackAttempts + 1
    OBVIOUS
  <2>4. PICK q : q = [p EXCEPT !.ackAttempts = n]
    OBVIOUS
  <2>5. AsFar(p) /\ AsFar(q)
    BY <1>1, <2>2, <2>4 DEF AsFar, PendingRounds
  <2>6. CASE Terminate("window")
    BY <1>1, <2>6, RestNeverStuck
  <2>7. CASE Keep(p, timers \ {"ack"}, calls)
    BY <2>1, <2>5, <2>7, KeepNeverStuck
  <2>8. CASE Keep(q, timers \ {"ack"}, Post(calls, "ack"))
    <3>1. PICK cs : cs = Post(calls, "ack")
      OBVIOUS
    <3>2. Keep(q, timers \ {"ack"}, cs)
      BY <2>8, <3>1
    <3>3. QED
      BY <2>1, <2>5, <3>2, KeepNeverStuck
  <2>9. QED
    BY <1>4, <2>2, <2>3, <2>4, <2>6, <2>7, <2>8
    DEF AcknowledgementTimer, submitResultAcknowledgement
<1>5. CASE DeadlineTimer
  BY <1>1, <1>5, RestNeverStuck DEF DeadlineTimer
<1>6. CASE RefreshTimer
  <2>1. PICK cs : /\ Keep(pending, timers \ {"refresh"}, cs)
                  /\ \A k \in Kinds \ {"refresh"} : cs[k] = calls[k]
    BY <1>1, <1>6 DEF RefreshTimer
  <2>2. Busy(timers \ {"refresh"}, cs)
    BY <1>2, <2>1 DEF Busy, Active
  <2>3. QED
    BY <1>1, <2>1, <2>2, KeepNeverStuck
<1>7. CASE StatusTimer
  <2>1. PICK cs : cs = Post(calls, "probe")
    OBVIOUS
  <2>2. /\ Keep(pending, timers \ {"status"}, cs)
        /\ \A k \in Kinds \ {"probe"} : cs[k] = calls[k]
    BY <1>1, <1>2, <1>7, <2>1, PostView DEF StatusTimer
  <2>3. Busy(timers \ {"status"}, cs)
    BY <1>2, <2>2 DEF Busy, Active
  <2>4. QED
    BY <1>1, <2>2, <2>3, KeepNeverStuck
<1>8. CASE WindowCloses
  <2>1. PICK p : p = [pending EXCEPT !.windowOpen = FALSE]
    OBVIOUS
  <2>2. AsFar(p) /\ Busy(timers, calls)
    BY <1>1, <2>1 DEF AsFar, PendingRounds, Busy, Active
  <2>3. Keep(p, timers, calls)
    BY <1>8, <2>1 DEF WindowCloses
  <2>4. QED
    BY <2>2, <2>3, KeepNeverStuck
<1>9. QED
  BY <1>3, <1>4, <1>5, <1>6, <1>7, <1>8 DEF Fire

LEMMA RenewalsWork ==
  ASSUME ClientOK, NeverStuck, FinishRefresh \/ FinishProbe \/ \E k \in Authorized : Renews(k)
  PROVE  NeverStuck'
<1>1. TypeOK /\ pending \in PendingRounds /\ AsFar(pending) /\ calls \in [Kinds -> Calls]
  BY DEF ClientOK, TypeOK, AsFar
<1>2. {"poll", "probe", "ack", "submit", "refresh"} \subseteq Kinds
  BY DEF Kinds, Authorized
<1>3. CASE FinishRefresh
  <2>1. CASE \E why : Terminate(why)
    BY <1>1, <2>1, RestNeverStuck
  <2>2. CASE /\ UNCHANGED <<page, pending>> /\ calls' = Released
             /\ timers' = timers \union (BackgroundTimers \intersect {"refresh"})
    <3>1. \A k \in {"submit", "poll"} : Active(k) => Released[k].stage # "idle"
      BY <1>1, <1>2 DEF Released, Active, Calls
    <3>2. Busy(timers', calls')
      BY <2>2, <3>1 DEF Busy
    <3>3. QED
      BY <1>1, <2>2, <3>2, KeepWorking
  <2>3. CASE \E e : /\ calls' = Rejected(e) /\ UNCHANGED <<page, pending>>
                    /\ timers \subseteq timers'
    <3>1. \A e : \A k \in {"submit", "poll"} : Active(k) => Rejected(e)[k].stage # "idle"
      BY <1>1, <1>2 DEF Rejected, Active, Calls
    <3>2. Busy(timers', calls')
      BY <2>3, <3>1 DEF Busy
    <3>3. QED
      BY <1>1, <2>3, <3>2, KeepWorking
  <2>4. QED
    BY <1>3, <2>1, <2>2, <2>3 DEF FinishRefresh, Keep
<1>4. CASE FinishProbe
  <2>1. CASE \E why : Terminate(why)
    BY <1>1, <2>1, RestNeverStuck
  <2>2. CASE \E ts : timers \subseteq ts /\ Keep(pending, ts, Ended("probe"))
    <3>1. PICK ts : timers \subseteq ts /\ Keep(pending, ts, Ended("probe"))
      BY <2>2
    <3>2. Busy(ts, Ended("probe"))
      BY <1>1, <1>2, <3>1, EndedView DEF Busy, Active
    <3>3. QED
      BY <1>1, <3>1, <3>2, KeepNeverStuck
  <2>3. QED
    BY <1>4, <2>1, <2>2 DEF FinishProbe
<1>5. CASE \E k \in Authorized : Renews(k)
  <2>1. PICK k \in Authorized : Renews(k)
    BY <1>5
  <2>2. PICK c : c = [Quiet EXCEPT !.stage = "renewing", !.again = TRUE]
    OBVIOUS
  <2>3. c.stage = "renewing"
    BY <2>2, QuietType DEF Calls
  <2>4. UNCHANGED <<page, pending, timers>> /\ k # "refresh"
    BY <2>1 DEF Renews, Authorized
  <2>5. \A j \in {"submit", "poll"} : calls'[j] = calls[j] \/ calls'[j].stage = "renewing"
    <3>1. PICK d : d = [Quiet EXCEPT !.stage = "sent", !.base = session]
      OBVIOUS
    <3>2. /\ calls'[k] = c
          /\ \A j \in Kinds \ {k, "refresh"} : calls'[j] = calls[j]
      BY <1>1, <1>2, <2>1, <2>2, <2>4, <3>1 DEF Renews, Kinds
    <3>3. QED
      BY <1>2, <2>3, <3>2
  <2>6. Busy(timers', calls')
    BY <2>4, <2>5 DEF Busy, Active
  <2>7. QED
    BY <1>1, <2>4, <2>6, KeepWorking
<1>6. QED
  BY <1>3, <1>4, <1>5

\* The page is connected with a poll under way, or waits to be seen.
LEMMA ConnectedWorks ==
  ASSUME ClientOK, page.phase = "connecting", NEW p \in PendingRounds, ~p.ackStarted,
         NEW rev, NEW applied, NEW due \in BOOLEAN, Connected(rev, p, applied, due),
         due \/ p = NoPending \/ ~Available
  PROVE  NeverStuck'
<1>1. TypeOK
  BY DEF ClientOK
<1>2. pending' = [p EXCEPT !.pollDue = due] /\ page' = [page EXCEPT !.phase = "connected"]
  BY DEF Connected
<1>3. /\ pending'.round = p.round /\ ~pending'.ackStarted
      /\ page'.online = page.online /\ page'.visible = page.visible
  BY <1>1, <1>2 DEF PendingRounds, TypeOK, Pages
<1>4. CASE due
  BY <1>3, <1>4 DEF NeverStuck, Connected, ScheduledPoll, Available
<1>5. CASE p = NoPending \/ ~Available
  BY <1>3, <1>5, PendingType DEF NeverStuck, Available, Undelivered, Waiting
<1>6. QED
  BY <1>4, <1>5

LEMMA HandshakeWorks ==
  ASSUME ClientOK, NeverStuck, FinishExchange \/ FinishDiscover
  PROVE  NeverStuck'
<1>1. TypeOK /\ PagesOK
  BY DEF ClientOK
<1>2. page.phase = "connecting" /\ pending = NoPending
  BY <1>1 DEF FinishExchange, FinishDiscover, PagesOK, Active, Kinds
<1>3. NoPending \in PendingRounds /\ ~NoPending.ackStarted
  BY PendingType
<1>4. CASE \E why : Terminate(why) \/ FailConnect(why)
  BY <1>1, <1>4, RestNeverStuck
<1>5. CASE \E rev, applied : Connected(rev, NoPending, applied, FALSE)
  BY <1>2, <1>3, <1>5, ConnectedWorks
<1>6. CASE FinishExchange
  <2>1. CASE UNCHANGED pending
    BY <1>1, <1>2, <2>1, RestNeverStuck
  <2>2. CASE \E rev, applied, delta :
               Connected(rev, [Recovered(storage.round, storage.start) EXCEPT
                                 !.resubmitOnNotFound = (delta = 0)], applied, TRUE)
    <3>1. PICK rev, applied, delta :
               Connected(rev, [Recovered(storage.round, storage.start) EXCEPT
                                 !.resubmitOnNotFound = (delta = 0)], applied, TRUE)
      BY <2>2
    <3>2. PICK r : r = Recovered(storage.round, storage.start)
      OBVIOUS
    <3>3. r \in PendingRounds /\ ~r.ackStarted
      BY <1>1, <3>2, RecoveredType, Numbers
    <3>4. PICK b \in BOOLEAN : b = (delta = 0)
      OBVIOUS
    <3>5. PICK p : p = [r EXCEPT !.resubmitOnNotFound = b]
      OBVIOUS
    <3>6. p \in PendingRounds /\ ~p.ackStarted
      BY <3>3, <3>5 DEF PendingRounds
    <3>7. Connected(rev, p, applied, TRUE)
      BY <3>1, <3>2, <3>4, <3>5
    <3>8. QED
      BY <1>2, <3>6, <3>7, ConnectedWorks
  <2>3. QED
    BY <1>4, <1>5, <1>6, <2>1, <2>2, Zenon DEF FinishExchange
<1>7. CASE FinishDiscover
  <2>1. PICK p : p = Recovered(calls["discover"].reply.round, session - 1)
    OBVIOUS
  <2>2. CASE /\ calls["discover"].reply.kind = "ok"
             /\ calls["discover"].reply.round # NoRound
             /\ calls["discover"].reply.rev = session
    <3>1. calls["discover"].reply.round \in 0 .. MaxRounds /\ session - 1 \in 0 .. MaxRounds
      <4>1. "discover" \in Kinds /\ Active("discover")
        BY <1>7 DEF FinishDiscover, Active, Kinds
      <4>2. session > 0 /\ session \in -1 .. MaxRounds
        BY <1>1, <4>1, Numbers DEF PagesOK
      <4>3. QED
        BY <1>1, <4>1, <4>2, Constants DEF TypeOK, Calls, Answers
    <3>2. p \in PendingRounds /\ ~p.ackStarted
      BY <2>1, <3>1, RecoveredType
    <3>3. CASE pending' = [p EXCEPT !.delivered = TRUE]
      <4>1. pending'.delivered /\ ~pending'.ackStarted
        BY <3>2, <3>3 DEF PendingRounds
      <4>2. QED
        BY <4>1 DEF NeverStuck, Undelivered
    <3>4. CASE ~Available /\ \E applied : Connected(session, p, applied, FALSE)
      BY <1>2, <3>2, <3>4, ConnectedWorks
    <3>5. QED
      BY <1>7, <2>1, <2>2, <3>3, <3>4, Zenon DEF FinishDiscover
  <2>3. CASE ~(/\ calls["discover"].reply.kind = "ok"
               /\ calls["discover"].reply.round # NoRound
               /\ calls["discover"].reply.rev = session)
    BY <1>4, <1>5, <1>7, <2>3 DEF FinishDiscover
  <2>4. QED
    BY <2>2, <2>3
<1>8. QED
  BY <1>6, <1>7

LEMMA AvailabilityWorks ==
  ASSUME ClientOK, NeverStuck, NEW online \in BOOLEAN, NEW visible \in BOOLEAN,
         setRuntimeAvailability(online, visible)
  PROVE  NeverStuck'
<1>1. TypeOK /\ Open
  BY DEF ClientOK, setRuntimeAvailability
<1>2. CASE /\ ~(online /\ ~page.online) /\ ~(visible /\ ~page.visible)
           /\ Suspend(online, visible)
  <2>1. PICK rs : page' = [page EXCEPT !.online = online, !.visible = visible,
                                       !.recoveringShown = rs]
    BY <1>2 DEF Suspend
  <2>2. page'.online = online /\ page'.visible = visible /\ page'.phase = page.phase
    BY <1>1, <2>1 DEF TypeOK, Pages
  <2>3. Available' => Available /\ online /\ visible
    BY <1>1, <1>2, <2>2 DEF Available, TypeOK, Pages
  <2>4. /\ "deadline" \in timers => "deadline" \in timers'
        /\ Available' /\ "poll" \in timers => "poll" \in timers'
        /\ UNCHANGED <<pending, calls>>
    BY <1>2, <2>3 DEF Suspend
  <2>5. QED
    BY <2>2, <2>3, <2>4 DEF NeverStuck, Undelivered, Waiting, Active, Open
<1>3. CASE Resume(online, visible)
  <2> DEFINE availableAgain == ~Available /\ (online /\ visible)
             reconnects == availableAgain /\ page.parked
             reopen == availableAgain /\ page.recoveringShown /\ page.phase = "connected"
             repoll == availableAgain /\ Repolls
             sends == (~page.online /\ online) /\ Resumable /\ ~pending.ackNotBefore
             ph == IF reconnects THEN "connecting" ELSE page.phase
             lc == page.launchCode /\ ~reconnects
             pk == page.parked /\ ~reconnects
             rs == page.recoveringShown /\ ~reopen /\ ~reconnects
             pd == pending.pollDue \/ repoll
             af == pending.ackInFlight \/ sends
             aa == IF sends THEN pending.ackAttempts + 1 ELSE pending.ackAttempts
  <2>1. CASE \E why : Terminate(why)
    BY <1>1, <2>1, RestNeverStuck
  <2>2. CASE /\ page' = [page EXCEPT !.online = online, !.visible = visible, !.phase = ph,
                            !.launchCode = lc, !.parked = pk, !.recoveringShown = rs]
             /\ pending' = [pending EXCEPT !.pollDue = pd, !.ackInFlight = af,
                                           !.ackAttempts = aa]
             /\ timers \union (IF repoll THEN {"poll"} ELSE {}) \subseteq timers'
             /\ calls' = IF reconnects THEN [calls EXCEPT !["exchange"].stage = "sent"]
                         ELSE IF sends THEN Post(calls, "ack") ELSE calls
    <3>1. page'.phase = ph /\ (Available' <=> online /\ visible)
      <4> HIDE DEF ph, lc, pk, rs
      <4>1. QED
        BY <1>1, <2>2 DEF TypeOK, Pages, Available
    <3>2. AsFar(pending)' /\ AsFar(pending')
      <4> HIDE DEF pd, af, aa
      <4>1. QED
        BY <1>1, <2>2 DEF TypeOK, PendingRounds, AsFar
    <3>3. \A k \in {"submit", "poll"} : calls'[k] = calls[k]
      <4>1. \A k \in {"submit", "poll"} : Post(calls, "ack")[k] = calls[k]
        BY <1>1, PostView DEF TypeOK, Kinds, Authorized
      <4>2. \A k \in {"submit", "poll"} : [calls EXCEPT !["exchange"].stage = "sent"][k] = calls[k]
        BY <1>1 DEF TypeOK, Kinds, Authorized
      <4> HIDE DEF reconnects, sends
      <4>3. QED
        BY <2>2, <4>1, <4>2
    <3>4. CASE reconnects
      <4>1. ~pending.ackStarted /\ page'.phase = "connecting"
        BY <3>1, <3>4, PendingType DEF ClientOK, PagesOK
      <4>2. QED
        BY <3>2, <4>1 DEF NeverStuck, AsFar
    <3>5. CASE ~reconnects
      <4>1. page'.phase = page.phase
        BY <3>1, <3>5
      <4>2. Open /\ pending'.ackStarted => "deadline" \in timers'
        BY <1>1, <2>2, <3>2 DEF NeverStuck, AsFar
      <4>3. ASSUME page'.phase = "connected", Available', Undelivered'
            PROVE  "poll" \in timers' \/ Active("submit")' \/ Active("poll")'
        <5>1. Undelivered /\ online /\ visible
          BY <3>1, <3>2, <4>3 DEF Undelivered, Waiting, AsFar
        <5>2. CASE Available
          BY <2>2, <3>3, <4>1, <4>3, <5>1, <5>2 DEF NeverStuck, Active
        <5>3. CASE ~Available
          <6>1. CASE Active("poll")
            BY <3>3, <6>1 DEF Active
          <6>2. CASE ~Active("poll")
            <7>1. repoll
              BY <5>1, <5>3, <6>2 DEF Repolls
            <7> HIDE DEF repoll
            <7>2. QED
              BY <2>2, <7>1
          <6>3. QED
            BY <6>1, <6>2
        <5>4. QED
          BY <5>2, <5>3
      <4>4. QED
        BY <1>1, <4>1, <4>2, <4>3 DEF NeverStuck, Open
    <3>6. QED
      BY <3>4, <3>5
  <2>3. QED
    BY <1>3, <2>1, <2>2, Zenon DEF Resume
<1>4. QED
  BY <1>2, <1>3 DEF setRuntimeAvailability

LEMMA StuckInvariant ==
  ASSUME ClientOK, NeverStuck, Next
  PROVE  NeverStuck'
<1>1. TypeOK /\ PagesOK
  BY DEF ClientOK
<1>2. CASE connect
  <2>1. pending' = NoPending
    BY <1>1, <1>2 DEF connect, PagesOK
  <2>2. QED
    BY <1>1, <2>1, RestNeverStuck
<1>3. CASE requestSpin
  <2>1. Stakes
    BY <1>3, requestSpinStakes
  <2>2. /\ pending' = Recovered(pending'.round, session) /\ pending'.round \in 0 .. MaxRounds
        /\ session \in 0 .. MaxRounds /\ calls'["submit"].stage # "idle"
    BY <1>1, <2>1, Numbers DEF Stakes, PagesOK, Rounds
  <2>3. ~pending'.ackStarted
    BY <2>2, RecoveredType
  <2>4. QED
    BY <2>2, <2>3 DEF NeverStuck, Active
<1>4. CASE acknowledgeSpinResult
  BY <1>4, AcknowledgesWork
<1>5. CASE Respond
  BY <1>5, HandshakeWorks, FinishSubmitWorks, FinishPollWorks, FinishAcknowledgementWorks,
     RenewalsWork DEF Respond
<1>6. CASE Fire \/ WindowCloses
  BY <1>6, TimersWork
<1>7. CASE SessionTimeout
  BY <1>1, <1>7, RestNeverStuck DEF SessionTimeout
<1>8. CASE Close \/ Relaunch
  BY <1>1, <1>8, RestNeverStuck DEF Close, Relaunch
<1>9. CASE \E online, visible \in BOOLEAN : setRuntimeAvailability(online, visible)
  BY <1>9, AvailabilityWorks
<1>10. CASE WorldSteps
  <2>1. UNCHANGED <<page, pending, timers>> /\ \A k \in Kinds : Active(k)' <=> Active(k)
    BY <1>10, WorldKeeps, WorldCalls
  <2>2. QED
    BY <2>1 DEF NeverStuck, Open, Available, Undelivered, Waiting, Kinds, Authorized
<1>11. QED
  BY <1>2, <1>3, <1>4, <1>5, <1>6, <1>7, <1>8, <1>9, <1>10 DEF Next, WorldSteps

\* No wake-up is lost: a page that can be seen and waits for a result has a call
\* or a poll timer for it (schedulePoll, resumeRoundRecovery), and an
\* acknowledgement once begun keeps its deadline (scheduleAcknowledgementRetry)
\* until the round is cleared or the page ends.
THEOREM AlwaysWorks == Spec => []NeverStuck
<1>1. Init => NeverStuck
  <2>1. Init => pending = NoPending
    BY DEF Init
  <2>2. QED
    BY <2>1, PendingType DEF NeverStuck, Undelivered, Waiting
<1>2. ClientOK /\ NeverStuck /\ [Next]_vars => NeverStuck'
  <2>1. ASSUME NeverStuck, UNCHANGED vars
        PROVE  NeverStuck'
    BY <2>1 DEF vars, NeverStuck, Open, Available, Undelivered, Waiting, Active
  <2>2. QED
    BY <2>1, StuckInvariant
<1>3. QED
  BY <1>1, <1>2, ClientStarts, ClientKeeps, PTL DEF Spec

-----------------------------------------------------------------------------
(* The gateway keeps the delivery contract *)

\* The contract's variable, as ClientRound's refinement mapping gives it.
status == [r \in Rounds |-> IF budget.newTab THEN "idle" ELSE statusOf(r)]

\* What each state of the server, the ledger and the page means to the contract.
StatusRight(r) ==
  /\ statusOf(r) = "confirmed" <=> r \in server.acked
  /\ statusOf(r) = "shown" <=> r \in history.ever /\ r \notin server.acked
  /\ statusOf(r) = "committed" <=> server.round[r] = "committed" /\ r \notin history.ever
  /\ statusOf(r) = "void" <=> server.round[r] = "rejected"
  /\ statusOf(r) = "held" <=> server.round[r] = "review"
  /\ statusOf(r) = "requested" <=>
       \/ server.round[r] = "pending"
       \/ server.round[r] = "absent" /\ storage.round = r
  /\ statusOf(r) = "idle" <=> server.round[r] = "absent" /\ storage.round # r

LEMMA StatusView ==
  ASSUME TypeOK, ServerOK, NEW r \in Rounds
  PROVE  StatusRight(r)
<1>1. /\ server.round[r] \in {"absent", "pending", "committed", "rejected", "review"}
      /\ r \in server.acked => r \in history.ever
      /\ r \in history.ever => server.round[r] = "committed"
  BY DEF TypeOK, Servers, ServerOK, CommittedRounds
<1>2. QED
  BY <1>1 DEF statusOf, StatusRight

LEMMA NextStatusView ==
  ASSUME TypeOK', ServerOK', NEW r \in Rounds
  PROVE  StatusRight(r)'
<1>1. /\ server'.round[r] \in {"absent", "pending", "committed", "rejected", "review"}
      /\ r \in server'.acked => r \in history'.ever
      /\ r \in history'.ever => server'.round[r] = "committed"
  BY DEF TypeOK, Servers, ServerOK, CommittedRounds
<1>2. QED
  BY <1>1 DEF statusOf, StatusRight

\* A round whose record, on the server, in the ledger and on the page, stays.
SameRecord(r) ==
  /\ server'.round[r] = server.round[r]
  /\ r \in server'.acked <=> r \in server.acked
  /\ r \in history'.ever <=> r \in history.ever
  /\ server.round[r] = "absent" => (storage'.round = r <=> storage.round = r)

LEMMA SameStatus ==
  ASSUME ClientOK, ClientOK', NEW r \in Rounds, SameRecord(r)
  PROVE  statusOf(r)' = statusOf(r)
<1>1. TypeOK /\ ServerOK /\ TypeOK' /\ ServerOK'
  BY DEF ClientOK
<1>2. /\ server.round[r] \in {"absent", "pending", "committed", "rejected", "review"}
      /\ r \in history.ever => server.round[r] = "committed"
      /\ r \in server.acked => r \in history.ever
  BY <1>1 DEF TypeOK, Servers, ServerOK, CommittedRounds
<1>3. QED
  BY <1>1, <1>2, StatusView, NextStatusView DEF StatusRight, SameRecord

\* Only one round's status moves, as the contract allows.
LEMMA OneMoves ==
  ASSUME ClientOK, ClientOK', ~budget.newTab, budget'.newTab = budget.newTab,
         NEW r \in Rounds, \A q \in Rounds \ {r} : SameRecord(q)
  PROVE  status' = [status EXCEPT ![r] = statusOf(r)']
<1>1. \A q \in Rounds \ {r} : statusOf(q)' = statusOf(q)
  BY SameStatus
<1>2. /\ status' = [q \in Rounds |-> statusOf(q)']
      /\ status = [q \in Rounds |-> statusOf(q)]
  BY DEF status
<1>3. QED
  BY <1>1, <1>2

LEMMA NoneMoves ==
  ASSUME ClientOK, ClientOK', budget'.newTab = budget.newTab,
         \A q \in Rounds : SameRecord(q)
  PROVE  status' = status
  BY SameStatus DEF status

\* The round moves by one of the contract's steps, or stays.
LEMMA MovesAsAgreed ==
  ASSUME ClientOK, ClientOK', ~budget.newTab, budget'.newTab = budget.newTab,
         NEW r \in Rounds, \A q \in Rounds \ {r} : SameRecord(q),
         \/ statusOf(r)' = statusOf(r)
         \/ /\ statusOf(r) = "requested"
            /\ statusOf(r)' \in {"committed", "void", "held"}
         \/ statusOf(r) = "committed" /\ statusOf(r)' = "shown"
         \/ statusOf(r) = "shown" /\ statusOf(r)' = "confirmed"
         \/ /\ statusOf(r) = "idle" /\ statusOf(r)' = "requested"
            /\ \A q \in Rounds \ {r} : statusOf(q) \in {"idle", "confirmed", "void"}
  PROVE  [Contract!Next]_status
<1>1. status' = [status EXCEPT ![r] = statusOf(r)']
  BY OneMoves
<1>2. \A q \in Rounds : status[q] = statusOf(q)
  BY DEF status
<1>3. CASE statusOf(r)' = statusOf(r)
  <2>1. status' = status
    BY <1>1, <1>2, <1>3 DEF status
  <2>2. QED
    BY <2>1
<1>4. CASE statusOf(r) = "requested" /\ statusOf(r)' \in {"committed", "void", "held"}
  <2>1. Contract!Settle(r)
    BY <1>1, <1>2, <1>4 DEF Contract!Settle, Contract!Move, status
  <2>2. QED
    BY <2>1 DEF Contract!Next
<1>5. CASE statusOf(r) = "committed" /\ statusOf(r)' = "shown"
  <2>1. Contract!Show(r)
    BY <1>1, <1>2, <1>5 DEF Contract!Show, Contract!Move, status
  <2>2. QED
    BY <2>1 DEF Contract!Next
<1>6. CASE statusOf(r) = "shown" /\ statusOf(r)' = "confirmed"
  <2>1. Contract!Confirm(r)
    BY <1>1, <1>2, <1>6 DEF Contract!Confirm, Contract!Move, status
  <2>2. QED
    BY <2>1 DEF Contract!Next
<1>7. CASE /\ statusOf(r) = "idle" /\ statusOf(r)' = "requested"
           /\ \A q \in Rounds \ {r} : statusOf(q) \in {"idle", "confirmed", "void"}
  <2>1. Contract!Stake(r)
    BY <1>1, <1>2, <1>7 DEF Contract!Stake, Contract!Move, Contract!Over, status
  <2>2. QED
    BY <2>1 DEF Contract!Next
<1>8. QED
  BY <1>3, <1>4, <1>5, <1>6, <1>7

\* The page shows a round: it was committed, or shown before.
LEMMA ShowsAsAgreed ==
  ASSUME ClientOK, ClientOK', ~budget.newTab, budget'.newTab = budget.newTab,
         NEW r \in Rounds, server' = server, storage' = storage,
         server.round[r] = "committed", history'.ever = history.ever \union {r}
  PROVE  [Contract!Next]_status
<1>1. TypeOK /\ ServerOK /\ TypeOK' /\ ServerOK'
  BY DEF ClientOK
<1>2. \A q \in Rounds \ {r} : SameRecord(q)
  BY DEF SameRecord
<1>3. CASE r \in history.ever
  <2>1. SameRecord(r)
    BY <1>3 DEF SameRecord
  <2>2. QED
    BY <1>2, <2>1, SameStatus, MovesAsAgreed
<1>4. CASE r \notin history.ever
  <2>1. r \notin server.acked
    BY <1>1, <1>4 DEF ServerOK
  <2>2. statusOf(r) = "committed" /\ statusOf(r)' = "shown"
    BY <1>1, <1>4, <2>1, StatusView, NextStatusView DEF StatusRight
  <2>3. QED
    BY <1>2, <2>2, MovesAsAgreed
<1>5. QED
  BY <1>3, <1>4

LEMMA StepsAsAgreed ==
  ASSUME ClientOK, ClientOK', LedgerOK, PageSteps \/ WorldSteps
  PROVE  [Contract!Next]_status
<1>1. /\ TypeOK /\ ServerOK /\ PendingOK /\ RepliesOK /\ TypeOK' /\ ServerOK'
      /\ budget'.newTab = budget.newTab
  BY SameTab DEF ClientOK
<1>2. CASE budget.newTab
  <2>1. status' = status
    BY <1>1, <1>2 DEF status
  <2>2. QED
    BY <2>1
<1> SUFFICES ASSUME ~budget.newTab PROVE [Contract!Next]_status
  BY <1>2
<1>3. KeptLedger
  BY DEF LedgerOK
<1>4. ASSUME \A q \in Rounds : SameRecord(q)
      PROVE  [Contract!Next]_status
  <2>1. status' = status
    BY <1>1, <1>4, NoneMoves
  <2>2. QED
    BY <2>1
<1>5. CASE server' = server /\ storage' = storage /\ history'.ever = history.ever
  BY <1>4, <1>5 DEF SameRecord
<1>6. CASE Stops \/ Works \/ Renewed \/ Connects \/ Discovers \/ EntersIdle \/ EntersLedger
  BY <1>5, <1>6 DEF Stops, Works, Renewed, Connects, Discovers, EntersIdle, EntersLedger,
                    Enters
<1>7. CASE Relaunch
  <2>1. storage' = storage /\ server' = server /\ history'.ever = history.ever
    BY <1>1, <1>7 DEF Relaunch, TypeOK
  <2>2. QED
    BY <1>5, <2>1
<1>8. CASE Delivers
  BY <1>1, <1>8, WaitingRound, ShowsAsAgreed DEF Delivers
<1>9. CASE EntersFound
  <2>1. /\ server' = server /\ storage' = storage /\ pending'.round \in Rounds
        /\ server.round[pending'.round] = "committed"
    BY <1>1, <1>9, Never DEF EntersFound, Enters, RepliesOK
  <2>2. QED
    BY <1>1, <1>5, <1>9, <2>1, ShowsAsAgreed DEF EntersFound
<1>10. CASE Clears
  <2>1. /\ Live /\ Waiting /\ server' = server /\ history' = history
        /\ storage'.round = NoRound
    BY <1>10, EmptyLedger DEF Clears
  <2>2. server.round[pending.round] # "absent"
    BY <1>1, <1>10, <2>1, WaitingRound DEF Clears, ServerOK, CommittedRounds
  <2>3. storage.round = NoRound \/ storage.round = pending.round
    BY <1>1, <2>1, EmptyLedger DEF PendingOK, Kept
  <2>4. QED
    BY <1>4, <2>1, <2>2, <2>3, Never DEF SameRecord
<1>11. CASE Stakes
  <2>1. PICK r \in Rounds : r = pending'.round
    BY <1>11 DEF Stakes
  <2>2. /\ Live /\ ~Waiting /\ server' = server /\ history' = history
        /\ server.round[r] = "absent" /\ storage'.round = r
    BY <1>11, <2>1 DEF Stakes
  <2>3. ~Kept /\ storage.round = NoRound
    BY <1>1, <2>2, EmptyLedger DEF PendingOK, Kept
  <2>4. \A q \in Rounds : ~OnItsWay(q) /\ storage.round # q
    BY <1>1, <1>3, <2>3, NothingOnItsWay, Never
  <2>5. \A q \in Rounds : statusOf(q) \in {"idle", "confirmed", "void"}
    <3>1. SUFFICES ASSUME NEW q \in Rounds
                   PROVE  statusOf(q) \in {"idle", "confirmed", "void"}
      OBVIOUS
    <3>2. server.round[q] \in {"absent", "pending", "committed", "rejected", "review"}
      BY <1>1 DEF TypeOK, Servers
    <3>3. server.round[q] \in {"absent", "rejected"} \/ q \in server.acked
      BY <2>4, <3>2 DEF OnItsWay
    <3>4. QED
      BY <1>1, <2>4, <3>3, StatusView, NextStatusView DEF StatusRight
  <2>6. statusOf(r) = "idle" /\ statusOf(r)' = "requested"
    BY <1>1, <2>2, <2>4, StatusView, NextStatusView DEF StatusRight
  <2>7. \A q \in Rounds \ {r} : SameRecord(q)
    BY <2>2, <2>4 DEF SameRecord
  <2>8. QED
    BY <1>1, <2>5, <2>6, <2>7, MovesAsAgreed
<1>12. CASE WorldSteps
  <2>1. UNCHANGED <<storage, pending, history>> /\ Serves
    BY <1>12, WorldKeeps, WorldServes
  <2>2. CASE server' = server
    BY <1>5, <2>1, <2>2
  <2>3. CASE \E r \in Rounds : Moved(server', r)
    <3>1. PICK r \in Rounds : Moved(server', r)
      BY <2>3
    <3>2. storage.round = r /\ r \notin history.ever /\ r \notin server.acked
      BY <1>1, <1>3, <1>12, <3>1, MovedLedger DEF Moved, ServerOK, CommittedRounds
    <3>3. statusOf(r) = "requested"
      BY <1>1, <3>1, <3>2, StatusView, NextStatusView DEF StatusRight, Moved
    <3>4. statusOf(r)' \in {"requested", "committed", "void", "held"}
      BY <1>1, <2>1, <3>1, <3>2, StatusView, NextStatusView DEF StatusRight, Moved, Verdicts
    <3>5. \A q \in Rounds \ {r} : SameRecord(q)
      BY <2>1, <3>1 DEF SameRecord, Moved
    <3>6. QED
      BY <1>1, <3>3, <3>4, <3>5, MovesAsAgreed
  <2>4. CASE Confirmed
    <3>1. pending.round \in Rounds /\ pending.round \in history.ever
      BY <1>1, <2>4, WaitingRound DEF Confirmed, PendingOK
    <3>2. \A q \in Rounds \ {pending.round} : SameRecord(q)
      BY <2>1, <2>4 DEF Confirmed, SameRecord
    <3>3. statusOf(pending.round) \in {"shown", "confirmed"}
      BY <1>1, <3>1, StatusView, NextStatusView DEF StatusRight
    <3>4. PICK r \in Rounds : r = pending.round
      BY <3>1
    <3>5. statusOf(r)' = "confirmed"
      BY <1>1, <2>4, <3>4, StatusView, NextStatusView DEF StatusRight, Confirmed
    <3>6. QED
      BY <1>1, <3>2, <3>3, <3>4, <3>5, MovesAsAgreed
  <2>5. QED
    BY <2>1, <2>2, <2>3, <2>4 DEF Serves
<1>13. QED
  BY <1>6, <1>7, <1>8, <1>9, <1>10, <1>11, <1>12 DEF PageSteps

\* Over reloads, hidden pages, renewed tokens, lost, refused and late calls, a
\* tab that keeps its ledger keeps the delivery contract: it stakes a round when
\* the ones before are over (requestSpin), shows it when it is committed
\* (acceptCommitted, discoverPendingResult), and the server hears of it only
\* after that (submitResultAcknowledgement).
THEOREM KeepsContract == Spec => ImplementsDelivery
<1>1. Init => Contract!Init
  <2> SUFFICES ASSUME Init PROVE Contract!Init
    OBVIOUS
  <2>1. TypeOK /\ ServerOK
    BY ClientStarts DEF ClientOK
  <2>2. \A r \in Rounds : server.round[r] = "absent" /\ storage.round # r
    BY Never, EmptyLedger DEF Init
  <2>3. \A r \in Rounds : statusOf(r) = "idle"
    BY <2>1, <2>2, StatusView, NextStatusView DEF StatusRight
  <2>4. status = [r \in Rounds |-> "idle"]
    BY <2>3 DEF status
  <2>5. QED
    BY <2>4 DEF Contract!Init, status
<1>2. TrustOK /\ TrustOK' /\ [Next]_vars => [Contract!Next]_status
  <2>1. ASSUME TrustOK, TrustOK', Next
        PROVE  [Contract!Next]_status
    BY <2>1, StepKinds, StepsAsAgreed DEF TrustOK
  <2>2. ASSUME UNCHANGED vars
        PROVE  status' = status
    BY <2>2 DEF vars, status, statusOf
  <2>3. QED
    BY <2>1, <2>2
<1>3. QED
  BY <1>1, <1>2, LedgerAgrees, PTL DEF Spec, ImplementsDelivery, Contract!Spec, status
=============================================================================
