--------------------------- MODULE AssetStreaming ---------------------------
(***************************************************************************)
(* The streaming asset packages of the web game                             *)
(* (StreamingAssetPackages.ts, StreamingAssetRuntime.ts).  Feature events   *)
(* take leases on packages of a manifest.  The package manager loads a      *)
(* package once for all its callers, its dependencies first; it counts the  *)
(* leases and drops a payload with its last one.  Resources are fetched     *)
(* through a semaphore, retried, checked and decoded.  An event may end,    *)
(* and the runtime may be destroyed, at any moment.                         *)
(*                                                                          *)
(* The continuation of a settled promise is an action of its own; it runs   *)
(* before the next answer of the network, timer or decoder.  Events begin   *)
(* and end between any two continuations, except while the result of a load *)
(* is on its way through its own promise chain: an abort in that window     *)
(* either reaches the load before its payload is stored or undoes the       *)
(* reservation after the load has left the manager, as the lengths of the   *)
(* two chains have it, and the model leaves that race out.                  *)
(* A load is always called with an abort signal, as the runtime calls it.   *)
(***************************************************************************)
EXTENDS Integers, Sequences, FiniteSets, SequencesExt

CONSTANTS Packages, MaxJobs,
          Leases,        \* bound: leases an event or a stage may take
          Attempts,      \* bound: loads alive at a time, by number
          Slots,         \* concurrency of the semaphore
          MaxAttempts,   \* fetches of a resource in one load
          Scenarios      \* manifests, what events want of them, what goes wrong

ASSUME StreamingAssumption ==
  /\ {MaxJobs, Slots, MaxAttempts} \subseteq Nat /\ Slots > 0 /\ MaxAttempts > 0
  /\ \A s \in Scenarios :
       /\ s.dependsOn \in [Packages -> Seq(Packages)]
       /\ s.resources \in [Packages -> 1..MaxJobs] /\ s.bytes \in [Packages -> Nat]
       /\ s.maxRetained \in Nat       \* maxRetainedBytes
       /\ s.targets \in [Leases -> SUBSET Packages]   \* acquired together
       /\ s.failures \in Nat          \* bound: answers that fail
       /\ s.mayDestroy \in BOOLEAN
       /\ s.live \in BOOLEAN          \* fairness is assumed of this scenario

None == "none"
Callers == Leases \cup Attempts
States == {"unrequested", "fetching", "decoding", "ready", "failed", "cancelled"}
Running == {"queued", "fetch", "delay", "check"}
Holding == {"fetch", "delay", "check"}      \* the job holds a slot

VARIABLES plan,      \* the scenario
          mgr,       \* the package manager
          join,      \* what every caller awaits of every package
          lease,     \* the leases, from the event to their end
          manifest,  \* the manifest and the manager made from it
          destroyed

vars == <<plan, mgr, join, lease, manifest, destroyed>>

Jobs(p) == 1..plan.resources[p]
Targets == plan.targets
DependsOn == plan.dependsOn

NoJob == [st |-> "none", tries |-> 0]
NoAttempt == [pkg |-> None, aborted |-> FALSE, at |-> 0, out |-> "none",
              jobs |-> [r \in 1..MaxJobs |-> NoJob]]
NoJoin == [to |-> None, st |-> "none"]
Idle == [state |-> "unrequested", ready |-> FALSE, inFlight |-> None, callers |-> {},
         pending |-> 0, active |-> 0]

TypeOK ==
  /\ mgr.rt \in [Packages -> [state : States, ready : BOOLEAN, inFlight : Attempts \cup {None},
                              callers : SUBSET Callers, pending : 0..Cardinality(Leases),
                              active : 0..Cardinality(Leases)]]
  /\ \A a \in Attempts :
       /\ mgr.att[a].pkg \in Packages \cup {None} /\ mgr.att[a].aborted \in BOOLEAN
       /\ mgr.att[a].out \in {"none", "deps", "jobs", "ok", "bad", "settled"}
       /\ \A r \in 1..MaxJobs : /\ mgr.att[a].jobs[r].st \in Running \cup {"none", "ok", "bad"}
                                /\ mgr.att[a].jobs[r].tries \in 0..MaxAttempts
  /\ mgr.queue \in Seq(Attempts \X (1..MaxJobs)) /\ mgr.busy \in 0..Slots
  /\ join \in [Callers -> [Packages -> [to : Attempts \cup {None},
                 st : {"none", "wait", "aborted", "ok", "bad", "cancelled"}]]]
  /\ \A l \in Leases :
       /\ lease[l].st \in {"idle", "manifest", "loading", "got", "wrapped", "held", "over"}
       /\ lease[l].why \in {"none", "failed", "cancelled", "capacity"}
       /\ {lease[l].aborted, lease[l].released, lease[l].payload} \subseteq BOOLEAN
  /\ manifest \in {"none", "loading", "ready"}
  /\ destroyed \in BOOLEAN /\ \E s \in Scenarios : plan.failures \in 0..s.failures

Init ==
  /\ plan \in Scenarios
  /\ mgr = [rt |-> [p \in Packages |-> Idle], att |-> [a \in Attempts |-> NoAttempt],
            queue |-> <<>>, busy |-> 0]
  /\ join = [c \in Callers |-> [p \in Packages |-> NoJoin]]
  /\ lease = [l \in Leases |-> [st |-> "idle", why |-> "none", aborted |-> FALSE,
                                released |-> FALSE, payload |-> FALSE]]
  /\ manifest = "none" /\ destroyed = FALSE

-----------------------------------------------------------------------------
(* The dependency closure of a set of packages.                             *)
RECURSIVE Closure(_)
Closure(ps) ==
  LET more == ps \cup UNION {ToSet(DependsOn[p]) : p \in ps}
  IN IF more = ps THEN ps ELSE Closure(more)
dependencyClosureIds(l) == Closure(Targets[l])

Reserved(m, p) == m.rt[p].pending > 0 \/ m.rt[p].active > 0
BytesOf(ps) == FoldSet(LAMBDA p, sum : plan.bytes[p] + sum, 0, ps)
retainedPayloadBytes(m) == BytesOf({p \in Packages : Reserved(m, p)})
FitsReservation_Alone(m, ps) == BytesOf(ps) <= plan.maxRetained
FitsReservation(m, ps) == BytesOf(ps \cup {p \in Packages : Reserved(m, p)}) <= plan.maxRetained

\* References.  A payload is dropped with the last one, unless it is loading.
evictIfUnowned(r) ==
  IF r.active > 0 \/ r.pending > 0 \/ r.inFlight # None THEN r
  ELSE [r EXCEPT !.ready = FALSE, !.state = "unrequested"]
OnEach(m, ps, Change(_)) == [m EXCEPT !.rt = [p \in Packages |-> IF p \in ps THEN Change(m.rt[p]) ELSE m.rt[p]]]
reserveReferences(m, ps) == OnEach(m, ps, LAMBDA r : [r EXCEPT !.pending = @ + 1])
activateReferences(m, ps) ==
  OnEach(m, ps, LAMBDA r : [r EXCEPT !.pending = IF @ > 0 THEN @ - 1 ELSE 0, !.active = @ + 1])
rollbackPendingReferences_Kept(m, ps) ==
  OnEach(m, ps, LAMBDA r : [r EXCEPT !.pending = IF @ > 0 THEN @ - 1 ELSE 0])
rollbackPendingReferences(m, ps) ==
  OnEach(m, ps, LAMBDA r :
    LET back == [r EXCEPT !.pending = IF @ > 0 THEN @ - 1 ELSE 0]
    IN IF r.ready THEN evictIfUnowned(back) ELSE back)
releaseReferences(m, ps) ==
  OnEach(m, ps, LAMBDA r : evictIfUnowned([r EXCEPT !.active = @ - 1]))

-----------------------------------------------------------------------------
(* The semaphore.  A slot that is given back goes to the head of the queue. *)
SetJob(m, a, r, st) == [m EXCEPT !.att[a].jobs[r].st = st]
GiveBack(m) ==
  IF m.queue = <<>> THEN [m EXCEPT !.busy = @ - 1]
  ELSE LET next == Head(m.queue)
       IN [SetJob(m, next[1], next[2], "fetch") EXCEPT
             !.queue = Tail(@), !.att[next[1]].jobs[next[2]].tries = 1]
TakeSlot(m, a, r) ==
  IF m.busy < Slots
  THEN [SetJob(m, a, r, "fetch") EXCEPT !.busy = @ + 1, !.att[a].jobs[r].tries = 1]
  ELSE [SetJob(m, a, r, "queued") EXCEPT !.queue = Append(@, <<a, r>>)]

\* Promise.all over the resources: the first failure settles, the others run on.
AllJobs(m, a) ==
  LET jobs == m.att[a].jobs
      mine == Jobs(m.att[a].pkg)
  IN IF m.att[a].out # "jobs" THEN m
     ELSE IF \E r \in mine : jobs[r].st = "bad" THEN [m EXCEPT !.att[a].out = "bad"]
     ELSE IF \A r \in mine : jobs[r].st = "ok" THEN [m EXCEPT !.att[a].out = "ok"]
     ELSE m
JobEnds(m, a, r, st) == AllJobs(GiveBack(SetJob(m, a, r, st)), a)

loadResources(m, a) ==
  LET p == m.att[a].pkg
      fetching == [m EXCEPT !.att[a].out = "jobs", !.rt[p].state = "fetching"]
  IN FoldLeft(LAMBDA acc, r : TakeSlot(acc, a, r), fetching, [r \in Jobs(p) |-> r])

\* The abort of a load reaches its queue, its fetches and its delays, not
\* the digest or the decoder of a resource.
AbortJob(m, a, r) ==
  CASE m.att[a].jobs[r].st = "queued" ->
         [SetJob(m, a, r, "bad") EXCEPT !.queue = SelectSeq(@, LAMBDA q : q # <<a, r>>)]
    [] m.att[a].jobs[r].st \in {"fetch", "delay"} -> GiveBack(SetJob(m, a, r, "bad"))
    [] OTHER -> m
AbortLoad(m, a) ==
  LET aborted == [m EXCEPT !.att[a].aborted = TRUE]
      order == [r \in 1..MaxJobs |-> r]
      queued == FoldLeft(LAMBDA acc, r : IF acc.att[a].jobs[r].st = "queued"
                                         THEN AbortJob(acc, a, r) ELSE acc, aborted, order)
  IN AllJobs(FoldLeft(LAMBDA acc, r : AbortJob(acc, a, r), queued, order), a)

-----------------------------------------------------------------------------
(* load() on behalf of a caller, down to the first dependency that is not   *)
(* ready.  A state of the manager and the joins is a pair [m, j].            *)
Alive(s, a) == \/ s.m.att[a].out \notin {"none", "settled"}
               \/ \E r \in 1..MaxJobs : s.m.att[a].jobs[r].st \in Running
               \/ \E c \in Callers, p \in Packages : s.j[c][p].to = a
Fresh(s) == CHOOSE a \in Attempts : ~Alive(s, a)

joinInFlight(s, who, p) ==
  [m |-> [s.m EXCEPT !.rt[p].callers = @ \cup {who}],
   j |-> [s.j EXCEPT ![who][p] = [to |-> s.m.rt[p].inFlight, st |-> "wait"]]]

Joinable(m, p) == m.rt[p].inFlight # None /\ ~m.att[m.rt[p].inFlight].aborted

\* Op of the value of x, which is computed once.
Given(x, Op(_)) == CHOOSE y \in {Op(v) : v \in {x}} : TRUE

RECURSIVE load(_, _, _)
BeginLoad(s, a, p) ==
  LET begun == [s EXCEPT !.m.rt[p].state = "unrequested", !.m.rt[p].callers = {},
                         !.m.rt[p].inFlight = a,
                         !.m.att[a] = [NoAttempt EXCEPT !.pkg = p, !.out = "deps", !.at = 1]]
  IN IF DependsOn[p] = <<>> THEN [begun EXCEPT !.m = loadResources(@, a)]
     ELSE load(begun, a, DependsOn[p][1])
load(now, who, p) ==
  Given(now, LAMBDA s :
    IF s.m.rt[p].ready THEN [s EXCEPT !.j[who][p] = [to |-> None, st |-> "ok"]]
    ELSE IF Joinable(s.m, p) THEN joinInFlight(s, who, p)
    ELSE Given(BeginLoad(s, Fresh(s), p), LAMBDA started : joinInFlight(started, who, p)))

\* The settled loads nobody refers to any more.
Tidied(s) ==
  [s EXCEPT !.m.att = [a \in Attempts |->
     IF Alive(s, a) \/ \E p \in Packages : s.m.rt[p].inFlight = a THEN @[a] ELSE NoAttempt]]

Becomes(s) == \E whole \in {s} : \E t \in {Tidied(whole)} : mgr' = t.m /\ join' = t.j
Now == [m |-> mgr, j |-> join]

-----------------------------------------------------------------------------
(* Continuations that are ready.                                            *)
Settled(a) == mgr.att[a].out \in {"ok", "bad"}
JoinReady(c, p) == join[c][p].st \notin {"none", "wait"}
Microtask == \/ \E a \in Attempts : Settled(a)
             \/ \E c \in Callers, p \in Packages : JoinReady(c, p)
             \/ \E l \in Leases : \/ lease[l].st \in {"got", "wrapped"}
                                  \/ lease[l].st = "manifest" /\ (manifest # "loading" \/ lease[l].aborted)
Quiet == ~Microtask
NoLoadSettling == \A a \in Attempts : ~Settled(a)

\* A load settles: then, catch and finally of its promise.
Outcome(a) == IF mgr.att[a].out = "ok" /\ ~mgr.att[a].aborted THEN "ok"
              ELSE IF mgr.att[a].aborted THEN "cancelled" ELSE "bad"
AttemptSettles(a) ==
  /\ Settled(a)
  /\ LET p == mgr.att[a].pkg
         out == Outcome(a)
         told == [mgr EXCEPT !.att[a].out = "settled",
                    !.rt[p].ready = @ \/ out = "ok",
                    !.rt[p].state = CASE out = "ok" -> "ready" [] out = "cancelled" -> "cancelled"
                                      [] OTHER -> "failed"]
         freed == IF told.rt[p].inFlight # a THEN told
                  ELSE [told EXCEPT !.rt[p].inFlight = None, !.rt[p].callers = {}]
     IN Becomes([m |-> freed,
                 j |-> [c \in Callers |-> [q \in Packages |->
                          IF join[c][q].to = a /\ join[c][q].st = "wait"
                          THEN [to |-> a, st |-> out] ELSE join[c][q]]]])
  /\ UNCHANGED <<lease, manifest, destroyed, plan>>

\* The finally block of joinInFlight: the last caller to give up ends the load.
GivenUp_Any(p, s) == TRUE
GivenUp(p, s) == s.m.rt[p].callers = {}
LeavesLoad(c, p) ==
  LET j == join[c][p]
      left == [m |-> [mgr EXCEPT !.rt[p].callers = IF mgr.rt[p].inFlight = j.to THEN @ \ {c} ELSE @],
               j |-> [join EXCEPT ![c][p] = NoJoin]]
  IN IF /\ j.st = "aborted" /\ j.to # None /\ mgr.rt[p].inFlight = j.to
        /\ GivenUp(p, left) /\ ~mgr.att[j.to].aborted
     THEN [m |-> AbortLoad(left.m, j.to),
           j |-> [left.j EXCEPT ![j.to] = [q \in Packages |->
                    IF @[q].st = "wait" THEN [@[q] EXCEPT !.st = "aborted"] ELSE @[q]]]]
     ELSE left

\* A dependency of a load is there, or not.
DependencySettles(a, p) ==
  /\ JoinReady(a, p)
  /\ \E s \in {LeavesLoad(a, p)} : LET at == mgr.att[a].at
                                      deps == DependsOn[mgr.att[a].pkg] IN
       Becomes(
          IF join[a][p].st # "ok" THEN [s EXCEPT !.m.att[a].out = "bad"]
          ELSE IF at < Len(deps)
          THEN IF s.m.att[a].aborted
               THEN [load([s EXCEPT !.m.att[a].at = at + 1], a, deps[at + 1])
                       EXCEPT !.j[a][deps[at + 1]].st = "aborted"]
               ELSE load([s EXCEPT !.m.att[a].at = at + 1], a, deps[at + 1])
          ELSE IF s.m.att[a].aborted THEN [s EXCEPT !.m.att[a].out = "bad"]
          ELSE [s EXCEPT !.m = loadResources(s.m, a)])
  /\ UNCHANGED <<lease, manifest, destroyed, plan>>

-----------------------------------------------------------------------------
(* The leases.                                                              *)
Aborted(l) == lease[l].aborted \/ destroyed
Over(l, why) == [lease EXCEPT ![l].st = "over", ![l].why = why]

\* An event begins: beginStreamingAssetEventLease, acquireConsumerLease.
LeaseBegins(l) ==
  /\ NoLoadSettling /\ lease[l].st = "idle" /\ Targets[l] # {}
  /\ IF destroyed
     THEN lease' = Over(l, "cancelled") /\ UNCHANGED manifest
     ELSE /\ lease' = [lease EXCEPT ![l].st = "manifest"]
          /\ manifest' = IF manifest = "none" THEN "loading" ELSE manifest
  /\ UNCHANGED <<mgr, join, destroyed, plan>>

ManifestArrives ==
  /\ Quiet /\ manifest = "loading"
  /\ \/ manifest' = "ready" /\ UNCHANGED plan
     \/ plan.failures > 0 /\ plan' = [plan EXCEPT !.failures = @ - 1] /\ manifest' = "none"
  /\ UNCHANGED <<mgr, join, lease, destroyed>>

\* The manager is there: acquire() reserves the closure and loads the targets.
\* One that was aborted still calls load, which leaves at once.
acquire(l) ==
  LET ps == dependencyClosureIds(l)
      reserved == [m |-> reserveReferences(mgr, ps), j |-> join]
  IN IF ~FitsReservation(mgr, ps)
     THEN lease' = Over(l, "capacity") /\ UNCHANGED <<mgr, join>>
     ELSE /\ lease' = [lease EXCEPT ![l].st = "loading"]
          /\ Becomes(FoldSet(LAMBDA p, s : load(s, l, p), reserved, Targets[l]))

ManagerReady(l) ==
  /\ lease[l].st = "manifest" /\ (manifest # "loading" \/ lease[l].aborted)
  /\ IF Aborted(l) THEN lease' = Over(l, "cancelled") /\ UNCHANGED <<mgr, join>>
     ELSE IF manifest = "none" THEN lease' = Over(l, "failed") /\ UNCHANGED <<mgr, join>>
     ELSE acquire(l)
  /\ UNCHANGED <<manifest, destroyed, plan>>

\* A load of the lease settles: the references become active, or are undone.
TargetSettles(l, p) ==
  /\ JoinReady(l, p)
  /\ \E s \in {LeavesLoad(l, p)} :
     LET ps == dependencyClosureIds(l)
         waits == \E q \in Targets[l] \ {p} : join[l][q].st # "none"
         failed == join[l][p].st # "ok" \/ lease[l].aborted
     IN IF lease[l].st # "loading" \/ (waits /\ join[l][p].st = "ok")
        THEN Becomes(s) /\ UNCHANGED lease
        ELSE IF failed
        THEN /\ Becomes([s EXCEPT !.m = rollbackPendingReferences(s.m, ps)])
             /\ lease' = Over(l, IF join[l][p].st = "bad" /\ ~lease[l].aborted
                                 THEN "failed" ELSE "cancelled")
        ELSE /\ Becomes([s EXCEPT !.m = activateReferences(s.m, ps)])
             /\ lease' = [lease EXCEPT ![l].st = "got"]
  /\ UNCHANGED <<manifest, destroyed, plan>>

GivesUp(l, why) ==
  /\ Becomes([Now EXCEPT !.m = releaseReferences(mgr, dependencyClosureIds(l))])
  /\ lease' = Over(l, why)

\* The runtime wraps the lease and registers it, or gives it back.
wrapPackageLease(l) ==
  /\ lease[l].st = "got"
  /\ IF Aborted(l) THEN GivesUp(l, "cancelled")
     ELSE lease' = [lease EXCEPT ![l].st = "wrapped"] /\ UNCHANGED <<mgr, join>>
  /\ UNCHANGED <<manifest, destroyed, plan>>

\* The event receives its lease, unless it ended meanwhile.
Delivered(l) == lease[l].released
LeaseDelivered(l) ==
  /\ lease[l].st = "wrapped"
  /\ IF Delivered(l) THEN GivesUp(l, "cancelled")
     ELSE /\ lease' = [lease EXCEPT ![l].st = "held", ![l].payload = TRUE]
          /\ UNCHANGED <<mgr, join>>
  /\ UNCHANGED <<manifest, destroyed, plan>>

\* The abort of signals of leases: what they await rejects.
AbortJoins(ls) ==
  [c \in Callers |-> [p \in Packages |->
     IF c \in ls /\ join[c][p].st = "wait" THEN [join[c][p] EXCEPT !.st = "aborted"]
     ELSE join[c][p]]]
Unlinked(l) == lease[l].st \in {"idle", "wrapped", "held", "over"}

\* The event ends.
LeaseReleases(l) ==
  /\ NoLoadSettling /\ lease[l].st \notin {"idle", "over"} /\ ~lease[l].released
  /\ IF lease[l].st = "held"
     THEN /\ Becomes([Now EXCEPT !.m = releaseReferences(mgr, dependencyClosureIds(l))])
          /\ lease' = [lease EXCEPT ![l].st = "over", ![l].released = TRUE]
     ELSE /\ lease' = [lease EXCEPT ![l].released = TRUE, ![l].aborted = @ \/ ~Unlinked(l)]
          /\ join' = IF Unlinked(l) THEN join ELSE AbortJoins({l})
          /\ UNCHANGED mgr
  /\ UNCHANGED <<manifest, destroyed, plan>>

\* destroy(): every pending operation is aborted, every registered lease released.
destroy ==
  /\ NoLoadSettling /\ plan.mayDestroy /\ ~destroyed
  /\ destroyed' = TRUE /\ manifest' = IF manifest = "loading" THEN "none" ELSE manifest
  /\ LET held == {l \in Leases : lease[l].st \in {"wrapped", "held"}}
         linked == {l \in Leases : ~Unlinked(l)}
         freed == FoldSet(LAMBDA l, m : releaseReferences(m, dependencyClosureIds(l)), mgr, held)
     IN /\ lease' = [l \in Leases |->
                       IF l \in held THEN [lease[l] EXCEPT !.st = "over"]
                       ELSE IF l \in linked THEN [lease[l] EXCEPT !.aborted = TRUE]
                       ELSE lease[l]]
        /\ Becomes([m |-> freed, j |-> AbortJoins(linked)])
  /\ UNCHANGED plan

-----------------------------------------------------------------------------
(* The network, timers and decoders.                                        *)
JobRuns(a, r, st) == mgr.att[a].jobs[r].st = st
DoJob(m) == Becomes([Now EXCEPT !.m = m]) /\ UNCHANGED <<lease, manifest, destroyed>>

\* A response: its bytes report progress; a failed one is tried again.
RetryDelay(a, r) == IF mgr.att[a].jobs[r].tries < MaxAttempts THEN "delay" ELSE "bad"
FetchAnswers(a, r) ==
  /\ Quiet /\ JobRuns(a, r, "fetch")
  /\ \/ /\ DoJob([SetJob(mgr, a, r, "check") EXCEPT !.rt[mgr.att[a].pkg].state = "fetching"])
        /\ UNCHANGED plan
     \/ /\ plan.failures > 0 /\ plan' = [plan EXCEPT !.failures = @ - 1]
        /\ DoJob(IF RetryDelay(a, r) = "delay" THEN SetJob(mgr, a, r, "delay")
                 ELSE JobEnds(mgr, a, r, "bad"))

RetryDelayEnds(a, r) ==
  /\ Quiet /\ JobRuns(a, r, "delay")
  /\ DoJob([SetJob(mgr, a, r, "fetch") EXCEPT !.att[a].jobs[r].tries = @ + 1])
  /\ UNCHANGED plan

\* The digest and the decoder; a wrong digest is not tried again.
CheckEnds(a, r) ==
  /\ Quiet /\ JobRuns(a, r, "check")
  /\ IF mgr.att[a].aborted
     THEN DoJob(JobEnds(mgr, a, r, "bad")) /\ UNCHANGED plan
     ELSE \/ /\ DoJob([JobEnds(mgr, a, r, "ok") EXCEPT !.rt[mgr.att[a].pkg].state = "decoding"])
             /\ UNCHANGED plan
          \/ /\ plan.failures > 0 /\ plan' = [plan EXCEPT !.failures = @ - 1]
             /\ DoJob(JobEnds(mgr, a, r, "bad"))

Progress ==
  \/ ManifestArrives
  \/ \E l \in Leases : \/ ManagerReady(l) \/ wrapPackageLease(l) \/ LeaseDelivered(l)
                       \/ \E p \in Packages : TargetSettles(l, p)
  \/ \E a \in Attempts :
       \/ AttemptSettles(a)
       \/ \E p \in Packages : DependencySettles(a, p)
       \/ \E r \in 1..MaxJobs : FetchAnswers(a, r) \/ RetryDelayEnds(a, r) \/ CheckEnds(a, r)

Next == \/ Progress \/ destroy
        \/ \E l \in Leases : LeaseBegins(l) \/ LeaseReleases(l)

Spec == Init /\ [][Next]_vars

\* Continuations run; the network, timers and decoders answer in the end.
FairSpec == Spec /\ WF_vars(plan.live /\ Progress)

-----------------------------------------------------------------------------
(* A lease that was handed out keeps the payload of its whole closure,      *)
(* whoever else takes, loses or gives back a lease meanwhile.                *)
LeaseHoldsPayload ==
  \A l \in Leases : lease[l].st \in {"got", "wrapped", "held"} =>
    \A p \in dependencyClosureIds(l) : mgr.rt[p].ready

(* The counts are exactly the leases that load, and those that hold, the    *)
(* package: none is lost, counted twice or given back twice.                 *)
CountsExact ==
  \A p \in Packages :
    /\ mgr.rt[p].pending =
         Cardinality({l \in Leases : lease[l].st = "loading" /\ p \in dependencyClosureIds(l)})
    /\ mgr.rt[p].active =
         Cardinality({l \in Leases : /\ lease[l].st \in {"got", "wrapped", "held"}
                                     /\ p \in dependencyClosureIds(l)})

(* StreamingAssetRuntime.ts:440: payloads are retained only while a lease   *)
(* (or a reservation that becomes one) is valid.                             *)
NothingOrphaned ==
  Quiet => \A p \in Packages : mgr.rt[p].ready => Reserved(mgr, p)

(* The payloads in memory stay within the ceiling, not only the reserved    *)
(* ones (maxRetainedBytes).                                                  *)
WithinCeiling == Quiet => BytesOf({p \in Packages : mgr.rt[p].ready}) <= plan.maxRetained

(* The semaphore has as many slots in use as jobs that hold one, and lends  *)
(* every slot while somebody waits for one.                                  *)
SlotsConserved ==
  /\ mgr.busy = Cardinality({w \in Attempts \X (1..MaxJobs) :
                               mgr.att[w[1]].jobs[w[2]].st \in Holding})
  /\ mgr.queue # <<>> => mgr.busy = Slots

(* An event that ended keeps nothing, however late its lease arrives         *)
(* (StreamingAssetRuntime.ts:140).                                           *)
ReleasedGivesBack == Quiet => \A l \in Leases : lease[l].released => lease[l].st = "over"

(* A lease is cancelled by its own event or by the end of the runtime, never *)
(* because another caller of the same load gave up.                          *)
CancelledByItsOwn ==
  \A l \in Leases : lease[l].why = "cancelled" => lease[l].aborted \/ lease[l].released \/ destroyed

(* A payload is shown as ready exactly while it is there.                    *)
ReadyMeansReady ==
  Quiet => \A p \in Packages : mgr.rt[p].ready <=> mgr.rt[p].state = "ready"

(* Every acquisition ends, with a payload or without, and a destroyed       *)
(* runtime gives everything back.                                            *)
Unfinished(l) == lease[l].st \in {"manifest", "loading", "got", "wrapped"}
LeasesEnd ==
  plan.live =>
    /\ \A l \in Leases : Unfinished(l) ~> ~Unfinished(l)
    /\ destroyed ~> \A p \in Packages : ~mgr.rt[p].ready /\ ~Reserved(mgr, p)
=============================================================================
