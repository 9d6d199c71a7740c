--------------------------- MODULE AudioLifecycle ---------------------------
(***************************************************************************)
(* AudioManager.ts and unlock/suspend of PrimalSpriteAudioBackend.ts: the  *)
(* audio context is resumed by gestures and by the page coming back, and   *)
(* suspended when the page is hidden or loses the focus; both take a while *)
(* during which the page may change again.                                 *)
(***************************************************************************)
EXTENDS Integers, Sequences

CONSTANTS MaxCalls,   \* bound: signals of the page and calls of the owner
          MaxQueue    \* bound: lifecycle tasks that wait

VARIABLE s

(* missed: a suspension found the context not running yet, because a       *)
(* resumption asked for by a gesture was under way.                        *)
Init ==
  \E hidden \in BOOLEAN :
    s = [hidden |-> hidden, active |-> ~hidden, queue |-> <<>>, busy |-> "none", ctx |-> "suspended",
         op |-> "none", unlocking |-> FALSE, ever |-> FALSE, muted |-> FALSE, refused |-> FALSE,
         missed |-> FALSE, dead |-> FALSE, calls |-> 0]

(* Types of the state. *)
TypeOK ==
  /\ {s.hidden, s.active, s.unlocking, s.ever, s.muted, s.refused, s.missed, s.dead} \subseteq BOOLEAN
  /\ s.queue \in Seq([kind : {"suspend", "unlock", "unmute"}, fresh : BOOLEAN]) /\ Len(s.queue) <= MaxQueue
  /\ s.busy \in {"none", "suspend", "unlock"} /\ s.op \in {"none", "suspending", "resuming"}
  /\ s.ctx \in {"suspended", "running", "closed"} /\ s.calls \in 0..MaxCalls

-----------------------------------------------------------------------------
Enqueue(r, kind) == [r EXCEPT !.queue = Append(@, [kind |-> kind, fresh |-> TRUE])]
(* A later signal of the page: what waits for the former one is stale.     *)
Outdated(q) == [i \in DOMAIN q |-> [q[i] EXCEPT !.fresh = @ /\ q[i].kind = "unmute"]]

setPageActive_Peeks(r, active) ==
  IF r.dead \/ r.active = active THEN r
  ELSE LET turned == [r EXCEPT !.active = active, !.queue = Outdated(@)]
       IN  IF ~active THEN Enqueue(turned, "suspend")
           ELSE IF r.ever /\ r.ctx # "running" THEN Enqueue(turned, "unlock")
           ELSE turned
setPageActive(r, active) ==
  IF r.dead \/ r.active = active THEN r
  ELSE LET turned == [r EXCEPT !.active = active, !.queue = Outdated(@)]
       IN  IF ~active THEN Enqueue(turned, "suspend")
           ELSE IF r.ever THEN Enqueue(turned, "unlock")
           ELSE turned

restoreVisibleGesturePageActivity(r) == IF r.hidden THEN r ELSE setPageActive(r, TRUE)

(* The attempt is over: a page gone meanwhile keeps what it had.           *)
performUnlock(r) ==
  IF r.dead \/ ~r.active THEN [r EXCEPT !.unlocking = FALSE]
  ELSE [r EXCEPT !.unlocking = FALSE, !.ever = TRUE, !.refused = FALSE]

(* An attempt joins the one under way; a context that runs needs none, one *)
(* that is being suspended still runs.                                     *)
unlock(r) ==
  IF r.dead \/ ~r.active \/ r.unlocking \/ (r.ever /\ r.ctx = "running") THEN r
  ELSE IF r.ctx = "running" THEN performUnlock(r)
  ELSE [r EXCEPT !.unlocking = TRUE, !.op = "resuming"]

suspend(r) ==
  IF r.ctx = "running" /\ r.op = "none" THEN [r EXCEPT !.op = "suspending"]
  ELSE [r EXCEPT !.missed = @ \/ r.op = "resuming"]

-----------------------------------------------------------------------------
(* A task runs as soon as the queue is free, before the browser goes on.   *)
Waits == s.busy # "none" \/ s.queue = <<>>
Called == Waits /\ ~s.dead /\ s.calls < MaxCalls /\ Len(s.queue) < MaxQueue
Again(r) == [r EXCEPT !.calls = @ + 1]

handleVisibilityChange ==
  Called /\ s' = setPageActive(Again([s EXCEPT !.hidden = ~@]), s.hidden)
handlePageBlur == Called /\ s.active /\ s' = setPageActive(Again(s), FALSE)
handlePageFocus == Called /\ ~s.active /\ s' = setPageActive(Again(s), ~s.hidden)

(* A pointer or a key in the page; a page that is hidden has none.         *)
bindUserGestures ==
  Called /\ ~s.hidden /\ s' = unlock(restoreVisibleGesturePageActivity(Again(s)))
(* A spin or a feature asks as well, whatever the page thinks of itself.   *)
requestSpin == Called /\ s' = unlock(Again(s))

toggleMuted ==
  /\ Called
  /\ LET told == Again([s EXCEPT !.muted = ~@])
     IN  s' = IF told.muted THEN told
              ELSE unlock(IF s.ever /\ s.active THEN Enqueue(told, "unmute") ELSE told)

(* The next task of the queue; it holds the queue while it waits.          *)
Task ==
  /\ s.busy = "none" /\ s.queue # <<>>
  /\ LET task == Head(s.queue)
         r == [s EXCEPT !.queue = Tail(@)]
         done == IF ~task.fresh \/ s.dead THEN r
                 ELSE IF task.kind = "suspend" THEN IF r.active THEN r ELSE suspend(r)
                 ELSE IF ~r.active THEN r
                 ELSE unlock(r)
     IN  s' = [done EXCEPT !.busy = IF done.op = "suspending" /\ s.op # "suspending" THEN "suspend"
                                    ELSE IF task.kind # "suspend" /\ task.fresh /\ done.unlocking THEN "unlock"
                                    ELSE "none"]

Resumed ==
  /\ Waits /\ s.op = "resuming"
  /\ s' = performUnlock([s EXCEPT !.op = "none", !.ctx = IF s.dead THEN @ ELSE "running",
                                  !.busy = IF @ = "unlock" THEN "none" ELSE @])
(* The browser refuses; a later gesture tries again.                       *)
ResumeRefused ==
  /\ Waits /\ s.op = "resuming"
  /\ s' = [s EXCEPT !.op = "none", !.unlocking = FALSE, !.refused = TRUE,
                    !.busy = IF @ = "unlock" THEN "none" ELSE @]
Suspended ==
  /\ Waits /\ s.op = "suspending"
  /\ s' = [s EXCEPT !.op = "none", !.ctx = IF s.dead THEN @ ELSE "suspended",
                    !.busy = IF @ = "suspend" THEN "none" ELSE @]

destroy == Waits /\ ~s.dead /\ s' = [s EXCEPT !.dead = TRUE, !.ctx = "closed"]

Next == \/ handleVisibilityChange \/ handlePageBlur \/ handlePageFocus \/ bindUserGestures
        \/ requestSpin \/ toggleMuted \/ Task \/ Resumed \/ ResumeRefused \/ Suspended \/ destroy

-----------------------------------------------------------------------------
Settled == s.op = "none" /\ s.queue = <<>>

(* When everything has settled, an unlocked page that is in front is heard *)
(* however fast it was hidden and shown.                                   *)
FrontIsHeard == Settled /\ s.active /\ s.ever /\ ~s.refused /\ ~s.missed /\ ~s.dead => s.ctx = "running"

(* One that is not in front is not heard; both hold until a gesture's      *)
(* resumption is overtaken by the page going away (missed).                *)
BackIsSilent == Settled /\ (s.hidden \/ ~s.active) /\ ~s.missed => s.ctx # "running"

(* The browser is asked for one change at a time, the queue waits for the  *)
(* change it asked for, and nothing revives a closed context.              *)
OneChange ==
  /\ s.op = "suspending" => ~s.unlocking /\ (s.ctx = "running" \/ s.dead)
  /\ s.op = "resuming" => s.unlocking
  /\ s.busy = "unlock" => s.unlocking
  /\ s.busy = "suspend" => s.op = "suspending"
  /\ s.dead => s.ctx = "closed"
=============================================================================
