---------------------------- MODULE SpriteAudio -----------------------------
(***************************************************************************)
(* PrimalSpriteAudioBackend.ts: sound programs asked for before, while and *)
(* after the packs that hold them are decoded.  A program asked for too    *)
(* early waits and is played or dropped by a flush; a loop is stopped by   *)
(* its owner at any moment, faded out or cut; a panel of the interface     *)
(* ducks the win counter; the music has two stems in step.                 *)
(***************************************************************************)
EXTENDS Integers, Sequences

Seqs == INSTANCE SequencesExt

CONSTANTS Shots,       \* the one-shot programs played
          Loops,       \* the loops played
          MaxVoices,   \* maxVoices of the options
          MaxCalls     \* bound: calls made by the owner

VARIABLE s

Packs == {"main", "delayed"}
Stems == {"stem1", "stem2"}
Delayed == {"tail", "counter"}

Init ==
  s = [open |-> FALSE, buf |-> [p \in Packs |-> "absent"], failed |-> FALSE, ready |-> FALSE,
       mainFailed |-> FALSE, tries |-> {}, shots |-> <<>>, pend |-> <<>>, voices |-> <<>>,
       duck |-> FALSE, target |-> 0, base |-> FALSE, dead |-> FALSE, want |-> {}, calls |-> 0,
       cut |-> FALSE]

(* Types of the state. *)
TypeOK ==
  /\ {s.open, s.failed, s.ready, s.mainFailed, s.duck, s.base, s.dead, s.cut} \subseteq BOOLEAN
  /\ s.buf \in [Packs -> {"absent", "loading", "ready", "late", "dropped"}]
  /\ s.tries \subseteq {"main", "launch", "background"} /\ s.want \subseteq Loops
  /\ s.shots \in Seq([cue : Shots, old : BOOLEAN]) /\ s.pend \in Seq(Loops)
  /\ Len(s.voices) <= MaxVoices /\ s.target \in 0..2 /\ s.calls \in 0..MaxCalls

-----------------------------------------------------------------------------
(* Voices, oldest first; owner is the loop of sampleLoops that holds it.   *)
(* cut: a stem of the music made room for another voice.                   *)

Voice(name, owner, loud) == [name |-> name, owner |-> owner, loud |-> loud, fading |-> FALSE]

(* forgetVoice of the voices of a set.                                     *)
forgetVoice(r, gone) ==
  [r EXCEPT !.voices = SelectSeq(@, LAMBDA v : v \notin gone),
            !.base = @ /\ ~\E v \in gone : v.name \in Stems]
Named(r, names) == {v \in Seqs!ToSet(r.voices) : v.name \in names}
Owned(r, l) == {v \in Seqs!ToSet(r.voices) : v.owner = l}
OnVoices(r, gone, Do(_)) ==
  [r EXCEPT !.voices = [i \in DOMAIN @ |-> IF @[i] \in gone THEN Do(@[i]) ELSE @[i]]]

playSprite(r, voice, stopBefore) ==
  LET freed == IF stopBefore THEN forgetVoice(r, Named(r, {voice.name})) ELSE r
      room == IF Len(freed.voices) >= MaxVoices
              THEN [freed EXCEPT !.voices = Tail(@), !.base = @ /\ freed.voices[1].name \notin Stems,
                                 !.cut = @ \/ freed.voices[1].owner = "ambient"]
              ELSE freed
  IN  [room EXCEPT !.voices = Append(@, voice)]

(* Leaves sampleLoops; sounds on until the fade is over or is cut.         *)
stopVoices(r, gone, fade) ==
  IF fade THEN OnVoices(r, gone, LAMBDA v : [v EXCEPT !.owner = "none", !.fading = TRUE])
  ELSE forgetVoice(r, gone)

setGenericCounterDuck(r, ducked) ==
  IF "counter" \in Seqs!ToSet(r.pend) \/ Owned(r, "counter") # {}
  THEN [OnVoices(r, Owned(r, "counter"), LAMBDA v : [v EXCEPT !.loud = ~ducked]) EXCEPT !.duck = ducked]
  ELSE r

(* old: more time has gone by since it was asked for than the clip lasts.  *)
playNativeOneShot(r, shot) ==
  LET sounded == IF shot.old THEN r
                 ELSE playSprite(r, Voice(shot.cue, "none", TRUE), shot.cue \in {"land", "intro"})
  IN  CASE shot.cue = "open"  -> setGenericCounterDuck(sounded, TRUE)
        [] shot.cue = "close" -> setGenericCounterDuck(sounded, FALSE)
        [] OTHER -> sounded

startBaseMusic(r) ==
  LET one == playSprite(r, Voice("stem1", "ambient", r.target = 0), TRUE)
      two == playSprite(one, Voice("stem2", "ambient", r.target = 1), TRUE)
  IN  [two EXCEPT !.base = TRUE]

startNativeLoop(r, l) ==
  CASE l = "ambient" -> startBaseMusic(r)
    [] l = "counter" -> playSprite(r, Voice(l, l, ~r.duck), FALSE)
    [] OTHER -> playSprite(r, Voice(l, l, TRUE), FALSE)

-----------------------------------------------------------------------------
(* Packs.                                                                  *)

isReady(r, cue) == r.ready /\ (cue \in Delayed => r.buf["delayed"] = "ready")
isUnavailable(r, cue) == r.mainFailed \/ (cue \in Delayed /\ r.failed)

FlushShots(r) ==
  LET kept == SelectSeq(r.shots, LAMBDA x : ~isUnavailable(r, x.cue) /\ ~isReady(r, x.cue))
      due  == SelectSeq(r.shots, LAMBDA x : ~isUnavailable(r, x.cue) /\ isReady(r, x.cue))
  IN  Seqs!FoldLeft(playNativeOneShot, [r EXCEPT !.shots = kept], due)
FlushLoops(r) ==
  LET kept == SelectSeq(r.pend, LAMBDA l : ~isUnavailable(r, l) /\ ~isReady(r, l))
      due  == SelectSeq(r.pend, LAMBDA l : ~isUnavailable(r, l) /\ isReady(r, l))
      lost == \E i \in DOMAIN r.pend : r.pend[i] = "counter" /\ isUnavailable(r, "counter")
  IN  Seqs!FoldLeft(startNativeLoop, [r EXCEPT !.pend = kept, !.duck = @ /\ ~lost], due)
flushPendingAudio(r) == IF r.dead THEN r ELSE FlushLoops(FlushShots(r))

loadPack(r, p) ==
  IF r.buf[p] = "absent"
  THEN [r EXCEPT !.buf[p] = "loading", !.failed = @ /\ p # "delayed"]
  ELSE r

startBackgroundPreload(r) ==
  IF "background" \in r.tries \/ r.buf["delayed"] = "ready" THEN r
  ELSE [loadPack(r, "delayed") EXCEPT !.tries = @ \union {"background"}]

(* The main packs are in: what prime and unlock do next.                   *)
MainIn(r) ==
  startBackgroundPreload(flushPendingAudio(
    [r EXCEPT !.ready = TRUE, !.mainFailed = FALSE, !.tries = @ \ {"main"}]))

(* buildGraph is part of every attempt.                                    *)
ensureMainReady(r) ==
  LET open == [r EXCEPT !.open = TRUE]
  IN  IF r.ready THEN startBackgroundPreload(flushPendingAudio(open))
      ELSE IF r.buf["main"] = "ready" THEN MainIn([open EXCEPT !.mainFailed = FALSE])
      ELSE [loadPack([open EXCEPT !.mainFailed = FALSE], "main") EXCEPT !.tries = @ \union {"main"}]

(* The attempts that wait for a pack go on once it is decoded.             *)
LaunchIn(r) ==
  IF "launch" \in r.tries /\ \A p \in Packs : r.buf[p] = "ready"
  THEN flushPendingAudio([r EXCEPT !.ready = TRUE, !.mainFailed = FALSE, !.tries = @ \ {"launch"}])
  ELSE r
BackgroundIn(r) ==
  IF "background" \in r.tries /\ r.buf["delayed"] # "loading"
  THEN flushPendingAudio([r EXCEPT !.tries = @ \ {"background"}])
  ELSE r
GoOn(r) ==
  BackgroundIn(LaunchIn(IF "main" \in r.tries /\ r.buf["main"] = "ready" THEN MainIn(r) ELSE r))

Decoded_NoFlush(p) ==
  /\ ~s.dead /\ s.buf[p] = "loading"
  /\ s' = BackgroundIn([s EXCEPT !.buf[p] = "ready", !.failed = @ /\ p # "delayed",
                                 !.ready = @ \/ ({"main", "launch"} \intersect s.tries # {} /\ p = "main"),
                                 !.tries = @ \ {"main", "launch"}])
Decoded(p) ==
  /\ ~s.dead /\ s.buf[p] = "loading"
  /\ s' = GoOn(flushPendingAudio([s EXCEPT !.buf[p] = "ready", !.failed = @ /\ p # "delayed"]))

(* The pack cannot be had: every attempt that waits for it fails.          *)
PackFailed(p) ==
  /\ ~s.dead /\ s.buf[p] = "loading" /\ s.calls < MaxCalls
  /\ LET lost == flushPendingAudio([s EXCEPT !.buf[p] = "absent", !.failed = @ \/ p = "delayed",
                                            !.calls = @ + 1])
         shut == "launch" \in s.tries \/ ("main" \in s.tries /\ p = "main")
         told == IF shut THEN flushPendingAudio([lost EXCEPT !.ready = FALSE, !.mainFailed = TRUE]) ELSE lost
     IN  s' = BackgroundIn([told EXCEPT !.tries = @ \ ({"launch"} \union (IF p = "main" THEN {"main"} ELSE {}))])

-----------------------------------------------------------------------------
(* Calls of the owner.                                                     *)

Called == ~s.dead /\ s.calls < MaxCalls

(* Also unlock, and retryDeferredLoads once the main packs are in.          *)
prime == Called /\ "main" \notin s.tries /\ s' = ensureMainReady([s EXCEPT !.calls = @ + 1])

primeForLaunch ==
  /\ Called /\ "launch" \notin s.tries
  /\ LET asked == [s EXCEPT !.calls = @ + 1, !.open = TRUE, !.mainFailed = FALSE, !.tries = @ \union {"launch"}]
     IN  s' = LaunchIn(loadPack(loadPack(asked, "main"), "delayed"))

playOneShot(c) ==
  /\ Called
  /\ LET r == [s EXCEPT !.calls = @ + 1]
     IN  s' = IF isUnavailable(s, c) THEN r
              ELSE IF isReady(s, c) THEN playNativeOneShot(r, [cue |-> c, old |-> FALSE])
              ELSE [r EXCEPT !.shots = Append(@, [cue |-> c, old |-> FALSE])]

stopOneShot(c, fade) ==
  /\ Called
  /\ \/ c \in {x.cue : x \in Seqs!ToSet(s.shots)}
     \/ c = "intro" /\ Named(s, {"intro"}) # {}
  /\ LET r == [s EXCEPT !.calls = @ + 1, !.shots = SelectSeq(@, LAMBDA x : x.cue # c)]
     IN  s' = IF c = "intro" THEN stopVoices(r, Named(r, {"intro"}), fade) ELSE r

startLoop(l, level) ==
  /\ Called /\ l \notin s.want /\ (l # "ambient" => level = 0)
  /\ LET told == IF l = "ambient" THEN [s EXCEPT !.target = level] ELSE s
         r == [told EXCEPT !.calls = @ + 1, !.want = @ \union {l}]
     IN  s' = IF Owned(s, l) # {} \/ l \in Seqs!ToSet(s.pend) \/ isUnavailable(s, l) THEN r
              ELSE IF isReady(s, l) THEN startNativeLoop(r, l)
              ELSE [r EXCEPT !.pend = Append(@, l)]

StemLevels(r, level) ==
  OnVoices(r, {v \in Named(r, Stems) : ~v.fading}, LAMBDA v : [v EXCEPT !.loud = (v.name = "stem1" /\ level = 0) \/ (v.name = "stem2" /\ level = 1)])
setBaseMusicStemLevel(level) ==
  /\ Called /\ "ambient" \in s.want /\ level # s.target
  /\ LET r == [s EXCEPT !.calls = @ + 1, !.target = level]
     IN  s' = IF s.base THEN StemLevels(r, level) ELSE r

(* Level 2 is no stem: both are silenced, the first one is stopped, the    *)
(* second one runs on unheard.                                             *)
enterFreeSpinsBaseMusic ==
  /\ Called /\ "ambient" \in s.want
  /\ LET r == [s EXCEPT !.calls = @ + 1, !.pend = SelectSeq(@, LAMBDA l : l # "ambient"),
                        !.want = @ \ {"ambient"}, !.target = 2]
         quiet == OnVoices(StemLevels(r, 2), Owned(StemLevels(r, 2), "ambient"), LAMBDA v : [v EXCEPT !.owner = "none"])
     IN  s' = IF s.base THEN stopVoices(quiet, Named(quiet, {"stem1"}), TRUE) ELSE r

stopLoop(l, fade) ==
  /\ Called /\ l \in s.want /\ (l = "motor" => ~fade)
  /\ LET r == [s EXCEPT !.calls = @ + 1, !.want = @ \ {l}, !.pend = SelectSeq(@, LAMBDA x : x # l),
                        !.duck = @ /\ l # "counter"]
     IN  s' = [stopVoices(r, Owned(r, l), fade) EXCEPT !.base = @ /\ l # "ambient"]

(* The motor is no loop of the sound card: its clip is faded out early or  *)
(* left to run out; a fade by stopLoop is the quick stop.                  *)
quickStopReelMotor ==
  /\ Called /\ "motor" \in s.want
  /\ LET r == [s EXCEPT !.calls = @ + 1, !.want = @ \ {"motor"}, !.pend = SelectSeq(@, LAMBDA x : x # "motor")]
     IN  s' = stopVoices(r, Owned(r, "motor"), TRUE)
finishReelMotorNaturally ==
  /\ Called /\ "motor" \in s.want
  /\ LET r == [s EXCEPT !.calls = @ + 1, !.want = @ \ {"motor"}, !.pend = SelectSeq(@, LAMBDA x : x # "motor")]
     IN  s' = OnVoices(r, Owned(r, "motor"), LAMBDA v : [v EXCEPT !.owner = "none"])

Aged == /\ \E i \in DOMAIN s.shots : ~s.shots[i].old
        /\ s' = [s EXCEPT !.shots = [i \in DOMAIN @ |-> [@[i] EXCEPT !.old = TRUE]]]

(* A clip is over, or a fade of a loop; a loop itself never ends.          *)
Ended(i) ==
  /\ i \in DOMAIN s.voices
  /\ s.voices[i].fading \/ s.voices[i].name \notin Stems \union {"counter"}
  /\ s' = [s EXCEPT !.voices = Seqs!RemoveAt(@, i), !.base = @ /\ s.voices[i].name \notin Stems]

destroy ==
  /\ ~s.dead
  /\ s' = [s EXCEPT !.dead = TRUE, !.open = FALSE, !.voices = <<>>, !.shots = <<>>, !.pend = <<>>,
                    !.buf = [p \in Packs |-> IF @[p] = "loading" THEN "late" ELSE "absent"],
                    !.failed = FALSE, !.duck = FALSE, !.base = FALSE, !.tries = {}, !.want = {},
                    !.ready = FALSE, !.mainFailed = FALSE]

(* A download or a decoding that was under way: its result is not kept.    *)
Late(p) == s.dead /\ s.buf[p] = "late" /\ s' = [s EXCEPT !.buf[p] = "dropped"]

Next ==
  \/ \E p \in Packs : Decoded(p) \/ PackFailed(p) \/ Late(p)
  \/ prime \/ primeForLaunch
  \/ \E c \in Shots : playOneShot(c) \/ \E fade \in BOOLEAN : stopOneShot(c, fade)
  \/ \E l \in Loops, level \in {0, 1} : startLoop(l, level)
  \/ \E l \in Loops, fade \in BOOLEAN : stopLoop(l, fade)
  \/ \E level \in 0..2 : setBaseMusicStemLevel(level)
  \/ enterFreeSpinsBaseMusic \/ quickStopReelMotor \/ finishReelMotorNaturally
  \/ Aged \/ destroy
  \/ \E i \in 1..MaxVoices : Ended(i)

-----------------------------------------------------------------------------
(* What waits is neither playable nor lost: whenever a pack arrives or     *)
(* fails, every program that depends on it is played or dropped, and none  *)
(* stays behind for a later, unrelated flush.                              *)
NothingStrands ==
  \A cue \in {x.cue : x \in Seqs!ToSet(s.shots)} \union Seqs!ToSet(s.pend) :
    ~isReady(s, cue) /\ ~isUnavailable(s, cue)

(* A loop its owner stopped, while it was still loading or while it        *)
(* played, is not heard again until it is asked for again; this holds      *)
(* until the limit on voices takes one of the two stems away (cut).        *)
StopsHold ==
  ~s.cut =>
  /\ Seqs!ToSet(s.pend) \subseteq s.want
  /\ \A v \in Seqs!ToSet(s.voices) :
       v.loud /\ ~v.fading =>
         /\ v.name = "counter" => "counter" \in s.want
         /\ v.name \in Stems => "ambient" \in s.want

(* A win counter is heard exactly when no panel ducks it, also when the    *)
(* panel opened before the counter's pack arrived; and the duck of one     *)
(* counter does not outlive it and silence the next.                       *)
DuckFollowsCounter ==
  /\ s.duck => "counter" \in s.want
  /\ \A v \in Owned(s, "counter") : v.loud = ~s.duck

(* Of the two stems in step exactly the one asked for last is heard.       *)
StemAsTold ==
  s.base /\ "ambient" \in s.want =>
    \A v \in Owned(s, "ambient") : v.loud = (v.name = IF s.target = 0 THEN "stem1" ELSE IF s.target = 1 THEN "stem2" ELSE "none")

(* After destroy no late pack brings anything back.                        *)
DeadStaysSilent ==
  s.dead => s.voices = <<>> /\ s.shots = <<>> /\ s.pend = <<>> /\ \A p \in Packs : s.buf[p] # "ready"
=============================================================================
