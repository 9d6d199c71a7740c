--------------------------- MODULE CharacterProofs ---------------------------
(***************************************************************************)
(* Lemmas about the character of RoundStage (CharacterStage): ApeRec is    *)
(* the set of its records and ApeInv its inductive invariant, in which it  *)
(* starts, which each of its calls keeps, and from which what the runs ask *)
(* of it follows.  RoundContentProofs puts the parts together.             *)
(***************************************************************************)
EXTENDS RoundStage, TLAPS

\* The clips the body shows, and the records of the character.
ApeClips ==
  {"none", "hidden", "intro", "idle", "feature_idle", "reel_stretch_waiting", "idle_breaker",
   "idle_breaker2", "chest_pound", "win", "vault", "respin", "reel_stretch", "reel_smash"}
\* The frames a clip has left: of a finite one, or of the launch clip.
ApeLefts == 0..ClipFrames \cup 0..IntroFrames
ApeBody == [clip : ApeClips, loop : BOOLEAN, left : ApeLefts, queue : ApeClips]
ApeIdle ==
  [on : BOOLEAN, elapsed : 0..(ClipFrames - 1), left : 0..ClipFrames, toBase : BOOLEAN, toFeature : BOOLEAN]
ApePersistent == [body : Ape!Bodies, aura : Ape!Auras, palette : Ape!Palettes]
\* The sets the fields range over, each with a name: a call that writes some of the
\* fields leaves the record one of the character's whatever is in the other sets.
ApeFlag == BOOLEAN
ApeLoads == {"no", "pending", "aborted"}
ApeBranches == {"no", "pending", "ok", "failed"}
ApeViews == 0..1
ApeLaunches == {"before", "timeline", "over", "gone"}
ApeInstants == 0..(IntroFrames - 1)
ApeFrames == 0..IntroFrames
ApePounds == -1..ClipFrames
ApeScenes == {"no", "spinning", "landed", "starting", "leaving"}
ApeRec ==
  [load : ApeLoads, bitmap : ApeBranches, authored : ApeBranches, views : ApeViews, art : ApeFlag,
   launch : ApeLaunches, at : ApeInstants,
   intro : ApeFlag, elapsed : ApeFrames, controlled : ApeFlag,
   bodyReleased : ApeFlag, auraReleased : ApeFlag,
   body : ApeBody, overlay : ApeFlag, aura : Ape!Auras, palette : Ape!Palettes,
   persistent : ApePersistent, idle : ApeIdle, pound : ApePounds, owned : ApeFlag,
   reduced : ApeFlag, calm : ApeFlag, mode : Ape!Modes, scene : ApeScenes, frozen : ApeFlag]

\* One character at most is on the stage, and none before its artwork is whole.
ApeLoad(r) ==
  /\ (r.load = "no" => r.bitmap = "no" /\ r.authored = "no" /\ r.views = IF r.art THEN 1 ELSE 0)
  /\ (r.load # "no" => ~r.art /\ r.views = IF r.authored = "ok" THEN 1 ELSE 0)
  /\ (~r.art => r.launch = "before" /\ ~r.bodyReleased /\ ~r.intro)
\* The launch clip has the body until it is over, and its aura is shown by then.
ApeLaunch(r) ==
  /\ (r.intro => ~r.bodyReleased /\ r.elapsed < IntroFrames /\ r.launch # "before")
  /\ (r.launch = "before" => r.at = 0 /\ ~r.bodyReleased /\ ~r.auraReleased)
  /\ (r.controlled => r.launch = "timeline" \/ r.launch = "gone")
  /\ (r.launch = "timeline" /\ ~r.calm => r.intro /\ r.controlled /\ r.elapsed <= r.at)
  /\ (r.launch = "over" /\ ~r.calm => r.auraReleased)
  /\ (r.launch \in {"before", "timeline"} => r.scene = "no")
  /\ (r.launch = "timeline" => ~r.bodyReleased) /\ (r.calm => ~r.intro)
\* Before the body is released no clock runs and nothing loops.
ApeHeld(r) ==
  ~r.bodyReleased => r.idle = Ape!Stopped /\ r.pound = -1 /\ r.body.clip \in {"none", "hidden", "intro"}
                       /\ r.body.queue = "none" /\ r.scene # "spinning"
\* A released body loops in its mode, goes back to the loop by its queue, or is
\* handed over by the clock of the scene with the last frame of the clip.
ApePlays(r) ==
  r.bodyReleased /\ r.launch # "gone" =>
    /\ (r.body.loop => r.body.queue = "none" /\ r.body.left = 0)
    /\ (r.body.loop => \/ r.body.clip = Ape!LoopOf[r.persistent.body]
                       \/ r.body.clip = "chest_pound" /\ r.scene = "spinning")
    /\ (~r.body.loop => r.body.queue \in {"none", Ape!LoopOf[r.persistent.body]})
    /\ (~r.body.loop /\ r.body.queue = "none" =>
          /\ r.idle.left > 0 /\ (r.frozen \/ r.idle.left = r.body.left)
          /\ \/ r.persistent.body = "base" /\ r.idle.toBase
             \/ r.persistent.body = "feature" /\ r.idle.toFeature)
\* A breaker waits in the base loop alone, and the pounding has its own entry.
ApeClocks(r) ==
  /\ (r.idle.on => r.body.loop /\ r.body.clip = "idle" /\ r.persistent.body = "base")
  /\ (r.pound >= 0 => r.owned /\ r.body.loop /\ r.body.clip = "chest_pound" /\ ~r.reduced)
\* What stays of a round is what the mode says.
ApeStands(r) ==
  /\ (r.scene = "no" => IF r.mode = "EXPANSION" THEN r.persistent.body # "base"
                        ELSE r.persistent.body = Ape!characterWinPresentation(r.mode))
  /\ (r.scene = "starting" => r.mode # "BASE")
  /\ (r.scene = "leaving" =>
        r.mode = "BASE" /\ r.persistent.body = "base" /\ r.persistent.palette = "main")
\* The released tracks show it.
ApeShows(r) ==
  /\ r.aura = (IF r.auraReleased THEN r.persistent.aura ELSE 0)
  /\ (r.art => r.palette = r.persistent.palette)
ApeGood(r) ==
  /\ r \in ApeRec /\ ApeLoad(r) /\ ApeLaunch(r) /\ ApeHeld(r) /\ ApePlays(r) /\ ApeClocks(r)
  /\ ApeStands(r) /\ ApeShows(r)
\* The inductive invariant of the character.
ApeInv == ApeGood(now)

\* What a call on the tracks leaves as it is: the artwork and the round, the launch clip,
\* the look, the clip on the body, the pounding.
ApeRest(y, x) ==
  /\ y.load = x.load /\ y.bitmap = x.bitmap /\ y.authored = x.authored /\ y.views = x.views
  /\ y.art = x.art /\ y.launch = x.launch /\ y.at = x.at /\ y.calm = x.calm
  /\ y.reduced = x.reduced /\ y.mode = x.mode /\ y.scene = x.scene
ApeSameIntro(y, x) ==
  /\ y.intro = x.intro /\ y.elapsed = x.elapsed /\ y.controlled = x.controlled
  /\ y.bodyReleased = x.bodyReleased /\ y.auraReleased = x.auraReleased
ApeSameLook(y, x) ==
  y.overlay = x.overlay /\ y.aura = x.aura /\ y.palette = x.palette /\ y.persistent = x.persistent
ApeSameBody(y, x) == y.body = x.body /\ y.idle = x.idle /\ y.frozen = x.frozen
ApeSamePound(y, x) == y.pound = x.pound /\ y.owned = x.owned
\* What it changes.
ApeUnpounded(y) == y.pound = -1 /\ ~y.owned
ApePlayed(y, x, e) ==
  y.body = e /\ y.idle = x.idle /\ y.pound = x.pound /\ ~y.owned /\ y.frozen = x.reduced
ApeIdled(y, x, i) ==
  y.body = x.body /\ y.idle = i /\ y.pound = x.pound /\ y.owned = x.owned /\ y.frozen = x.frozen
ApeAuraSet(y, x, a) ==
  y.overlay = x.overlay /\ y.aura = a /\ y.palette = x.palette /\ y.persistent = x.persistent
ApePaletteSet(y, x, q) ==
  y.overlay = x.overlay /\ y.aura = x.aura /\ y.palette = q /\ y.persistent = x.persistent
ApePersistentSet(y, x, p) ==
  y.overlay = x.overlay /\ y.aura = x.aura /\ y.palette = x.palette /\ y.persistent = p

\* The fields of a record of the character, one by one.
LEMMA ApeTypes ==
  ASSUME NEW x \in ApeRec
  PROVE  /\ x.load \in ApeLoads /\ x.bitmap \in ApeBranches /\ x.authored \in ApeBranches
         /\ x.views \in ApeViews /\ x.art \in BOOLEAN /\ x.launch \in ApeLaunches
         /\ x.at \in ApeInstants /\ x.intro \in BOOLEAN /\ x.elapsed \in ApeFrames
         /\ x.controlled \in BOOLEAN /\ x.bodyReleased \in BOOLEAN /\ x.auraReleased \in BOOLEAN
         /\ x.body \in ApeBody /\ x.overlay \in BOOLEAN /\ x.aura \in Ape!Auras
         /\ x.palette \in Ape!Palettes /\ x.persistent \in ApePersistent /\ x.idle \in ApeIdle
         /\ x.pound \in ApePounds /\ x.owned \in BOOLEAN /\ x.reduced \in BOOLEAN
         /\ x.calm \in BOOLEAN /\ x.mode \in Ape!Modes /\ x.scene \in ApeScenes
         /\ x.frozen \in BOOLEAN
<1>1. \A e : e \in ApeFlag => e \in BOOLEAN BY DEF ApeFlag
<1>. QED BY <1>1 DEF ApeRec

\* The flags are what they are.
LEMMA ApeFlags == TRUE \in ApeFlag /\ FALSE \in ApeFlag
BY DEF ApeFlag

\* The loops of the three stances, each its own.
LEMMA ApeLoops ==
  /\ Ape!LoopOf["base"] = "idle" /\ Ape!LoopOf["feature"] = "feature_idle"
  /\ Ape!LoopOf["kq"] = "reel_stretch_waiting"
  /\ \A b \in Ape!Bodies : Ape!LoopOf[b] \in ApeClips /\ Ape!LoopOf[b] # "chest_pound"
BY DEF Ape!LoopOf, Ape!Bodies, ApeClips

\* The clocks of the idle loop as the calls set them.
LEMMA ApeParts ==
  /\ Ape!Stopped \in ApeIdle /\ Ape!Scheduled \in ApeIdle
  /\ ~Ape!Stopped.on /\ Ape!Stopped.left = 0 /\ Ape!Scheduled.on
<1>1. ClipFrames \in Nat /\ 0 \in 0..(ClipFrames - 1) /\ 0 \in 0..ClipFrames BY CharacterAssumption
<1>2. Ape!Stopped \in ApeIdle /\ ~Ape!Stopped.on /\ Ape!Stopped.left = 0
  BY <1>1 DEF Ape!Stopped, ApeIdle
<1>3. Ape!Scheduled = [Ape!Stopped EXCEPT !.on = TRUE, !.toBase = TRUE] BY DEF Ape!Scheduled
<1>4. Ape!Scheduled \in ApeIdle /\ Ape!Scheduled.on BY <1>2, <1>3 DEF ApeIdle
<1>. QED BY <1>2, <1>4

\* What an entry on the body holds.
ApeEntered(e, clip, loop, queue, n) ==
  e.clip = clip /\ (e.loop <=> loop) /\ e.queue = queue /\ e.left = n

\* An entry on the body holds what it is made of.
LEMMA ApeEntry ==
  ASSUME NEW clip \in ApeClips, NEW loop \in BOOLEAN, NEW queue \in ApeClips, NEW n, NEW e,
         n = IF loop THEN 0 ELSE ClipFrames, e = Ape!Entry(clip, loop, queue)
  PROVE  e \in ApeBody /\ ApeEntered(e, clip, loop, queue, n)
<1>1. n \in ApeLefts BY CharacterAssumption DEF ApeLefts
<1>2. e = [clip |-> clip, loop |-> loop, left |-> n, queue |-> queue] BY Zenon DEF Ape!Entry
<1>. QED BY <1>1, <1>2 DEF ApeBody, ApeEntered

\* A clip's entry on the body, with its loop queued behind it or nothing.
LEMMA ApeClipEntry ==
  ASSUME NEW clip \in ApeClips, NEW queue \in ApeClips, NEW e, e = Ape!Entry(clip, FALSE, queue)
  PROVE  e \in ApeBody /\ ApeEntered(e, clip, FALSE, queue, ClipFrames)
<1>1. ClipFrames = IF FALSE THEN 0 ELSE ClipFrames OBVIOUS
<1>. QED BY <1>1, ApeEntry

\* A loop's entry on the body.
LEMMA ApeLoopEntry ==
  ASSUME NEW clip \in ApeClips, NEW e, e = Ape!Entry(clip, TRUE, "none")
  PROVE  e \in ApeBody /\ ApeEntered(e, clip, TRUE, "none", 0)
<1>1. 0 = IF TRUE THEN 0 ELSE ClipFrames OBVIOUS
<1>2. "none" \in ApeClips BY DEF ApeClips
<1>. QED BY <1>1, <1>2, ApeEntry

\* cancelWheelChestPoundReentry ends the pounding's task and nothing else.
LEMMA ApeCancels ==
  ASSUME NEW x \in ApeRec, NEW y, y = Ape!cancelWheelChestPoundReentry(x)
  PROVE  y \in ApeRec /\ ApeRest(y, x) /\ ApeSameIntro(y, x) /\ ApeSameLook(y, x) /\ ApeSameBody(y, x)
           /\ ApeUnpounded(y)
<1>1. y = [x EXCEPT !.pound = -1, !.owned = FALSE] BY DEF Ape!cancelWheelChestPoundReentry
<1>2. -1 \in ApePounds BY CharacterAssumption DEF ApePounds
<1>3. y \in ApeRec BY <1>1, <1>2, ApeFlags DEF ApeRec
<1>. QED BY <1>1, <1>3 DEF ApeRec, ApeRest, ApeSameIntro, ApeSameLook, ApeSameBody, ApeUnpounded

\* setAnimation puts an entry on the body, which is then nobody's task.
LEMMA ApePlaysEntry ==
  ASSUME NEW x \in ApeRec, NEW e \in ApeBody, NEW y, y = Ape!Plays(x, e)
  PROVE  y \in ApeRec /\ ApeRest(y, x) /\ ApeSameIntro(y, x) /\ ApeSameLook(y, x) /\ ApePlayed(y, x, e)
<1>1. [x EXCEPT !.body = e, !.owned = FALSE, !.frozen = x.reduced] \in ApeRec BY ApeFlags DEF ApeRec
<1>2. y \in ApeRec BY <1>1, Zenon DEF Ape!Plays
<1>3. y = [x EXCEPT !.body = e, !.owned = FALSE, !.frozen = x.reduced] BY DEF Ape!Plays
<1>. QED BY <1>2, <1>3 DEF ApeRec, ApeRest, ApeSameIntro, ApeSameLook, ApePlayed

\* The clock of the idle loop is set anew and nothing else.
LEMMA ApeIdles ==
  ASSUME NEW x \in ApeRec, NEW i \in ApeIdle, NEW y, y = [x EXCEPT !.idle = i]
  PROVE  y \in ApeRec /\ ApeRest(y, x) /\ ApeSameIntro(y, x) /\ ApeSameLook(y, x) /\ ApeIdled(y, x, i)
<1>1. y \in ApeRec BY DEF ApeRec
<1>. QED BY <1>1 DEF ApeRec, ApeRest, ApeSameIntro, ApeSameLook, ApeIdled

\* The aura is set and nothing else.
LEMMA ApeAuras ==
  ASSUME NEW x \in ApeRec, NEW a \in Ape!Auras, NEW y, y = [x EXCEPT !.aura = a]
  PROVE  y \in ApeRec /\ ApeRest(y, x) /\ ApeSameIntro(y, x) /\ ApeAuraSet(y, x, a) /\ ApeSameBody(y, x)
           /\ ApeSamePound(y, x)
<1>1. y \in ApeRec BY DEF ApeRec
<1>. QED BY <1>1 DEF ApeRec, ApeRest, ApeSameIntro, ApeAuraSet, ApeSameBody, ApeSamePound

\* The palette is set and nothing else.
LEMMA ApePalettes ==
  ASSUME NEW x \in ApeRec, NEW q \in Ape!Palettes, NEW y, y = [x EXCEPT !.palette = q]
  PROVE  y \in ApeRec /\ ApeRest(y, x) /\ ApeSameIntro(y, x) /\ ApePaletteSet(y, x, q) /\ ApeSameBody(y, x)
           /\ ApeSamePound(y, x)
<1>1. y \in ApeRec BY DEF ApeRec
<1>. QED BY <1>1 DEF ApeRec, ApeRest, ApeSameIntro, ApePaletteSet, ApeSameBody, ApeSamePound

\* The stance to stand in is set and nothing else.
LEMMA ApePersistents ==
  ASSUME NEW x \in ApeRec, NEW p \in ApePersistent, NEW y, y = [x EXCEPT !.persistent = p]
  PROVE  y \in ApeRec /\ ApeRest(y, x) /\ ApeSameIntro(y, x) /\ ApePersistentSet(y, x, p)
           /\ ApeSameBody(y, x) /\ ApeSamePound(y, x)
<1>1. y \in ApeRec BY DEF ApeRec
<1>. QED BY <1>1 DEF ApeRec, ApeRest, ApeSameIntro, ApePersistentSet, ApeSameBody, ApeSamePound

\* The body in the loop of its stance, and the breakers' clock with the base loop.
ApeLooping(y) ==
  /\ y.body = Ape!Entry(Ape!LoopOf[y.persistent.body], TRUE, "none")
  /\ y.idle = IF y.persistent.body = "base" THEN Ape!Scheduled ELSE Ape!Stopped

\* applyPersistentBody puts a released body into the loop of its stance.
LEMMA ApeAppliesBody ==
  ASSUME NEW x \in ApeRec, NEW y, y = Ape!applyPersistentBody(x)
  PROVE  /\ y \in ApeRec /\ ApeRest(y, x) /\ ApeSameIntro(y, x) /\ ApeSameLook(y, x) /\ ApeUnpounded(y)
         /\ ~x.art \/ ~x.bodyReleased \/ x.intro => ApeSameBody(y, x)
         /\ x.art /\ x.bodyReleased /\ ~x.intro => ApeLooping(y)
<1>1. PICK c : c = Ape!cancelWheelChestPoundReentry(x) OBVIOUS
<1>2. PICK e : e = Ape!Entry(Ape!LoopOf[x.persistent.body], TRUE, "none") OBVIOUS
<1>3. PICK p : p = Ape!Plays(c, e) OBVIOUS
<1>4. PICK i : i = IF x.persistent.body = "base" THEN Ape!Scheduled ELSE Ape!Stopped OBVIOUS
<1>5. /\ c \in ApeRec /\ ApeRest(c, x) /\ ApeSameIntro(c, x) /\ ApeSameLook(c, x) /\ ApeSameBody(c, x)
      /\ ApeUnpounded(c)
  BY <1>1, ApeCancels
<1>6. y = IF ~x.art \/ ~x.bodyReleased \/ x.intro THEN c ELSE [p EXCEPT !.idle = i]
  BY <1>1, <1>2, <1>3, <1>4, Zenon DEF Ape!applyPersistentBody, Ape!persistentBodyAnimation
<1>7. CASE ~x.art \/ ~x.bodyReleased \/ x.intro
  <2>1. y = c BY <1>6, <1>7
  <2>. QED BY <1>5, <1>7, <2>1
<1>8. CASE ~(~x.art \/ ~x.bodyReleased \/ x.intro)
  <2>1. y = [p EXCEPT !.idle = i] BY <1>6, <1>8
  <2>2. x.persistent.body \in Ape!Bodies BY ApeTypes DEF ApePersistent
  <2>3. Ape!LoopOf[x.persistent.body] \in ApeClips /\ "none" \in ApeClips BY <2>2, ApeLoops DEF ApeClips
  <2>4. e \in ApeBody BY <1>2, <2>3, ApeLoopEntry
  <2>5. i \in ApeIdle BY <1>4, ApeParts
  <2>6. p \in ApeRec /\ ApeRest(p, c) /\ ApeSameIntro(p, c) /\ ApeSameLook(p, c) /\ ApePlayed(p, c, e)
    BY <1>3, <1>5, <2>4, ApePlaysEntry
  <2>7. y \in ApeRec /\ ApeRest(y, p) /\ ApeSameIntro(y, p) /\ ApeSameLook(y, p) /\ ApeIdled(y, p, i)
    BY <2>1, <2>5, <2>6, ApeIdles
  <2>8. ApeRest(y, x) /\ ApeSameIntro(y, x) /\ ApeSameLook(y, x) /\ ApeUnpounded(y)
    BY <1>5, <2>6, <2>7 DEF ApeRest, ApeSameIntro, ApeSameLook, ApeUnpounded, ApePlayed, ApeIdled
  <2>9. y.persistent = x.persistent BY <2>8 DEF ApeSameLook
  <2>10. ApeLooping(y) BY <1>2, <1>4, <2>6, <2>7, <2>9 DEF ApeLooping, ApePlayed, ApeIdled
  <2>. QED BY <1>8, <2>7, <2>8, <2>10
<1>. QED BY <1>7, <1>8

\* What applyPersistentPresentation makes of the tracks.
ApeShown(y, x) ==
  /\ y.overlay = x.overlay /\ y.persistent = x.persistent
  /\ x.art => /\ y.palette = x.persistent.palette
              /\ y.aura = IF x.auraReleased THEN x.persistent.aura ELSE x.aura
  /\ ~x.art => y.palette = x.palette /\ y.aura = x.aura
  /\ x.art /\ x.bodyReleased /\ ~x.intro => ApeLooping(y) /\ ApeUnpounded(y)
  /\ ~x.art \/ ~x.bodyReleased => ApeSameBody(y, x) /\ ApeSamePound(y, x)

\* applyPersistentPresentation brings the released tracks to the stance.
LEMMA ApePresents ==
  ASSUME NEW x \in ApeRec, NEW y, y = Ape!applyPersistentPresentation(x)
  PROVE  y \in ApeRec /\ ApeRest(y, x) /\ ApeSameIntro(y, x) /\ ApeShown(y, x)
<1>1. CASE ~x.art
  <2>1. y = x BY <1>1 DEF Ape!applyPersistentPresentation
  <2>. QED BY <1>1, <2>1 DEF ApeRest, ApeSameIntro, ApeShown, ApeSameBody, ApeSamePound
<1>2. CASE x.art
  <2>1. PICK b : b = Ape!applyPersistentBody(x) OBVIOUS
  <2>2. PICK u : u = IF x.bodyReleased THEN b ELSE x OBVIOUS
  <2>3. PICK a : a = [u EXCEPT !.aura = u.persistent.aura] OBVIOUS
  <2>4. PICK v : v = IF x.auraReleased THEN a ELSE u OBVIOUS
  <2>5. y = [v EXCEPT !.palette = x.persistent.palette]
    BY <1>2, <2>1, <2>2, <2>3, <2>4, Zenon DEF Ape!applyPersistentPresentation, Ape!applyPersistentAura
  <2>6. /\ b \in ApeRec /\ ApeRest(b, x) /\ ApeSameIntro(b, x) /\ ApeSameLook(b, x) /\ ApeUnpounded(b)
        /\ ~x.art \/ ~x.bodyReleased \/ x.intro => ApeSameBody(b, x)
        /\ x.art /\ x.bodyReleased /\ ~x.intro => ApeLooping(b)
    BY <2>1, ApeAppliesBody
  <2>7. /\ u \in ApeRec /\ ApeRest(u, x) /\ ApeSameIntro(u, x) /\ ApeSameLook(u, x)
        /\ x.bodyReleased /\ ~x.intro => ApeLooping(u) /\ ApeUnpounded(u)
        /\ ~x.bodyReleased => u = x
    <3>1. CASE x.bodyReleased BY <1>2, <2>2, <2>6, <3>1
    <3>2. CASE ~x.bodyReleased
      <4>1. u = x BY <2>2, <3>2
      <4>. QED BY <4>1, <3>2 DEF ApeRest, ApeSameIntro, ApeSameLook
    <3>. QED BY <3>1, <3>2
  <2>8. x.persistent.aura \in Ape!Auras /\ x.persistent.palette \in Ape!Palettes
    BY ApeTypes DEF ApePersistent
  <2>9. u.persistent = x.persistent BY <2>7 DEF ApeSameLook
  <2>10. u.persistent.aura \in Ape!Auras BY <2>8, <2>9
  <2>11. /\ a \in ApeRec /\ ApeRest(a, u) /\ ApeSameIntro(a, u) /\ ApeAuraSet(a, u, u.persistent.aura)
         /\ ApeSameBody(a, u) /\ ApeSamePound(a, u)
    BY <2>3, <2>7, <2>10, ApeAuras
  <2>12. /\ v \in ApeRec /\ ApeRest(v, u) /\ ApeSameIntro(v, u) /\ ApeSameBody(v, u) /\ ApeSamePound(v, u)
         /\ v.overlay = u.overlay /\ v.persistent = u.persistent
         /\ v.aura = IF x.auraReleased THEN x.persistent.aura ELSE u.aura
    <3>1. CASE x.auraReleased
      <4>1. v = a BY <2>4, <3>1
      <4>. QED BY <4>1, <2>9, <2>11, <3>1 DEF ApeAuraSet
    <3>2. CASE ~x.auraReleased
      <4>1. v = u BY <2>4, <3>2
      <4>. QED BY <4>1, <2>7, <3>2 DEF ApeRest, ApeSameIntro, ApeSameBody, ApeSamePound
    <3>. QED BY <3>1, <3>2
  <2>13. /\ y \in ApeRec /\ ApeRest(y, v) /\ ApeSameIntro(y, v)
         /\ ApePaletteSet(y, v, x.persistent.palette) /\ ApeSameBody(y, v) /\ ApeSamePound(y, v)
    BY <2>5, <2>8, <2>12, ApePalettes
  <2>14. ApeRest(y, x) /\ ApeSameIntro(y, x)
    BY <2>7, <2>12, <2>13 DEF ApeRest, ApeSameIntro
  <2>15. y.body = u.body /\ y.idle = u.idle /\ y.frozen = u.frozen /\ y.pound = u.pound
         /\ y.owned = u.owned /\ y.persistent = u.persistent
    BY <2>12, <2>13 DEF ApeSameBody, ApeSamePound, ApePaletteSet
  <2>16. ApeShown(y, x)
    BY <1>2, <2>7, <2>12, <2>13, <2>15
       DEF ApeShown, ApeSameBody, ApeSamePound, ApePaletteSet, ApeSameLook, ApeLooping, ApeUnpounded
  <2>. QED BY <2>13, <2>14, <2>16
<1>. QED BY <1>1, <1>2

\* What setCharacterPersistentPresentation makes of the tracks.
ApeStood(y, x, p) ==
  /\ y.overlay = x.overlay /\ y.persistent = p
  /\ x.art => y.palette = p.palette /\ y.aura = IF x.auraReleased THEN p.aura ELSE x.aura
  /\ ~x.art => y.palette = x.palette /\ y.aura = x.aura
  /\ x.art /\ x.bodyReleased /\ ~x.intro => ApeLooping(y) /\ ApeUnpounded(y)
  /\ ~x.art \/ ~x.bodyReleased => ApeSameBody(y, x) /\ ApeSamePound(y, x)

\* setCharacterPersistentPresentation takes a stance and shows it on the released tracks.
LEMMA ApeTakesStance ==
  ASSUME NEW x \in ApeRec, NEW p \in ApePersistent, NEW y,
         y = Ape!setCharacterPersistentPresentation(x, p)
  PROVE  y \in ApeRec /\ ApeRest(y, x) /\ ApeSameIntro(y, x) /\ ApeStood(y, x, p)
<1>1. PICK u : u = [x EXCEPT !.persistent = p] OBVIOUS
<1>2. y = Ape!applyPersistentPresentation(u) BY <1>1, Zenon DEF Ape!setCharacterPersistentPresentation
<1>3. /\ u \in ApeRec /\ ApeRest(u, x) /\ ApeSameIntro(u, x) /\ ApePersistentSet(u, x, p)
      /\ ApeSameBody(u, x) /\ ApeSamePound(u, x)
  BY <1>1, ApePersistents
<1>4. y \in ApeRec /\ ApeRest(y, u) /\ ApeSameIntro(y, u) /\ ApeShown(y, u) BY <1>2, <1>3, ApePresents
<1>5. ApeRest(y, x) /\ ApeSameIntro(y, x) BY <1>3, <1>4 DEF ApeRest, ApeSameIntro
<1>6. u.art = x.art /\ u.bodyReleased = x.bodyReleased /\ u.intro = x.intro /\ u.auraReleased = x.auraReleased
  BY <1>3 DEF ApeRest, ApeSameIntro
<1>7. ApeStood(y, x, p)
  BY <1>3, <1>4, <1>6 DEF ApeShown, ApeStood, ApePersistentSet, ApeSameBody, ApeSamePound
<1>. QED BY <1>4, <1>5, <1>7

\* What setCharacterBodyContinuation makes of the stance; the idle clock is set by the
\* clip that its callers play next.
ApeContinued(y, x, body) ==
  /\ y.overlay = x.overlay /\ y.aura = x.aura /\ y.palette = x.palette
  /\ y.persistent.body = body /\ y.persistent.aura = x.persistent.aura
  /\ y.persistent.palette = x.persistent.palette

\* setCharacterBodyContinuation changes the loop the body goes back to.
LEMMA ApeContinues ==
  ASSUME NEW x \in ApeRec, NEW body \in Ape!Bodies, NEW y,
         y = Ape!setCharacterBodyContinuation(x, body)
  PROVE  y \in ApeRec /\ ApeRest(y, x) /\ ApeSameIntro(y, x) /\ ApeContinued(y, x, body)
<1>1. PICK c : c = Ape!cancelWheelChestPoundReentry(x) OBVIOUS
<1>2. PICK b : b = IF body = "feature" THEN x ELSE c OBVIOUS
<1>3. PICK j : j = [x.idle EXCEPT !.left = 0, !.toBase = FALSE, !.toFeature = FALSE] OBVIOUS
<1>4. c \in ApeRec /\ ApeRest(c, x) /\ ApeSameIntro(c, x) /\ ApeSameLook(c, x) /\ ApeSameBody(c, x)
  BY <1>1, ApeCancels
<1>5. b \in ApeRec /\ ApeRest(b, x) /\ ApeSameIntro(b, x) /\ ApeSameLook(b, x) /\ b.idle = x.idle
  <2>1. b = x \/ b = c BY <1>2
  <2>2. CASE b = x BY <2>2 DEF ApeRest, ApeSameIntro, ApeSameLook
  <2>3. CASE b = c BY <2>3, <1>4 DEF ApeSameBody
  <2>. QED BY <2>1, <2>2, <2>3
<1>6. x.idle \in ApeIdle BY ApeTypes
<1>7. j \in ApeIdle
  <2>1. 0 \in 0..ClipFrames BY CharacterAssumption
  <2>2. [x.idle EXCEPT !.left = 0, !.toBase = FALSE, !.toFeature = FALSE] \in ApeIdle
    BY <1>6, <2>1 DEF ApeIdle
  <2>. QED BY <1>3, <2>2
<1>8. PICK i \in ApeIdle : y = [b EXCEPT !.persistent.body = body, !.idle = i]
  <2>1. y = [b EXCEPT !.persistent.body = body,
                      !.idle = IF x.persistent.body = "feature" /\ body # "feature"
                                    /\ x.idle.left > 0 /\ x.idle.toFeature THEN j ELSE x.idle]
    BY <1>1, <1>2, <1>3, <1>5, Zenon DEF Ape!setCharacterBodyContinuation
  <2>. QED BY <2>1, <1>6, <1>7
<1>9. PICK p : p = [b.persistent EXCEPT !.body = body] OBVIOUS
<1>10. b.persistent \in ApePersistent BY <1>5, ApeTypes
<1>11. /\ p \in ApePersistent /\ p.body = body /\ p.aura = b.persistent.aura
       /\ p.palette = b.persistent.palette
  BY <1>9, <1>10 DEF ApePersistent
<1>12. PICK u : u = [b EXCEPT !.persistent = p] OBVIOUS
<1>13. u \in ApeRec /\ ApeRest(u, b) /\ ApeSameIntro(u, b) /\ ApePersistentSet(u, b, p)
  BY <1>5, <1>11, <1>12, ApePersistents
<1>14. y = [u EXCEPT !.idle = i] BY <1>8, <1>9, <1>12, <1>5 DEF ApeRec
<1>15. y \in ApeRec /\ ApeRest(y, u) /\ ApeSameIntro(y, u) /\ ApeSameLook(y, u) BY <1>8, <1>13, <1>14, ApeIdles
<1>16. ApeRest(y, x) /\ ApeSameIntro(y, x) BY <1>5, <1>13, <1>15 DEF ApeRest, ApeSameIntro
<1>17. y.overlay = x.overlay /\ y.aura = x.aura /\ y.palette = x.palette /\ y.persistent = p
  BY <1>5, <1>13, <1>15 DEF ApePersistentSet, ApeSameLook
<1>18. b.persistent = x.persistent BY <1>5 DEF ApeSameLook
<1>19. ApeContinued(y, x, body) BY <1>11, <1>17, <1>18 DEF ApeContinued
<1>. QED BY <1>15, <1>16, <1>19

\* What releaseCharacterBodyForTakeover makes of the tracks.
ApeTaken(y, x) ==
  /\ ~y.intro /\ y.elapsed = x.elapsed /\ y.bodyReleased /\ y.auraReleased = x.auraReleased
  /\ y.controlled = (x.controlled /\ ~x.intro)

\* releaseCharacterBodyForTakeover ends the launch clip's hold of the body.
LEMMA ApeTakesOver ==
  ASSUME NEW x \in ApeRec, NEW y, y = Ape!releaseCharacterBodyForTakeover(x)
  PROVE  y \in ApeRec /\ ApeRest(y, x) /\ ApeTaken(y, x) /\ ApeSameLook(y, x) /\ ApeSamePound(y, x)
           /\ y.body = x.body
<1>1. PICK f : f = (x.controlled /\ ~x.intro) OBVIOUS
<1>2. f \in ApeFlag BY <1>1 DEF ApeFlag
<1>3. y = [x EXCEPT !.controlled = f, !.intro = FALSE, !.bodyReleased = TRUE, !.idle = Ape!Stopped]
  BY <1>1, Zenon DEF Ape!releaseCharacterBodyForTakeover
<1>4. y \in ApeRec
  <2>1. Ape!Stopped \in ApeIdle BY ApeParts
  <2>2. [x EXCEPT !.controlled = f, !.intro = FALSE, !.bodyReleased = TRUE, !.idle = Ape!Stopped] \in ApeRec
    BY <1>2, <2>1, ApeFlags DEF ApeRec
  <2>. QED BY <1>3, <2>2
<1>5. y.controlled = f /\ ~y.intro /\ y.bodyReleased /\ y.elapsed = x.elapsed /\ y.auraReleased = x.auraReleased
  BY <1>3 DEF ApeRec
<1>6. ApeRest(y, x) /\ ApeSameLook(y, x) /\ ApeSamePound(y, x) /\ y.body = x.body
  BY <1>3 DEF ApeRec, ApeRest, ApeSameLook, ApeSamePound
<1>. QED BY <1>1, <1>4, <1>5, <1>6, Zenon DEF ApeTaken

\* What a clip that is put on the body makes of the tracks: its clock is set, and its
\* loop is queued behind it unless the clock hands the body over.
ApeActs == {"vault", "respin", "win", "idle_breaker2", "chest_pound", "reel_stretch", "reel_smash"}
ApeActed(y, x, clip, hands) ==
  /\ ApeTaken(y, x) /\ ApeSameLook(y, x) /\ ApeUnpounded(y) /\ y.frozen = x.reduced
  /\ y.body.clip = clip /\ ~y.body.loop /\ y.body.left = ClipFrames
  /\ y.body.queue = IF hands THEN "none" ELSE Ape!LoopOf[x.persistent.body]
  /\ ~y.idle.on /\ y.idle.left = ClipFrames /\ (y.idle.toBase <=> x.persistent.body = "base")
  /\ (y.idle.toFeature <=> hands /\ x.persistent.body = "feature")

\* playCharacterAnimation puts a clip on the body of a character that is there.
LEMMA ApePlaysClip ==
  ASSUME NEW x \in ApeRec, x.art, NEW clip \in ApeActs, NEW context, NEW y,
         y = Ape!playCharacterAnimation(x, clip, context)
  PROVE  /\ y \in ApeRec /\ ApeRest(y, x)
         /\ ApeActed(y, x, clip, Ape!HandsOver(x, clip, context))
<1>1. PICK hands : hands = Ape!HandsOver(x, clip, context) OBVIOUS
<1>2. PICK queue : queue = IF hands THEN "none" ELSE Ape!LoopOf[x.persistent.body] OBVIOUS
<1>3. PICK i : i = [Ape!Stopped EXCEPT !.left = ClipFrames, !.toBase = x.persistent.body = "base",
                                       !.toFeature = hands /\ x.persistent.body = "feature"]
  OBVIOUS
<1>4. PICK c : c = Ape!cancelWheelChestPoundReentry(x) OBVIOUS
<1>5. PICK k : k = Ape!releaseCharacterBodyForTakeover(c) OBVIOUS
<1>6. PICK e : e = Ape!Entry(clip, FALSE, queue) OBVIOUS
<1>7. PICK p : p = Ape!Plays(k, e) OBVIOUS
<1>8. y = [p EXCEPT !.idle = i]
  BY <1>1, <1>2, <1>3, <1>4, <1>5, <1>6, <1>7, Zenon
     DEF Ape!playCharacterAnimation, Ape!persistentBodyAnimation
<1>9. hands \in BOOLEAN BY <1>1 DEF Ape!HandsOver
<1>10. x.persistent.body \in Ape!Bodies BY ApeTypes DEF ApePersistent
<1>11. Ape!LoopOf[x.persistent.body] \in ApeClips /\ "none" \in ApeClips /\ clip \in ApeClips
  BY <1>10, ApeLoops DEF ApeClips, ApeActs
<1>12. queue \in ApeClips BY <1>2, <1>11
<1>13. e \in ApeBody /\ ApeEntered(e, clip, FALSE, queue, ClipFrames)
  BY <1>6, <1>11, <1>12, ApeClipEntry
<1>14. i \in ApeIdle /\ ~i.on /\ i.left = ClipFrames /\ (i.toBase <=> x.persistent.body = "base")
       /\ (i.toFeature <=> hands /\ x.persistent.body = "feature")
  <2>1. ClipFrames \in 0..ClipFrames BY CharacterAssumption
  <2>2. PICK f : f = (x.persistent.body = "base") OBVIOUS
  <2>3. PICK g : g = (hands /\ x.persistent.body = "feature") OBVIOUS
  <2>4. f \in BOOLEAN /\ g \in BOOLEAN BY <2>2, <2>3
  <2>5. Ape!Stopped \in ApeIdle /\ ~Ape!Stopped.on BY ApeParts
  <2>6. i = [Ape!Stopped EXCEPT !.left = ClipFrames, !.toBase = f, !.toFeature = g]
    BY <1>3, <2>2, <2>3, Zenon
  <2>7. i \in ApeIdle /\ i.on = Ape!Stopped.on /\ i.left = ClipFrames /\ i.toBase = f /\ i.toFeature = g
    BY <2>1, <2>4, <2>5, <2>6 DEF ApeIdle
  <2>. QED BY <2>2, <2>3, <2>5, <2>7, Zenon
<1>15. c \in ApeRec /\ ApeRest(c, x) /\ ApeSameIntro(c, x) /\ ApeSameLook(c, x) /\ ApeUnpounded(c)
  BY <1>4, ApeCancels
<1>16. k \in ApeRec /\ ApeRest(k, c) /\ ApeTaken(k, c) /\ ApeSameLook(k, c) /\ ApeSamePound(k, c)
  BY <1>5, <1>15, ApeTakesOver
<1>17. p \in ApeRec /\ ApeRest(p, k) /\ ApeSameIntro(p, k) /\ ApeSameLook(p, k) /\ ApePlayed(p, k, e)
  BY <1>7, <1>13, <1>16, ApePlaysEntry
<1>18. y \in ApeRec /\ ApeRest(y, p) /\ ApeSameIntro(y, p) /\ ApeSameLook(y, p) /\ ApeIdled(y, p, i)
  BY <1>8, <1>14, <1>17, ApeIdles
<1>19. ApeRest(y, x) /\ ApeSameLook(y, x) BY <1>15, <1>16, <1>17, <1>18 DEF ApeRest, ApeSameLook
<1>20. ApeTaken(y, x) BY <1>15, <1>16, <1>17, <1>18 DEF ApeTaken, ApeSameIntro
<1>21. /\ y.body = e /\ y.idle = i /\ y.frozen = x.reduced /\ y.pound = -1 /\ ~y.owned
  BY <1>15, <1>16, <1>17, <1>18 DEF ApeUnpounded, ApeSamePound, ApePlayed, ApeIdled, ApeRest
<1>22. ApeActed(y, x, clip, hands)
  <2>1. ApeTaken(y, x) /\ ApeSameLook(y, x) /\ ApeUnpounded(y) /\ y.frozen = x.reduced
    BY <1>19, <1>20, <1>21 DEF ApeUnpounded
  <2>2. /\ y.body.clip = clip /\ ~y.body.loop /\ y.body.left = ClipFrames
        /\ y.body.queue = IF hands THEN "none" ELSE Ape!LoopOf[x.persistent.body]
    BY <1>2, <1>13, <1>21 DEF ApeEntered
  <2>3. /\ ~y.idle.on /\ y.idle.left = ClipFrames /\ (y.idle.toBase <=> x.persistent.body = "base")
        /\ (y.idle.toFeature <=> hands /\ x.persistent.body = "feature")
    BY <1>14, <1>21
  <2>. QED BY <2>1, <2>2, <2>3 DEF ApeActed
<1>. QED BY <1>1, <1>18, <1>19, <1>22

\* What the wheel's turn makes of the tracks: the pounding loops, and a task enters it
\* again and again unless motion is reduced.
ApePounding(y, x) ==
  /\ ApeTaken(y, x) /\ ApeSameLook(y, x) /\ y.frozen = x.reduced /\ y.idle = Ape!Stopped
  /\ y.body = Ape!Entry("chest_pound", TRUE, "none")
  /\ (y.pound = -1 \/ (y.owned /\ ~x.reduced))

\* startWheelChestPoundTask puts the pounding on the body of a character that is there.
LEMMA ApePoundsAt ==
  ASSUME NEW x \in ApeRec, x.art, NEW y, y = Ape!startWheelChestPoundTask(x)
  PROVE  y \in ApeRec /\ ApeRest(y, x) /\ ApePounding(y, x)
<1>1. PICK c : c = Ape!cancelWheelChestPoundReentry(x) OBVIOUS
<1>2. PICK k : k = Ape!releaseCharacterBodyForTakeover(c) OBVIOUS
<1>3. PICK e : e = Ape!Entry("chest_pound", TRUE, "none") OBVIOUS
<1>4. PICK p : p = Ape!Plays(k, e) OBVIOUS
<1>5. PICK z : z = [p EXCEPT !.idle = Ape!Stopped] OBVIOUS
<1>6. y = IF x.reduced \/ x.persistent.body # "feature" THEN z
          ELSE [z EXCEPT !.pound = ClipFrames, !.owned = TRUE]
  BY <1>1, <1>2, <1>3, <1>4, <1>5, Zenon DEF Ape!startWheelChestPoundTask
<1>7. e \in ApeBody
  <2>1. "chest_pound" \in ApeClips BY DEF ApeClips
  <2>. QED BY <1>3, <2>1, ApeLoopEntry
<1>8. Ape!Stopped \in ApeIdle BY ApeParts
<1>9. c \in ApeRec /\ ApeRest(c, x) /\ ApeSameIntro(c, x) /\ ApeSameLook(c, x) /\ ApeUnpounded(c)
  BY <1>1, ApeCancels
<1>10. k \in ApeRec /\ ApeRest(k, c) /\ ApeTaken(k, c) /\ ApeSameLook(k, c) /\ ApeSamePound(k, c)
  BY <1>2, <1>9, ApeTakesOver
<1>11. p \in ApeRec /\ ApeRest(p, k) /\ ApeSameIntro(p, k) /\ ApeSameLook(p, k) /\ ApePlayed(p, k, e)
  BY <1>4, <1>7, <1>10, ApePlaysEntry
<1>12. /\ z \in ApeRec /\ ApeRest(z, p) /\ ApeSameIntro(z, p) /\ ApeSameLook(z, p)
       /\ ApeIdled(z, p, Ape!Stopped)
  BY <1>5, <1>8, <1>11, ApeIdles
<1>13. /\ ApeRest(z, x) /\ ApeTaken(z, x) /\ ApeSameLook(z, x)
       /\ z.body = e /\ z.idle = Ape!Stopped /\ z.frozen = x.reduced /\ z.pound = -1
  BY <1>9, <1>10, <1>11, <1>12
     DEF ApeRest, ApeTaken, ApeSameLook, ApeSameIntro, ApeUnpounded, ApeSamePound, ApePlayed, ApeIdled
<1>14. CASE x.reduced \/ x.persistent.body # "feature"
  <2>1. y = z BY <1>6, <1>14
  <2>. QED BY <1>3, <1>12, <1>13, <2>1 DEF ApePounding
<1>15. CASE ~(x.reduced \/ x.persistent.body # "feature")
  <2>1. y = [z EXCEPT !.pound = ClipFrames, !.owned = TRUE] BY <1>6, <1>15
  <2>2. ClipFrames \in ApePounds BY CharacterAssumption DEF ApePounds
  <2>3. y \in ApeRec
    <3>1. [z EXCEPT !.pound = ClipFrames, !.owned = TRUE] \in ApeRec
      BY <1>12, <2>2, ApeFlags DEF ApeRec
    <3>. QED BY <2>1, <3>1
  <2>4. ApeRest(y, z) /\ ApeSameIntro(y, z) /\ ApeSameLook(y, z) /\ ApeSameBody(y, z) /\ y.owned
    BY <1>12, <2>1 DEF ApeRec, ApeRest, ApeSameIntro, ApeSameLook, ApeSameBody
  <2>5. ApeRest(y, x) BY <1>13, <2>4 DEF ApeRest
  <2>6. ApePounding(y, x)
    BY <1>3, <1>13, <1>15, <2>4 DEF ApePounding, ApeTaken, ApeSameIntro, ApeSameLook, ApeSameBody
  <2>. QED BY <2>3, <2>5, <2>6
<1>. QED BY <1>14, <1>15

\* A clip that is put on the body keeps the character in order.
LEMMA ApeActsWell ==
  ASSUME NEW x \in ApeRec, ApeLoad(x), ApeLaunch(x), ApeStands(x), ApeShows(x), x.launch \in {"over", "gone"},
         NEW clip \in ApeActs, NEW hands \in BOOLEAN,
         hands => x.persistent.body \in {"base", "feature"},
         NEW y \in ApeRec, ApeRest(y, x), ApeActed(y, x, clip, hands)
  PROVE  ApeGood(y)
<1>1. /\ ApeTaken(y, x) /\ ApeSameLook(y, x) /\ ApeUnpounded(y) /\ ~y.body.loop /\ ~y.idle.on
      /\ y.body.left = ClipFrames /\ y.idle.left = ClipFrames /\ ClipFrames > 0
  BY CharacterAssumption DEF ApeActed
<1>2. /\ y.body.queue = (IF hands THEN "none" ELSE Ape!LoopOf[x.persistent.body])
      /\ (y.idle.toBase <=> x.persistent.body = "base")
      /\ (y.idle.toFeature <=> hands /\ x.persistent.body = "feature")
  BY DEF ApeActed
<1>3. ApeLoad(y) BY <1>1 DEF ApeLoad, ApeRest, ApeTaken
<1>4. ApeLaunch(y) BY <1>1 DEF ApeLaunch, ApeRest, ApeTaken
<1>5. ApeHeld(y) BY <1>1 DEF ApeHeld, ApeTaken
<1>6. y.persistent = x.persistent BY <1>1 DEF ApeSameLook
<1>7. x.persistent.body \in Ape!Bodies BY ApeTypes DEF ApePersistent
<1>8. Ape!LoopOf[x.persistent.body] # "none" BY <1>7, ApeLoops DEF Ape!Bodies
<1>9. ApePlays(y) BY <1>1, <1>2, <1>6, <1>8 DEF ApePlays
<1>10. ApeClocks(y) BY <1>1 DEF ApeClocks, ApeUnpounded
<1>11. ApeStands(y) BY <1>6 DEF ApeStands, ApeRest
<1>12. ApeShows(y) BY <1>1 DEF ApeShows, ApeRest, ApeSameLook, ApeTaken
<1>. QED BY <1>3, <1>4, <1>5, <1>9, <1>10, <1>11, <1>12 DEF ApeGood

\* Which clip the clock hands the body over from: a round's win in two of the stances.
LEMMA ApeHands ==
  ASSUME NEW x, NEW clip, NEW context
  PROVE  /\ Ape!HandsOver(x, clip, context) \in BOOLEAN
         /\ Ape!HandsOver(x, clip, context) => x.persistent.body \in {"base", "feature"}
BY DEF Ape!HandsOver

\* playCharacterAnimation keeps a character that is in order in order.
LEMMA ApeActing ==
  ASSUME NEW x \in ApeRec, ApeLoad(x), ApeLaunch(x), ApeStands(x), ApeShows(x), x.launch \in {"over", "gone"},
         NEW clip \in ApeActs, NEW context, NEW y, y = Ape!playCharacterAnimation(x, clip, context)
  PROVE  y \in ApeRec /\ ApeRest(y, x) /\ ApeGood(y) /\ ~y.body.loop
<1>1. x.art BY ApeTypes DEF ApeLoad
<1>2. PICK hands \in BOOLEAN :
        /\ hands = Ape!HandsOver(x, clip, context)
        /\ hands => x.persistent.body \in {"base", "feature"}
  BY ApeHands
<1>3. y \in ApeRec /\ ApeRest(y, x) /\ ApeActed(y, x, clip, Ape!HandsOver(x, clip, context))
  BY <1>1, ApePlaysClip
<1>4. ApeActed(y, x, clip, hands) BY <1>2, <1>3, Zenon
<1>5. ApeGood(y) BY <1>2, <1>3, <1>4, ApeActsWell
<1>. QED BY <1>3, <1>4, <1>5 DEF ApeActed

\* A released body loops in its stance and in nothing else.
ApeQuiet(y) == y.bodyReleased /\ y.body.loop => y.body.clip = Ape!LoopOf[y.persistent.body]

\* A stance that is taken keeps the tracks in order, whatever they showed before.
LEMMA ApeStandsAnew ==
  ASSUME NEW x \in ApeRec, ApeLoad(x), ApeLaunch(x), ApeHeld(x), ~x.auraReleased => x.aura = 0,
         NEW p \in ApePersistent, NEW y \in ApeRec, ApeRest(y, x), ApeSameIntro(y, x), ApeStood(y, x, p)
  PROVE  /\ ApeLoad(y) /\ ApeLaunch(y) /\ ApeHeld(y) /\ ApePlays(y) /\ ApeClocks(y) /\ ApeShows(y)
         /\ ApeQuiet(y)
<1>1. ApeLoad(y) BY DEF ApeLoad, ApeRest, ApeSameIntro
<1>2. ApeLaunch(y) BY DEF ApeLaunch, ApeRest, ApeSameIntro
<1>3. y.persistent = p BY DEF ApeStood
<1>4. ApeHeld(y)
  BY DEF ApeHeld, ApeRest, ApeSameIntro, ApeStood, ApeSameBody, ApeSamePound
<1>5. p.body \in Ape!Bodies BY DEF ApePersistent
<1>6. ApeShows(y)
  <2>1. CASE x.art BY <2>1, <1>3 DEF ApeShows, ApeRest, ApeSameIntro, ApeStood
  <2>2. CASE ~x.art
    <3>1. ~x.auraReleased BY <2>2 DEF ApeLoad, ApeLaunch
    <3>. QED BY <2>2, <3>1 DEF ApeShows, ApeRest, ApeSameIntro, ApeStood
  <2>. QED BY <2>1, <2>2, ApeTypes
<1>7. CASE y.bodyReleased
  <2>1. x.art /\ x.bodyReleased /\ ~x.intro BY <1>7 DEF ApeSameIntro, ApeLoad, ApeLaunch
  <2>2. ApeLooping(y) /\ ApeUnpounded(y) BY <2>1 DEF ApeStood
  <2>3. Ape!LoopOf[p.body] \in ApeClips BY <1>5, ApeLoops
  <2>4. ApeEntered(y.body, Ape!LoopOf[p.body], TRUE, "none", 0)
    BY <2>2, <2>3, <1>3, ApeLoopEntry DEF ApeLooping
  <2>5. y.body.clip = Ape!LoopOf[p.body] /\ y.body.loop /\ y.body.queue = "none" /\ y.body.left = 0
    BY <2>4 DEF ApeEntered
  <2>6. y.idle.on => p.body = "base" BY <2>2, <1>3, ApeParts DEF ApeLooping
  <2>7. ApePlays(y) BY <2>5, <1>3 DEF ApePlays
  <2>8. ApeClocks(y) BY <2>2, <2>5, <2>6, <1>3, ApeLoops DEF ApeClocks, ApeUnpounded
  <2>. QED BY <1>1, <1>2, <1>3, <1>4, <1>6, <2>5, <2>7, <2>8 DEF ApeQuiet
<1>8. CASE ~y.bodyReleased
  <2>1. ApePlays(y) BY <1>8 DEF ApePlays
  <2>2. y.idle = Ape!Stopped /\ y.pound = -1 BY <1>4, <1>8 DEF ApeHeld
  <2>3. ApeClocks(y) BY <2>2, ApeParts DEF ApeClocks
  <2>. QED BY <1>1, <1>2, <1>4, <1>6, <1>8, <2>1, <2>3 DEF ApeQuiet
<1>. QED BY <1>7, <1>8

\* What moves the round on and leaves the tracks alone.
ApeMoment(y, x, mode, scene) ==
  /\ y.load = x.load /\ y.bitmap = x.bitmap /\ y.authored = x.authored /\ y.views = x.views
  /\ y.art = x.art /\ y.launch = x.launch /\ y.at = x.at /\ y.calm = x.calm
  /\ y.reduced = x.reduced /\ y.mode = mode /\ y.scene = scene
  /\ ApeSameIntro(y, x) /\ ApeSameLook(y, x) /\ ApeSameBody(y, x) /\ ApeSamePound(y, x)

\* The mode and the scene of the round are set, together or one of them.
LEMMA ApeMoments ==
  ASSUME NEW x \in ApeRec, NEW mode \in Ape!Modes, NEW scene \in ApeScenes, NEW y,
         y = [x EXCEPT !.mode = mode, !.scene = scene]
  PROVE  y \in ApeRec /\ ApeMoment(y, x, mode, scene)
<1>1. y \in ApeRec BY DEF ApeRec
<1>. QED BY <1>1 DEF ApeRec, ApeMoment, ApeSameIntro, ApeSameLook, ApeSameBody, ApeSamePound

\* The mode alone is set.
LEMMA ApeModes ==
  ASSUME NEW x \in ApeRec, NEW mode \in Ape!Modes, NEW y, y = [x EXCEPT !.mode = mode]
  PROVE  y \in ApeRec /\ ApeMoment(y, x, mode, x.scene)
<1>1. y \in ApeRec BY DEF ApeRec
<1>. QED BY <1>1 DEF ApeRec, ApeMoment, ApeSameIntro, ApeSameLook, ApeSameBody, ApeSamePound

\* The scene alone is set.
LEMMA ApeScenesSet ==
  ASSUME NEW x \in ApeRec, NEW scene \in ApeScenes, NEW y, y = [x EXCEPT !.scene = scene]
  PROVE  y \in ApeRec /\ ApeMoment(y, x, x.mode, scene)
<1>1. y \in ApeRec BY DEF ApeRec
<1>. QED BY <1>1 DEF ApeRec, ApeMoment, ApeSameIntro, ApeSameLook, ApeSameBody, ApeSamePound

\* A round that moves on keeps tracks in order that loop in their stance alone.
LEMMA ApeMovesOn ==
  ASSUME NEW x \in ApeRec, NEW mode, NEW scene, NEW y \in ApeRec, ApeMoment(y, x, mode, scene),
         ApeLoad(x), ApeLaunch(x), ApeHeld(x), ApePlays(x), ApeClocks(x), ApeShows(x), ApeQuiet(x),
         scene \in {"spinning", "landed", "starting", "leaving"} => x.launch \in {"over", "gone"},
         scene = "spinning" => x.bodyReleased, ApeStands(y)
  PROVE  ApeGood(y)
<1>1. ApeSameIntro(y, x) /\ ApeSameLook(y, x) /\ ApeSameBody(y, x) /\ ApeSamePound(y, x)
  BY DEF ApeMoment
<1>2. ApeLoad(y) BY <1>1 DEF ApeLoad, ApeMoment, ApeSameIntro
<1>3. y.scene \in ApeScenes BY ApeTypes
<1>4. ApeLaunch(y) BY <1>1, <1>3 DEF ApeLaunch, ApeMoment, ApeSameIntro, ApeScenes
<1>5. ApeHeld(y) BY <1>1 DEF ApeHeld, ApeMoment, ApeSameIntro, ApeSameBody, ApeSamePound
<1>6. ApePlays(y)
  BY <1>1 DEF ApePlays, ApeQuiet, ApeMoment, ApeSameIntro, ApeSameBody, ApeSameLook
<1>7. ApeClocks(y) BY <1>1 DEF ApeClocks, ApeMoment, ApeSameBody, ApeSameLook, ApeSamePound
<1>8. ApeShows(y) BY <1>1 DEF ApeShows, ApeMoment, ApeSameLook, ApeSameIntro
<1>. QED BY <1>2, <1>4, <1>5, <1>6, <1>7, <1>8 DEF ApeGood

\* The stances of the modes are stances.
LEMMA ApeStances ==
  ASSUME NEW mode \in Ape!Modes, NEW rage \in 1..2
  PROVE  /\ Ape!persistentFeatureVisualPlan(mode, rage) \in ApePersistent
         /\ Ape!featureIntroCharacterPresentation(mode) \in ApePersistent
         /\ Ape!persistentFeatureVisualPlan(mode, rage).body =
              (IF mode = "EXPANSION" THEN "kq" ELSE IF mode = "OVERDRIVE" THEN "feature" ELSE "base")
         /\ mode = "BASE" => Ape!persistentFeatureVisualPlan(mode, rage).palette = "main"
         /\ Ape!featureIntroCharacterPresentation(mode).body = "feature"
         /\ Ape!characterWinPresentation(mode) =
              (IF mode = "EXPANSION" THEN "kq" ELSE IF mode = "OVERDRIVE" THEN "feature" ELSE "base")
BY DEF Ape!persistentFeatureVisualPlan, Ape!featureIntroCharacterPresentation, Ape!Persistent,
       Ape!characterWinPresentation, ApePersistent, Ape!Bodies, Ape!Auras, Ape!Palettes, Ape!Modes

\* The scenes of a round and the modes, one by one.
LEMMA ApeNames ==
  /\ "no" \in ApeScenes /\ "spinning" \in ApeScenes /\ "landed" \in ApeScenes
  /\ "starting" \in ApeScenes /\ "leaving" \in ApeScenes
  /\ "BASE" \in Ape!Modes /\ Ape!Bodies = {"base", "feature", "kq"}
BY DEF ApeScenes, Ape!Modes, Ape!Bodies

\* A reaction of the round.
LEMMA ApeReaction ==
  ASSUME ApeInv, NEW clip \in Ape!Reactions, Ape!cueReaction(clip)
  PROVE  ApeInv'
<1>1. now.launch = "over" /\ now' = Ape!playCharacterAnimation(now, clip, "state")
  BY DEF Ape!cueReaction, Ape!Playing
<1>2. clip \in ApeActs BY DEF Ape!Reactions, ApeActs
<1>3. now \in ApeRec /\ ApeLoad(now) /\ ApeLaunch(now) /\ ApeStands(now) /\ ApeShows(now)
  BY DEF ApeInv, ApeGood
<1>. QED BY <1>1, <1>2, <1>3, ApeActing DEF ApeInv

\* A clip of a collect, with its overlay.
LEMMA ApeCollect ==
  ASSUME ApeInv, NEW clip \in Ape!CollectClips, Ape!cueCollect(clip)
  PROVE  ApeInv'
<1>1. PICK u : u = Ape!playCharacterAnimation(now, clip, "collect-random") OBVIOUS
<1>2. now.launch = "over" /\ now' = [u EXCEPT !.overlay = now.art]
  BY <1>1, Zenon DEF Ape!cueCollect, Ape!Playing, Ape!playCharacterCollect
<1>3. clip \in ApeActs BY DEF Ape!CollectClips, ApeActs
<1>4. now \in ApeRec /\ ApeLoad(now) /\ ApeLaunch(now) /\ ApeStands(now) /\ ApeShows(now)
  BY DEF ApeInv, ApeGood
<1>5. u \in ApeRec /\ ApeGood(u) BY <1>1, <1>2, <1>3, <1>4, ApeActing
<1>6. ASSUME NEW f \in ApeFlag, NEW y, y = [u EXCEPT !.overlay = f] PROVE ApeGood(y)
  <2>1. y \in ApeRec BY <1>5, <1>6 DEF ApeRec
  <2>2. /\ ApeRest(y, u) /\ ApeSameIntro(y, u) /\ ApeSameBody(y, u) /\ ApeSamePound(y, u)
        /\ y.aura = u.aura /\ y.palette = u.palette /\ y.persistent = u.persistent
    BY <1>5, <1>6 DEF ApeRec, ApeRest, ApeSameIntro, ApeSameBody, ApeSamePound
  <2>3. ApeLoad(y) /\ ApeLaunch(y) BY <1>5, <2>2 DEF ApeGood, ApeLoad, ApeLaunch, ApeRest, ApeSameIntro
  <2>4. ApeHeld(y) /\ ApePlays(y)
    BY <1>5, <2>2 DEF ApeGood, ApeHeld, ApePlays, ApeRest, ApeSameIntro, ApeSameBody, ApeSamePound
  <2>5. ApeClocks(y) /\ ApeStands(y) /\ ApeShows(y)
    BY <1>5, <2>2
       DEF ApeGood, ApeClocks, ApeStands, ApeShows, ApeRest, ApeSameIntro, ApeSameBody, ApeSamePound
  <2>. QED BY <2>1, <2>3, <2>4, <2>5 DEF ApeGood
<1>7. now.art \in ApeFlag BY <1>4 DEF ApeRec
<1>8. ApeGood(now') BY <1>2, <1>6, <1>7
<1>. QED BY <1>8 DEF ApeInv

\* The mode and the scene set in the other order.
LEMMA ApeMomentsToo ==
  ASSUME NEW x \in ApeRec, NEW mode \in Ape!Modes, NEW scene \in ApeScenes, NEW y,
         y = [x EXCEPT !.scene = scene, !.mode = mode]
  PROVE  y \in ApeRec /\ ApeMoment(y, x, mode, scene)
<1>1. y \in ApeRec BY DEF ApeRec
<1>. QED BY <1>1 DEF ApeRec, ApeMoment, ApeSameIntro, ApeSameLook, ApeSameBody, ApeSamePound

\* Another loop to go back to leaves artwork, launch and look in order.
LEMMA ApeContinuing ==
  ASSUME NEW x \in ApeRec, ApeLoad(x), ApeLaunch(x), ApeShows(x), NEW body \in Ape!Bodies, NEW y,
         y = Ape!setCharacterBodyContinuation(x, body)
  PROVE  /\ y \in ApeRec /\ ApeRest(y, x) /\ ApeSameIntro(y, x) /\ ApeContinued(y, x, body)
         /\ ApeLoad(y) /\ ApeLaunch(y) /\ ApeShows(y)
<1>1. y \in ApeRec /\ ApeRest(y, x) /\ ApeSameIntro(y, x) /\ ApeContinued(y, x, body) BY ApeContinues
<1>2. ApeLoad(y) BY <1>1 DEF ApeLoad, ApeRest, ApeSameIntro
<1>3. ApeLaunch(y) BY <1>1 DEF ApeLaunch, ApeRest, ApeSameIntro
<1>4. ApeShows(y) BY <1>1 DEF ApeShows, ApeRest, ApeSameIntro, ApeContinued
<1>. QED BY <1>1, <1>2, <1>3, <1>4

\* The character reacts to a round's win in the stance of the mode.
LEMMA ApeWin ==
  ASSUME ApeInv, Ape!reactToWin
  PROVE  ApeInv'
<1>1. PICK body : body = Ape!characterWinPresentation(now.mode) OBVIOUS
<1>2. PICK u : u = Ape!setCharacterBodyContinuation(now, body) OBVIOUS
<1>3. now.launch = "over" /\ now.scene = "no" /\ now' = Ape!playCharacterAnimation(u, "win", "state")
  BY <1>1, <1>2, Zenon DEF Ape!reactToWin, Ape!Playing
<1>4. now \in ApeRec /\ ApeLoad(now) /\ ApeLaunch(now) /\ ApeShows(now) BY DEF ApeInv, ApeGood
<1>5. now.mode \in Ape!Modes BY <1>4, ApeTypes
<1>6. body = (IF now.mode = "EXPANSION" THEN "kq" ELSE IF now.mode = "OVERDRIVE" THEN "feature" ELSE "base")
  BY <1>1 DEF Ape!characterWinPresentation
<1>7. body \in Ape!Bodies BY <1>6, ApeNames
<1>8. /\ u \in ApeRec /\ ApeRest(u, now) /\ ApeSameIntro(u, now) /\ ApeContinued(u, now, body)
      /\ ApeLoad(u) /\ ApeLaunch(u) /\ ApeShows(u)
  BY <1>2, <1>4, <1>7, ApeContinuing
<1>9. u.launch = "over" /\ u.scene = "no" /\ u.mode = now.mode /\ u.persistent.body = body
  BY <1>3, <1>8 DEF ApeRest, ApeContinued
<1>10. ApeStands(u) BY <1>1, <1>6, <1>9 DEF ApeStands
<1>11. "win" \in ApeActs BY DEF ApeActs
<1>. QED BY <1>3, <1>8, <1>9, <1>10, <1>11, ApeActing DEF ApeInv

\* onReelStructure: the character follows the reels as they grow in Kong Quest, and as
\* they shrink when it is left.
LEMMA ApeReels ==
  ASSUME NEW x \in ApeRec, ApeLoad(x), ApeLaunch(x), ApeShows(x), x.launch \in {"over", "gone"},
         NEW direction \in {"expand", "shrink"},
         \/ x.mode = "EXPANSION" /\ x.scene = "no"
         \/ /\ x.mode = "BASE" /\ direction = "shrink" /\ x.scene = "leaving"
            /\ x.persistent.palette = "main",
         NEW y, y = Ape!onReelStructure(x, direction)
  PROVE  ApeGood(y)
<1>1. PICK body : body = IF direction = "expand" \/ x.mode = "EXPANSION" THEN "kq" ELSE "base" OBVIOUS
<1>2. PICK clip : clip = IF direction = "expand" THEN "reel_stretch" ELSE "reel_smash" OBVIOUS
<1>3. PICK u : u = Ape!setCharacterBodyContinuation(x, body) OBVIOUS
<1>4. y = Ape!playCharacterAnimation(u, clip, "state")
  BY <1>1, <1>2, <1>3, Zenon DEF Ape!onReelStructure
<1>5. body \in Ape!Bodies BY <1>1, ApeNames
<1>6. clip \in ApeActs BY <1>2 DEF ApeActs
<1>7. /\ u \in ApeRec /\ ApeRest(u, x) /\ ApeSameIntro(u, x) /\ ApeContinued(u, x, body)
      /\ ApeLoad(u) /\ ApeLaunch(u) /\ ApeShows(u)
  BY <1>3, <1>5, ApeContinuing
<1>8. /\ u.launch = x.launch /\ u.scene = x.scene /\ u.mode = x.mode /\ u.persistent.body = body
      /\ u.persistent.palette = x.persistent.palette
  BY <1>7 DEF ApeRest, ApeContinued
<1>9. ApeStands(u) BY <1>1, <1>8 DEF ApeStands
<1>. QED BY <1>4, <1>6, <1>7, <1>8, <1>9, ApeActing

\* The reels grow or shrink during Kong Quest.
LEMMA ApeGrid ==
  ASSUME ApeInv, NEW direction \in {"expand", "shrink"}, Ape!GridExpanded(direction)
  PROVE  ApeInv'
<1>1. /\ now.launch = "over" /\ now.scene = "no" /\ now.mode = "EXPANSION"
      /\ now' = Ape!onReelStructure(now, direction)
  BY DEF Ape!GridExpanded, Ape!Playing
<1>2. now \in ApeRec /\ ApeLoad(now) /\ ApeLaunch(now) /\ ApeShows(now) BY DEF ApeInv, ApeGood
<1>. QED BY <1>1, <1>2, ApeReels DEF ApeInv

\* The wheel is spun, and the character pounds for it.
LEMMA ApeWheelSpins ==
  ASSUME ApeInv, Ape!beginWheelSpinPresentation
  PROVE  ApeInv'
<1>1. PICK u : u = Ape!setCharacterBodyContinuation(now, "feature") OBVIOUS
<1>2. PICK w : w = Ape!startWheelChestPoundTask(u) OBVIOUS
<1>3. now.launch = "over" /\ now.scene = "no" /\ now' = [w EXCEPT !.scene = "spinning"]
  BY <1>1, <1>2, Zenon DEF Ape!beginWheelSpinPresentation, Ape!Playing
<1>4. now \in ApeRec /\ ApeLoad(now) /\ ApeLaunch(now) /\ ApeShows(now) BY DEF ApeInv, ApeGood
<1>5. "feature" \in Ape!Bodies BY ApeNames
<1>6. /\ u \in ApeRec /\ ApeRest(u, now) /\ ApeSameIntro(u, now) /\ ApeContinued(u, now, "feature")
      /\ ApeLoad(u) /\ ApeLaunch(u) /\ ApeShows(u)
  BY <1>1, <1>4, <1>5, ApeContinuing
<1>7. u.art BY <1>3, <1>6, ApeTypes DEF ApeLoad, ApeRest
<1>8. w \in ApeRec /\ ApeRest(w, u) /\ ApePounding(w, u) BY <1>2, <1>6, <1>7, ApePoundsAt
<1>9. PICK y : y = now' OBVIOUS
<1>10. y \in ApeRec /\ ApeMoment(y, w, w.mode, "spinning")
  BY <1>3, <1>8, <1>9, ApeNames, ApeScenesSet
<1>11. /\ ApeSameIntro(y, w) /\ ApeSameLook(y, w) /\ ApeSameBody(y, w) /\ ApeSamePound(y, w)
       /\ ApeTaken(w, u) /\ ApeSameLook(w, u)
  BY <1>8, <1>10 DEF ApeMoment, ApePounding
<1>12. y.launch = "over" /\ y.scene = "spinning" /\ y.reduced = u.reduced
  BY <1>3, <1>6, <1>8, <1>10 DEF ApeMoment, ApeRest
<1>13. ApeLoad(y)
  BY <1>6, <1>7, <1>8, <1>10, <1>11 DEF ApeLoad, ApeMoment, ApeRest, ApeTaken, ApeSameIntro
<1>14. ApeLaunch(y)
  BY <1>6, <1>8, <1>10, <1>11, <1>12 DEF ApeLaunch, ApeMoment, ApeRest, ApeTaken, ApeSameIntro
<1>15. ApeHeld(y) BY <1>11 DEF ApeHeld, ApeTaken, ApeSameIntro
<1>16. y.body = Ape!Entry("chest_pound", TRUE, "none") /\ y.idle = Ape!Stopped
  BY <1>8, <1>11 DEF ApePounding, ApeSameBody
<1>17. ApeEntered(y.body, "chest_pound", TRUE, "none", 0)
  <2>1. "chest_pound" \in ApeClips BY DEF ApeClips
  <2>. QED BY <1>16, <2>1, ApeLoopEntry
<1>18. ApePlays(y) BY <1>12, <1>17 DEF ApePlays, ApeEntered
<1>19. y.pound = -1 \/ (y.owned /\ ~y.reduced) BY <1>8, <1>11, <1>12 DEF ApePounding, ApeSamePound
<1>20. ApeClocks(y)
  <2>1. ~y.idle.on BY <1>16, ApeParts
  <2>2. y.body.loop /\ y.body.clip = "chest_pound" BY <1>17 DEF ApeEntered
  <2>. QED BY <1>19, <2>1, <2>2 DEF ApeClocks
<1>21. ApeStands(y) BY <1>12 DEF ApeStands
<1>22. ApeShows(y)
  BY <1>6, <1>8, <1>10, <1>11 DEF ApeShows, ApeMoment, ApeRest, ApeSameLook, ApeTaken, ApeSameIntro
<1>. QED BY <1>9, <1>10, <1>13, <1>14, <1>15, <1>18, <1>20, <1>21, <1>22 DEF ApeInv, ApeGood

\* The clip that answers the wheel's landing.
LEMMA ApeWheelLands ==
  ASSUME ApeInv, Ape!onWheelSpinFinish
  PROVE  ApeInv'
<1>1. PICK u : u = Ape!setCharacterBodyContinuation(now, "feature") OBVIOUS
<1>2. PICK w : w = Ape!playCharacterAnimation(u, "win", "state") OBVIOUS
<1>3. now.scene = "spinning" /\ now' = [w EXCEPT !.scene = "landed"]
  BY <1>1, <1>2, Zenon DEF Ape!onWheelSpinFinish
<1>4. now \in ApeRec /\ ApeLoad(now) /\ ApeLaunch(now) /\ ApeShows(now) BY DEF ApeInv, ApeGood
<1>5. now.launch \in {"over", "gone"}
  <2>1. now.launch \in ApeLaunches BY <1>4, ApeTypes
  <2>. QED BY <1>3, <1>4, <2>1 DEF ApeLaunch, ApeLaunches
<1>6. "feature" \in Ape!Bodies /\ "win" \in ApeActs BY ApeNames DEF ApeActs
<1>7. /\ u \in ApeRec /\ ApeRest(u, now) /\ ApeSameIntro(u, now) /\ ApeContinued(u, now, "feature")
      /\ ApeLoad(u) /\ ApeLaunch(u) /\ ApeShows(u)
  BY <1>1, <1>4, <1>6, ApeContinuing
<1>8. u.launch \in {"over", "gone"} /\ u.scene = "spinning" BY <1>3, <1>5, <1>7 DEF ApeRest
<1>9. ApeStands(u) BY <1>8 DEF ApeStands
<1>10. w \in ApeRec /\ ApeRest(w, u) /\ ApeGood(w) /\ ~w.body.loop
  BY <1>2, <1>6, <1>7, <1>8, <1>9, ApeActing
<1>11. PICK y : y = now' OBVIOUS
<1>12. y \in ApeRec /\ ApeMoment(y, w, w.mode, "landed") BY <1>3, <1>10, <1>11, ApeNames, ApeScenesSet
<1>13. ApeQuiet(w) BY <1>10 DEF ApeQuiet
<1>14. ApeStands(y) BY <1>12 DEF ApeStands, ApeMoment
<1>15. w.launch \in {"over", "gone"} BY <1>8, <1>10 DEF ApeRest
<1>16. ApeGood(y) BY <1>10, <1>12, <1>13, <1>14, <1>15, ApeMovesOn DEF ApeGood
<1>. QED BY <1>11, <1>16 DEF ApeInv

\* applyPersistentBody brings a released body back to its stance, look and all.
LEMMA ApeLoopsAgain ==
  ASSUME NEW x \in ApeRec, ApeLoad(x), ApeLaunch(x), ApeShows(x), x.bodyReleased, NEW y,
         y = Ape!applyPersistentBody(x)
  PROVE  /\ y \in ApeRec /\ ApeRest(y, x) /\ ApeSameIntro(y, x) /\ ApeStood(y, x, x.persistent)
         /\ ApeSameLook(y, x)
<1>1. /\ y \in ApeRec /\ ApeRest(y, x) /\ ApeSameIntro(y, x) /\ ApeSameLook(y, x) /\ ApeUnpounded(y)
      /\ x.art /\ x.bodyReleased /\ ~x.intro => ApeLooping(y)
  BY ApeAppliesBody
<1>2. x.art /\ ~x.intro BY ApeTypes DEF ApeLoad, ApeLaunch
<1>3. ApeStood(y, x, x.persistent) BY <1>1, <1>2 DEF ApeStood, ApeShows, ApeSameLook
<1>. QED BY <1>1, <1>3

\* A wheel that is abandoned gives the body back to its stance.
LEMMA ApeWheelAborts ==
  ASSUME ApeInv, Ape!abortWheelPresentation
  PROVE  ApeInv'
<1>1. PICK w : w = Ape!applyPersistentBody(now) OBVIOUS
<1>2. now.scene = "spinning" /\ now' = [w EXCEPT !.scene = "landed"]
  BY <1>1, Zenon DEF Ape!abortWheelPresentation
<1>3. now \in ApeRec /\ ApeLoad(now) /\ ApeLaunch(now) /\ ApeHeld(now) /\ ApeShows(now)
  BY DEF ApeInv, ApeGood
<1>4. now.bodyReleased BY <1>2, <1>3, ApeTypes DEF ApeHeld
<1>5. now.launch \in {"over", "gone"}
  <2>1. now.launch \in ApeLaunches BY <1>3, ApeTypes
  <2>. QED BY <1>2, <1>3, <2>1 DEF ApeLaunch, ApeLaunches
<1>6. w \in ApeRec /\ ApeRest(w, now) /\ ApeSameIntro(w, now) /\ ApeStood(w, now, now.persistent)
  BY <1>1, <1>3, <1>4, ApeLoopsAgain
<1>7. now.persistent \in ApePersistent /\ (~now.auraReleased => now.aura = 0)
  BY <1>3, ApeTypes DEF ApeShows
<1>8. /\ ApeLoad(w) /\ ApeLaunch(w) /\ ApeHeld(w) /\ ApePlays(w) /\ ApeClocks(w) /\ ApeShows(w)
      /\ ApeQuiet(w)
  BY <1>3, <1>6, <1>7, ApeStandsAnew
<1>9. PICK y : y = now' OBVIOUS
<1>10. y \in ApeRec /\ ApeMoment(y, w, w.mode, "landed") BY <1>2, <1>6, <1>9, ApeNames, ApeScenesSet
<1>11. ApeStands(y) BY <1>10 DEF ApeStands, ApeMoment
<1>12. w.launch \in {"over", "gone"} BY <1>5, <1>6 DEF ApeRest
<1>13. ApeGood(y) BY <1>6, <1>8, <1>10, <1>11, <1>12, ApeMovesOn
<1>. QED BY <1>9, <1>13 DEF ApeInv

\* What Projected brings about, from tracks that are in order.
LEMMA ApeProjects ==
  ASSUME NEW x \in ApeRec, ApeLoad(x), ApeLaunch(x), ApeHeld(x), ~x.auraReleased => x.aura = 0,
         NEW mode \in Ape!Modes, NEW rage \in 1..2, NEW y, y = Ape!Projected(x, mode, rage)
  PROVE  /\ y \in ApeRec /\ ApeRest(y, x) /\ ApeSameIntro(y, x)
         /\ ApeLoad(y) /\ ApeLaunch(y) /\ ApeHeld(y) /\ ApePlays(y) /\ ApeClocks(y) /\ ApeShows(y)
         /\ ApeQuiet(y) /\ y.persistent = Ape!persistentFeatureVisualPlan(mode, rage)
<1>1. PICK p : p = Ape!persistentFeatureVisualPlan(mode, rage) OBVIOUS
<1>2. y = Ape!setCharacterPersistentPresentation(x, p) BY <1>1, Zenon DEF Ape!Projected
<1>3. p \in ApePersistent BY <1>1, ApeStances
<1>4. y \in ApeRec /\ ApeRest(y, x) /\ ApeSameIntro(y, x) /\ ApeStood(y, x, p)
  BY <1>2, <1>3, ApeTakesStance
<1>5. /\ ApeLoad(y) /\ ApeLaunch(y) /\ ApeHeld(y) /\ ApePlays(y) /\ ApeClocks(y) /\ ApeShows(y)
      /\ ApeQuiet(y)
  BY <1>3, <1>4, ApeStandsAnew
<1>6. y.persistent = p BY <1>4 DEF ApeStood
<1>. QED BY <1>1, <1>4, <1>5, <1>6

\* The wheel's feature is entered, or the base game goes on.
LEMMA ApeWheelOver ==
  ASSUME ApeInv, NEW mode \in Ape!Modes, Ape!completeWheelPresentation(mode)
  PROVE  ApeInv'
<1>1. PICK w : w = Ape!Projected(now, mode, 1) OBVIOUS
<1>2. PICK v : v = IF mode = "BASE" THEN "no" ELSE "starting" OBVIOUS
<1>3. now.scene = "landed" /\ now' = [w EXCEPT !.scene = v, !.mode = mode]
  BY <1>1, <1>2, Zenon DEF Ape!completeWheelPresentation
<1>4. now \in ApeRec /\ ApeLoad(now) /\ ApeLaunch(now) /\ ApeHeld(now) /\ ApeShows(now)
  BY DEF ApeInv, ApeGood
<1>5. ~now.auraReleased => now.aura = 0 BY <1>4 DEF ApeShows
<1>6. now.launch \in {"over", "gone"}
  <2>1. now.launch \in ApeLaunches BY <1>4, ApeTypes
  <2>. QED BY <1>3, <1>4, <2>1 DEF ApeLaunch, ApeLaunches
<1>7. 1 \in 1..2 OBVIOUS
<1>8. /\ w \in ApeRec /\ ApeRest(w, now) /\ ApeSameIntro(w, now)
      /\ ApeLoad(w) /\ ApeLaunch(w) /\ ApeHeld(w) /\ ApePlays(w) /\ ApeClocks(w) /\ ApeShows(w)
      /\ ApeQuiet(w) /\ w.persistent = Ape!persistentFeatureVisualPlan(mode, 1)
  BY <1>1, <1>4, <1>5, <1>7, ApeProjects
<1>9. v \in ApeScenes BY <1>2, ApeNames
<1>10. PICK y : y = now' OBVIOUS
<1>11. y \in ApeRec /\ ApeMoment(y, w, mode, v) BY <1>3, <1>8, <1>9, <1>10, ApeMomentsToo
<1>12. w.persistent.body =
         (IF mode = "EXPANSION" THEN "kq" ELSE IF mode = "OVERDRIVE" THEN "feature" ELSE "base")
  BY <1>7, <1>8, ApeStances
<1>13. y.persistent = w.persistent /\ y.mode = mode /\ y.scene = v
  BY <1>11 DEF ApeMoment, ApeSameLook
<1>14. Ape!characterWinPresentation(mode) =
         (IF mode = "EXPANSION" THEN "kq" ELSE IF mode = "OVERDRIVE" THEN "feature" ELSE "base")
  BY DEF Ape!characterWinPresentation
<1>15. ApeStands(y) BY <1>2, <1>12, <1>13, <1>14 DEF ApeStands
<1>16. w.launch \in {"over", "gone"} /\ v # "spinning" BY <1>2, <1>6, <1>8 DEF ApeRest
<1>17. ApeGood(y) BY <1>8, <1>11, <1>15, <1>16, ApeMovesOn
<1>. QED BY <1>10, <1>17 DEF ApeInv

\* The free spins are announced, and the character takes their stance.
LEMMA ApeFreeSpins ==
  ASSUME ApeInv, Ape!cueFreeSpinsStarted
  PROVE  ApeInv'
<1>1. PICK p : p = Ape!featureIntroCharacterPresentation(now.mode) OBVIOUS
<1>2. PICK w : w = Ape!setCharacterPersistentPresentation(now, p) OBVIOUS
<1>3. now.scene = "starting" /\ now' = [w EXCEPT !.scene = "no"]
  BY <1>1, <1>2, Zenon DEF Ape!cueFreeSpinsStarted
<1>4. /\ now \in ApeRec /\ ApeLoad(now) /\ ApeLaunch(now) /\ ApeHeld(now) /\ ApeStands(now)
      /\ ApeShows(now)
  BY DEF ApeInv, ApeGood
<1>5. now.mode \in Ape!Modes /\ 1 \in 1..2 BY <1>4, ApeTypes
<1>6. p \in ApePersistent /\ p.body = "feature" BY <1>1, <1>5, ApeStances
<1>7. w \in ApeRec /\ ApeRest(w, now) /\ ApeSameIntro(w, now) /\ ApeStood(w, now, p)
  BY <1>2, <1>4, <1>6, ApeTakesStance
<1>8. ~now.auraReleased => now.aura = 0 BY <1>4 DEF ApeShows
<1>9. /\ ApeLoad(w) /\ ApeLaunch(w) /\ ApeHeld(w) /\ ApePlays(w) /\ ApeClocks(w) /\ ApeShows(w)
      /\ ApeQuiet(w)
  BY <1>4, <1>6, <1>7, <1>8, ApeStandsAnew
<1>10. PICK y : y = now' OBVIOUS
<1>11. y \in ApeRec /\ ApeMoment(y, w, w.mode, "no") BY <1>3, <1>7, <1>10, ApeNames, ApeScenesSet
<1>12. w.mode = now.mode /\ w.persistent = p BY <1>7 DEF ApeRest, ApeStood
<1>13. y.mode = now.mode /\ y.scene = "no" /\ y.persistent.body = "feature"
  BY <1>6, <1>11, <1>12 DEF ApeMoment, ApeSameLook
<1>14. now.mode # "BASE" BY <1>3, <1>4 DEF ApeStands
<1>15. now.mode \in {"EXPANSION", "OVERDRIVE"} BY <1>5, <1>14 DEF Ape!Modes
<1>16. ApeStands(y) BY <1>13, <1>15 DEF ApeStands, Ape!characterWinPresentation
<1>17. ApeGood(y) BY <1>7, <1>9, <1>11, <1>16, ApeMovesOn
<1>. QED BY <1>10, <1>17 DEF ApeInv

\* The mode a session is restored in decides the stance the character will take.
LEMMA ApeRestores ==
  ASSUME ApeInv, NEW mode \in Ape!Modes, NEW rage \in 1..2, Ape!restoreFeatureState(mode, rage)
  PROVE  ApeInv'
<1>1. PICK w : w = Ape!Projected(now, mode, rage) OBVIOUS
<1>2. now.launch = "before" /\ now' = [w EXCEPT !.mode = mode]
  BY <1>1, Zenon DEF Ape!restoreFeatureState
<1>3. now \in ApeRec /\ ApeLoad(now) /\ ApeLaunch(now) /\ ApeHeld(now) /\ ApeShows(now)
  BY DEF ApeInv, ApeGood
<1>4. (~now.auraReleased => now.aura = 0) /\ now.scene = "no" BY <1>2, <1>3 DEF ApeShows, ApeLaunch
<1>5. /\ w \in ApeRec /\ ApeRest(w, now) /\ ApeSameIntro(w, now)
      /\ ApeLoad(w) /\ ApeLaunch(w) /\ ApeHeld(w) /\ ApePlays(w) /\ ApeClocks(w) /\ ApeShows(w)
      /\ ApeQuiet(w) /\ w.persistent = Ape!persistentFeatureVisualPlan(mode, rage)
  BY <1>1, <1>3, <1>4, ApeProjects
<1>6. PICK y : y = now' OBVIOUS
<1>7. y \in ApeRec /\ ApeMoment(y, w, mode, w.scene) BY <1>2, <1>5, <1>6, ApeModes
<1>8. /\ w.persistent.body =
           (IF mode = "EXPANSION" THEN "kq" ELSE IF mode = "OVERDRIVE" THEN "feature" ELSE "base")
      /\ Ape!characterWinPresentation(mode) =
           (IF mode = "EXPANSION" THEN "kq" ELSE IF mode = "OVERDRIVE" THEN "feature" ELSE "base")
  BY <1>5, ApeStances
<1>9. w.scene = "no" /\ y.scene = "no" /\ y.persistent = w.persistent /\ y.mode = mode
  BY <1>4, <1>5, <1>7 DEF ApeRest, ApeMoment, ApeSameLook
<1>10. ApeStands(y) BY <1>8, <1>9 DEF ApeStands
<1>11. ApeGood(y) BY <1>5, <1>7, <1>9, <1>10, ApeMovesOn
<1>. QED BY <1>6, <1>11 DEF ApeInv

\* A presentation that fails puts the character into the stance of the accepted result.
LEMMA ApeFails ==
  ASSUME ApeInv, NEW mode \in Ape!Modes, NEW rage \in 1..2, Ape!PresentationFails(mode, rage)
  PROVE  ApeInv'
<1>1. PICK b : b = Ape!applyPersistentBody(now) OBVIOUS
<1>2. PICK u : u = IF now.scene = "spinning" THEN b ELSE now OBVIOUS
<1>3. PICK w : w = Ape!Projected(u, mode, rage) OBVIOUS
<1>4. now' = [w EXCEPT !.mode = mode, !.scene = "no"]
  BY <1>1, <1>2, <1>3, Zenon DEF Ape!PresentationFails
<1>5. now \in ApeRec /\ ApeLoad(now) /\ ApeLaunch(now) /\ ApeHeld(now) /\ ApeShows(now)
  BY DEF ApeInv, ApeGood
<1>6. /\ u \in ApeRec /\ ApeLoad(u) /\ ApeLaunch(u) /\ ApeHeld(u) /\ (~u.auraReleased => u.aura = 0)
  <2>1. CASE now.scene = "spinning"
    <3>1. now.bodyReleased BY <1>5, <2>1, ApeTypes DEF ApeHeld
    <3>2. b \in ApeRec /\ ApeRest(b, now) /\ ApeSameIntro(b, now) /\ ApeStood(b, now, now.persistent)
      BY <1>1, <1>5, <3>1, ApeLoopsAgain
    <3>3. now.persistent \in ApePersistent /\ (~now.auraReleased => now.aura = 0)
      BY <1>5, ApeTypes DEF ApeShows
    <3>4. ApeLoad(b) /\ ApeLaunch(b) /\ ApeHeld(b) /\ ApeShows(b) BY <1>5, <3>2, <3>3, ApeStandsAnew
    <3>5. ~b.auraReleased => b.aura = 0 BY <3>4 DEF ApeShows
    <3>6. u = b BY <1>2, <2>1
    <3>. QED BY <3>2, <3>4, <3>5, <3>6
  <2>2. CASE now.scene # "spinning"
    <3>1. u = now BY <1>2, <2>2
    <3>2. ~now.auraReleased => now.aura = 0 BY <1>5 DEF ApeShows
    <3>. QED BY <1>5, <3>1, <3>2
  <2>. QED BY <2>1, <2>2
<1>7. /\ w \in ApeRec
      /\ ApeLoad(w) /\ ApeLaunch(w) /\ ApeHeld(w) /\ ApePlays(w) /\ ApeClocks(w) /\ ApeShows(w)
      /\ ApeQuiet(w) /\ w.persistent = Ape!persistentFeatureVisualPlan(mode, rage)
  BY <1>3, <1>6, ApeProjects
<1>8. PICK y : y = now' OBVIOUS
<1>9. y \in ApeRec /\ ApeMoment(y, w, mode, "no") BY <1>4, <1>7, <1>8, ApeNames, ApeMoments
<1>10. /\ w.persistent.body =
            (IF mode = "EXPANSION" THEN "kq" ELSE IF mode = "OVERDRIVE" THEN "feature" ELSE "base")
       /\ Ape!characterWinPresentation(mode) =
            (IF mode = "EXPANSION" THEN "kq" ELSE IF mode = "OVERDRIVE" THEN "feature" ELSE "base")
  BY <1>7, ApeStances
<1>11. y.scene = "no" /\ y.persistent = w.persistent /\ y.mode = mode
  BY <1>9 DEF ApeMoment, ApeSameLook
<1>12. ApeStands(y) BY <1>10, <1>11 DEF ApeStands
<1>13. ApeGood(y) BY <1>7, <1>9, <1>12, ApeMovesOn
<1>. QED BY <1>8, <1>13 DEF ApeInv

\* The free spins are left behind their summary, and the reels shrink if they had grown.
LEMMA ApeLeaves ==
  ASSUME ApeInv, NEW rage \in 1..2, NEW shrinks \in BOOLEAN,
         Ape!beginFeatureExitAtSummaryHide(rage, shrinks)
  PROVE  ApeInv'
<1>1. PICK m : m = [now EXCEPT !.mode = "BASE"] OBVIOUS
<1>2. PICK w : w = Ape!Projected(m, "BASE", rage) OBVIOUS
<1>3. PICK x : x = [w EXCEPT !.scene = "leaving"] OBVIOUS
<1>4. now.launch = "over" /\ now' = IF shrinks THEN Ape!onReelStructure(x, "shrink") ELSE x
  BY <1>1, <1>2, <1>3, Zenon DEF Ape!beginFeatureExitAtSummaryHide, Ape!Playing
<1>5. now \in ApeRec /\ ApeLoad(now) /\ ApeLaunch(now) /\ ApeHeld(now) /\ ApeShows(now)
  BY DEF ApeInv, ApeGood
<1>6. m \in ApeRec /\ ApeMoment(m, now, "BASE", now.scene) BY <1>1, <1>5, ApeNames, ApeModes
<1>7. ApeSameIntro(m, now) /\ ApeSameLook(m, now) /\ ApeSameBody(m, now) /\ ApeSamePound(m, now)
  BY <1>6 DEF ApeMoment
<1>8. ApeLoad(m) BY <1>5, <1>6, <1>7 DEF ApeLoad, ApeMoment, ApeSameIntro
<1>9. ApeLaunch(m) BY <1>5, <1>6, <1>7 DEF ApeLaunch, ApeMoment, ApeSameIntro
<1>10. ApeHeld(m) BY <1>5, <1>6, <1>7 DEF ApeHeld, ApeMoment, ApeSameIntro, ApeSameBody, ApeSamePound
<1>11. ~m.auraReleased => m.aura = 0 BY <1>5, <1>7 DEF ApeShows, ApeSameIntro, ApeSameLook
<1>12. /\ w \in ApeRec /\ ApeRest(w, m)
       /\ ApeLoad(w) /\ ApeLaunch(w) /\ ApeHeld(w) /\ ApePlays(w) /\ ApeClocks(w) /\ ApeShows(w)
       /\ ApeQuiet(w) /\ w.persistent = Ape!persistentFeatureVisualPlan("BASE", rage)
  BY <1>2, <1>6, <1>8, <1>9, <1>10, <1>11, ApeNames, ApeProjects
<1>13. x \in ApeRec /\ ApeMoment(x, w, w.mode, "leaving") BY <1>3, <1>12, ApeNames, ApeScenesSet
<1>14. w.persistent.body = "base" /\ w.persistent.palette = "main" BY <1>12, ApeNames, ApeStances
<1>15. w.mode = "BASE" /\ w.launch = "over" BY <1>4, <1>6, <1>12 DEF ApeRest, ApeMoment
<1>16. /\ x.mode = "BASE" /\ x.scene = "leaving" /\ x.launch = "over"
       /\ x.persistent.body = "base" /\ x.persistent.palette = "main"
  BY <1>13, <1>14, <1>15 DEF ApeMoment, ApeSameLook
<1>17. ApeStands(x) BY <1>16 DEF ApeStands
<1>18. ApeGood(x) BY <1>12, <1>13, <1>15, <1>17, ApeMovesOn
<1>19. CASE shrinks
  <2>1. PICK y : y = Ape!onReelStructure(x, "shrink") OBVIOUS
  <2>2. ApeLoad(x) /\ ApeLaunch(x) /\ ApeShows(x) BY <1>18 DEF ApeGood
  <2>3. ApeGood(y) BY <1>13, <1>16, <2>1, <2>2, ApeReels
  <2>4. now' = y BY <1>4, <1>19, <2>1
  <2>. QED BY <2>3, <2>4 DEF ApeInv
<1>20. CASE ~shrinks
  <2>1. now' = x BY <1>4, <1>20
  <2>. QED BY <1>18, <2>1 DEF ApeInv
<1>. QED BY <1>19, <1>20

\* The exit is settled, and nothing of the feature is left on any track.
LEMMA ApeExits ==
  ASSUME ApeInv, Ape!exitFeatureMode
  PROVE  /\ ApeInv' /\ now'.palette = "main" /\ ~now'.overlay /\ now'.pound = -1
         /\ now'.bodyReleased => now'.body = Ape!Entry("idle", TRUE, "none")
<1>1. PICK k : k = Ape!cancelWheelChestPoundReentry(now) OBVIOUS
<1>2. PICK g : g = [k EXCEPT !.overlay = FALSE, !.body = Ape!NoClip, !.aura = 0, !.palette = "main"] OBVIOUS
<1>3. PICK w : w = Ape!applyPersistentPresentation(g) OBVIOUS
<1>4. /\ now \in ApeRec /\ ApeLoad(now) /\ ApeLaunch(now) /\ ApeHeld(now) /\ ApeStands(now)
      /\ ApeShows(now)
  BY DEF ApeInv, ApeGood
<1>5. now.scene = "leaving" BY DEF Ape!exitFeatureMode
<1>6. now.launch \in {"over", "gone"}
  <2>1. now.launch \in ApeLaunches BY <1>4, ApeTypes
  <2>. QED BY <1>4, <1>5, <2>1 DEF ApeLaunch, ApeLaunches
<1>7. now.art BY <1>4, <1>6, ApeTypes DEF ApeLoad
<1>8. now' = [w EXCEPT !.scene = "no"]
  BY <1>1, <1>2, <1>3, <1>7, Zenon DEF Ape!exitFeatureMode, Ape!settleFeatureExit
<1>9. k \in ApeRec /\ ApeRest(k, now) /\ ApeSameIntro(k, now) /\ ApeSameLook(k, now)
      /\ ApeSameBody(k, now) /\ ApeUnpounded(k)
  BY <1>1, <1>4, ApeCancels
<1>10. /\ Ape!NoClip \in ApeBody /\ ApeEntered(Ape!NoClip, "none", TRUE, "none", 0)
  <2>1. "none" \in ApeClips BY DEF ApeClips
  <2>. QED BY <2>1, ApeLoopEntry DEF Ape!NoClip
<1>11. 0 \in Ape!Auras /\ "main" \in Ape!Palettes BY DEF Ape!Auras, Ape!Palettes
<1>12. g \in ApeRec
  <2>1. [k EXCEPT !.overlay = FALSE, !.body = Ape!NoClip, !.aura = 0, !.palette = "main"] \in ApeRec
    BY <1>9, <1>10, <1>11, ApeFlags DEF ApeRec
  <2>. QED BY <1>2, <2>1
<1>13. /\ ApeRest(g, k) /\ ApeSameIntro(g, k) /\ ~g.overlay /\ g.body = Ape!NoClip /\ g.aura = 0
       /\ g.palette = "main" /\ g.persistent = k.persistent /\ g.idle = k.idle /\ g.frozen = k.frozen
       /\ g.pound = k.pound /\ g.owned = k.owned
  BY <1>2, <1>9 DEF ApeRec, ApeRest, ApeSameIntro
<1>14. ApeLoad(g) BY <1>4, <1>9, <1>13 DEF ApeLoad, ApeRest, ApeSameIntro
<1>15. ApeLaunch(g) BY <1>4, <1>9, <1>13 DEF ApeLaunch, ApeRest, ApeSameIntro
<1>16. ApeHeld(g)
  BY <1>4, <1>9, <1>10, <1>13
     DEF ApeHeld, ApeRest, ApeSameIntro, ApeSameBody, ApeUnpounded, ApeEntered
<1>17. w \in ApeRec /\ ApeRest(w, g) /\ ApeSameIntro(w, g) /\ ApeShown(w, g) BY <1>3, <1>12, ApePresents
<1>18. ApeStood(w, g, g.persistent) BY <1>17, Zenon DEF ApeShown, ApeStood
<1>19. g.persistent \in ApePersistent /\ (~g.auraReleased => g.aura = 0) BY <1>12, <1>13, ApeTypes
<1>20. /\ ApeLoad(w) /\ ApeLaunch(w) /\ ApeHeld(w) /\ ApePlays(w) /\ ApeClocks(w) /\ ApeShows(w)
       /\ ApeQuiet(w)
  BY <1>12, <1>14, <1>15, <1>16, <1>17, <1>18, <1>19, ApeStandsAnew
<1>21. PICK y : y = now' OBVIOUS
<1>22. y \in ApeRec /\ ApeMoment(y, w, w.mode, "no") BY <1>8, <1>17, <1>21, ApeNames, ApeScenesSet
<1>23. /\ now.mode = "BASE" /\ now.persistent.body = "base" /\ now.persistent.palette = "main"
  BY <1>4, <1>5 DEF ApeStands
<1>24. w.mode = "BASE" /\ w.persistent = now.persistent /\ g.art
  BY <1>7, <1>9, <1>13, <1>17, <1>23 DEF ApeRest, ApeShown, ApeSameLook
<1>25. y.mode = "BASE" /\ y.persistent = now.persistent /\ y.scene = "no"
  BY <1>22, <1>24 DEF ApeMoment, ApeSameLook
<1>26. ApeStands(y) BY <1>23, <1>25 DEF ApeStands, Ape!characterWinPresentation
<1>27. ApeGood(y) BY <1>17, <1>20, <1>22, <1>26, ApeMovesOn
<1>28. w.palette = "main" /\ ~w.overlay BY <1>9, <1>13, <1>17, <1>23, <1>24 DEF ApeShown, ApeSameLook
<1>29. w.pound = -1 /\ (w.bodyReleased => w.body = Ape!Entry("idle", TRUE, "none"))
  <2>1. CASE g.bodyReleased
    <3>1. ~g.intro BY <1>12, <1>15, <2>1, ApeTypes DEF ApeLaunch
    <3>2. ApeLooping(w) /\ ApeUnpounded(w) BY <1>17, <1>24, <2>1, <3>1 DEF ApeShown
    <3>3. w.body = Ape!Entry(Ape!LoopOf["base"], TRUE, "none") BY <1>23, <1>24, <3>2 DEF ApeLooping
    <3>. QED BY <3>2, <3>3, ApeLoops DEF ApeUnpounded
  <2>2. CASE ~g.bodyReleased
    <3>1. w.pound = -1 BY <1>9, <1>13, <1>17, <2>2 DEF ApeShown, ApeSamePound, ApeUnpounded
    <3>2. ~w.bodyReleased BY <1>17, <2>2 DEF ApeSameIntro
    <3>. QED BY <3>1, <3>2
  <2>. QED BY <2>1, <2>2
<1>30. /\ y.palette = "main" /\ ~y.overlay /\ y.pound = -1
       /\ y.bodyReleased => y.body = Ape!Entry("idle", TRUE, "none")
  BY <1>22, <1>28, <1>29 DEF ApeMoment, ApeSameLook, ApeSamePound, ApeSameBody, ApeSameIntro
<1>. QED BY <1>21, <1>27, <1>30 DEF ApeInv

\* The vault's level is shown as an aura of the character, at once or once it may be.
LEMMA ApeRage ==
  ASSUME ApeInv, NEW level \in 1..2, Ape!setRageAuraLevel(level)
  PROVE  ApeInv'
<1>1. PICK a : a = IF level > 1 THEN level ELSE 0 OBVIOUS
<1>2. PICK p : p = [now.persistent EXCEPT !.aura = a] OBVIOUS
<1>3. PICK u : u = [now EXCEPT !.persistent.aura = a] OBVIOUS
<1>4. now \in ApeRec /\ ApeInv BY DEF ApeInv, ApeGood
<1>5. u = [now EXCEPT !.persistent = p] BY <1>2, <1>3, <1>4 DEF ApeRec
<1>6. /\ now.launch = "over" /\ now.scene = "no"
      /\ now' = IF u.art /\ u.auraReleased THEN [u EXCEPT !.aura = u.persistent.aura] ELSE u
  <2>1. now.launch = "over" /\ now.scene = "no" /\ now' = Ape!setCharacterAuraLevel(now, a)
    BY <1>1, Zenon DEF Ape!setRageAuraLevel, Ape!Playing
  <2>2. now' = IF now.art /\ now.auraReleased THEN [u EXCEPT !.aura = u.persistent.aura] ELSE u
    BY <1>3, <2>1 DEF Ape!setCharacterAuraLevel, Ape!applyPersistentAura
  <2>3. u.art = now.art /\ u.auraReleased = now.auraReleased BY <1>4, <1>5 DEF ApeRec
  <2>. QED BY <2>1, <2>2, <2>3, Zenon
<1>7. a \in Ape!Auras BY <1>1 DEF Ape!Auras
<1>8. now.persistent \in ApePersistent BY <1>4, ApeTypes
<1>9. /\ p \in ApePersistent /\ p.aura = a /\ p.body = now.persistent.body
      /\ p.palette = now.persistent.palette
  BY <1>2, <1>7, <1>8 DEF ApePersistent
<1>10. /\ u \in ApeRec /\ ApeRest(u, now) /\ ApeSameIntro(u, now) /\ ApePersistentSet(u, now, p)
       /\ ApeSameBody(u, now) /\ ApeSamePound(u, now)
  BY <1>4, <1>5, <1>9, ApePersistents
<1>11. u.persistent = p /\ u.palette = now.palette /\ u.aura = now.aura BY <1>10 DEF ApePersistentSet
<1>12. now.art BY <1>4, <1>6, ApeTypes DEF ApeInv, ApeGood, ApeLoad
<1>13. u.art BY <1>10, <1>12 DEF ApeRest
<1>14. PICK y : y = now' OBVIOUS
<1>15. /\ y \in ApeRec /\ ApeRest(y, u) /\ ApeSameIntro(y, u) /\ ApeSameBody(y, u) /\ ApeSamePound(y, u)
       /\ y.palette = u.palette /\ y.persistent = p
       /\ y.aura = IF u.auraReleased THEN a ELSE u.aura
  <2>1. CASE u.auraReleased
    <3>1. y = [u EXCEPT !.aura = a] BY <1>6, <1>9, <1>11, <1>13, <1>14, <2>1
    <3>2. /\ y \in ApeRec /\ ApeRest(y, u) /\ ApeSameIntro(y, u) /\ ApeAuraSet(y, u, a)
          /\ ApeSameBody(y, u) /\ ApeSamePound(y, u)
      BY <1>7, <1>10, <3>1, ApeAuras
    <3>. QED BY <1>11, <2>1, <3>2 DEF ApeAuraSet
  <2>2. CASE ~u.auraReleased
    <3>1. y = u BY <1>6, <1>14, <2>2
    <3>. QED BY <1>10, <1>11, <2>2, <3>1 DEF ApeRest, ApeSameIntro, ApeSameBody, ApeSamePound
  <2>. QED BY <2>1, <2>2
<1>16. ApeRest(y, now) /\ ApeSameIntro(y, now) /\ ApeSameBody(y, now) /\ ApeSamePound(y, now)
  BY <1>10, <1>15 DEF ApeRest, ApeSameIntro, ApeSameBody, ApeSamePound
<1>17. ApeLoad(y) /\ ApeLaunch(y)
  BY <1>4, <1>16 DEF ApeInv, ApeGood, ApeLoad, ApeLaunch, ApeRest, ApeSameIntro
<1>18. ApeHeld(y) /\ ApePlays(y)
  BY <1>4, <1>9, <1>15, <1>16
     DEF ApeInv, ApeGood, ApeHeld, ApePlays, ApeRest, ApeSameIntro, ApeSameBody, ApeSamePound
<1>19. ApeClocks(y)
  BY <1>4, <1>9, <1>15, <1>16 DEF ApeInv, ApeGood, ApeClocks, ApeRest, ApeSameBody, ApeSamePound
<1>20. ApeStands(y)
  BY <1>4, <1>9, <1>15, <1>16 DEF ApeInv, ApeGood, ApeStands, ApeRest
<1>21. ApeShows(y)
  BY <1>4, <1>9, <1>10, <1>11, <1>15 DEF ApeInv, ApeGood, ApeShows, ApeRest, ApeSameIntro
<1>. QED BY <1>14, <1>15, <1>17, <1>18, <1>19, <1>20, <1>21 DEF ApeInv, ApeGood

\* A call that only concerns the artwork leaves the rest of the character as it is.
ApeApart(y, x) ==
  /\ y.launch = x.launch /\ y.at = x.at /\ y.calm = x.calm /\ y.reduced = x.reduced
  /\ y.mode = x.mode /\ y.scene = x.scene /\ y.art = x.art
  /\ ApeSameIntro(y, x) /\ ApeSameLook(y, x) /\ ApeSameBody(y, x) /\ ApeSamePound(y, x)

\* Such a call keeps the character in order if it keeps the artwork so.
LEMMA ApeStaysApart ==
  ASSUME NEW x, ApeGood(x), NEW y \in ApeRec, ApeApart(y, x), ApeLoad(y)
  PROVE  ApeGood(y)
<1>1. ApeSameIntro(y, x) /\ ApeSameLook(y, x) /\ ApeSameBody(y, x) /\ ApeSamePound(y, x)
  BY DEF ApeApart
<1>2. ApeLaunch(y) BY <1>1 DEF ApeGood, ApeLaunch, ApeApart, ApeSameIntro
<1>3. ApeHeld(y) BY <1>1 DEF ApeGood, ApeHeld, ApeApart, ApeSameIntro, ApeSameBody, ApeSamePound
<1>4. ApePlays(y)
  BY <1>1 DEF ApeGood, ApePlays, ApeApart, ApeSameIntro, ApeSameBody, ApeSameLook
<1>5. ApeClocks(y) BY <1>1 DEF ApeGood, ApeClocks, ApeApart, ApeSameBody, ApeSameLook, ApeSamePound
<1>6. ApeStands(y) BY <1>1 DEF ApeGood, ApeStands, ApeApart, ApeSameLook
<1>7. ApeShows(y) BY <1>1 DEF ApeGood, ApeShows, ApeApart, ApeSameLook, ApeSameIntro
<1>. QED BY <1>2, <1>3, <1>4, <1>5, <1>6, <1>7 DEF ApeGood

\* The artwork is asked for: both branches begin.
LEMMA ApeAsks ==
  ASSUME ApeInv, Ape!LoadArtwork
  PROVE  ApeInv'
<1>1. PICK y : y = now' OBVIOUS
<1>2. now \in ApeRec /\ ApeLoad(now) /\ ApeGood(now) BY DEF ApeInv, ApeGood
<1>3. /\ ~now.art /\ now.load = "no"
      /\ y = [now EXCEPT !.load = "pending", !.bitmap = "pending", !.authored = "pending"]
  BY <1>1 DEF Ape!LoadArtwork
<1>4. "pending" \in ApeLoads /\ "pending" \in ApeBranches BY DEF ApeLoads, ApeBranches
<1>5. y \in ApeRec BY <1>2, <1>3, <1>4 DEF ApeRec
<1>6. ApeApart(y, now)
  BY <1>2, <1>3 DEF ApeRec, ApeApart, ApeSameIntro, ApeSameLook, ApeSameBody, ApeSamePound
<1>7. y.load = "pending" /\ y.bitmap = "pending" /\ y.authored = "pending" /\ y.views = now.views
  BY <1>2, <1>3 DEF ApeRec
<1>8. ApeLoad(y) BY <1>2, <1>3, <1>6, <1>7 DEF ApeLoad, ApeApart, ApeSameIntro
<1>. QED BY <1>1, <1>2, <1>5, <1>6, <1>8, ApeStaysApart DEF ApeInv

\* The request for the artwork is aborted.
LEMMA ApeAborts ==
  ASSUME ApeInv, Ape!AbortLoad
  PROVE  ApeInv'
<1>1. PICK y : y = now' OBVIOUS
<1>2. now \in ApeRec /\ ApeLoad(now) /\ ApeGood(now) BY DEF ApeInv, ApeGood
<1>3. now.load = "pending" /\ y = [now EXCEPT !.load = "aborted"] BY <1>1 DEF Ape!AbortLoad
<1>4. "aborted" \in ApeLoads BY DEF ApeLoads
<1>5. y \in ApeRec BY <1>2, <1>3, <1>4 DEF ApeRec
<1>6. ApeApart(y, now)
  BY <1>2, <1>3 DEF ApeRec, ApeApart, ApeSameIntro, ApeSameLook, ApeSameBody, ApeSamePound
<1>7. y.load = "aborted" /\ y.authored = now.authored /\ y.views = now.views BY <1>2, <1>3 DEF ApeRec
<1>8. ApeLoad(y) BY <1>2, <1>3, <1>6, <1>7 DEF ApeLoad, ApeApart, ApeSameIntro
<1>. QED BY <1>1, <1>2, <1>5, <1>6, <1>8, ApeStaysApart DEF ApeInv

\* The bitmap of the character is there, or failed to load.
LEMMA ApeBitmap ==
  ASSUME ApeInv, NEW ok \in BOOLEAN, Ape!BitmapLoads(ok)
  PROVE  ApeInv'
<1>1. PICK y : y = now' OBVIOUS
<1>2. now \in ApeRec /\ ApeLoad(now) /\ ApeGood(now) BY DEF ApeInv, ApeGood
<1>3. PICK b : b = IF ok THEN "ok" ELSE "failed" OBVIOUS
<1>4. now.bitmap = "pending" /\ y = [now EXCEPT !.bitmap = b] BY <1>1, <1>3, Zenon DEF Ape!BitmapLoads
<1>5. b \in ApeBranches BY <1>3 DEF ApeBranches
<1>6. y \in ApeRec BY <1>2, <1>4, <1>5 DEF ApeRec
<1>7. ApeApart(y, now)
  BY <1>2, <1>4 DEF ApeRec, ApeApart, ApeSameIntro, ApeSameLook, ApeSameBody, ApeSamePound
<1>8. y.load = now.load /\ y.authored = now.authored /\ y.views = now.views BY <1>2, <1>4 DEF ApeRec
<1>9. now.load # "no" BY <1>2, <1>4 DEF ApeLoad
<1>10. ApeLoad(y) BY <1>2, <1>7, <1>8, <1>9 DEF ApeLoad, ApeApart, ApeSameIntro
<1>. QED BY <1>1, <1>2, <1>6, <1>7, <1>10, ApeStaysApart DEF ApeInv

\* The skeleton of the character is there, with its view, or failed to load.
LEMMA ApeAuthored ==
  ASSUME ApeInv, NEW ok \in BOOLEAN, Ape!AuthoredLoads(ok)
  PROVE  ApeInv'
<1>1. PICK y : y = now' OBVIOUS
<1>2. now \in ApeRec /\ ApeLoad(now) /\ ApeGood(now) BY DEF ApeInv, ApeGood
<1>3. PICK b : b = IF ok THEN "ok" ELSE "failed" OBVIOUS
<1>4. PICK n : n = IF ok THEN now.views + 1 ELSE now.views OBVIOUS
<1>5. now.authored = "pending" /\ y = [now EXCEPT !.authored = b, !.views = n]
  BY <1>1, <1>3, <1>4, Zenon DEF Ape!AuthoredLoads
<1>6. now.load # "no" BY <1>2, <1>5 DEF ApeLoad
<1>7. now.views = 0 BY <1>2, <1>5, <1>6 DEF ApeLoad
<1>8. b \in ApeBranches /\ n \in ApeViews /\ n = IF b = "ok" THEN 1 ELSE 0
  BY <1>3, <1>4, <1>7 DEF ApeBranches, ApeViews
<1>9. y \in ApeRec BY <1>2, <1>5, <1>8 DEF ApeRec
<1>10. ApeApart(y, now)
  BY <1>2, <1>5 DEF ApeRec, ApeApart, ApeSameIntro, ApeSameLook, ApeSameBody, ApeSamePound
<1>11. y.load = now.load /\ y.authored = b /\ y.views = n BY <1>2, <1>5 DEF ApeRec
<1>12. ApeLoad(y) BY <1>2, <1>6, <1>8, <1>10, <1>11 DEF ApeLoad, ApeApart, ApeSameIntro
<1>. QED BY <1>1, <1>2, <1>9, <1>10, <1>12, ApeStaysApart DEF ApeInv

\* The two branches are settled: the character is attached whole, or nothing is left of it.
LEMMA ApeSettles ==
  ASSUME ApeInv, NEW attaches \in BOOLEAN, Ape!performArtworkLoad(attaches)
  PROVE  ApeInv'
<1>1. PICK y : y = now' OBVIOUS
<1>2. now \in ApeRec /\ ApeLoad(now) /\ ApeLaunch(now) /\ ApeHeld(now) /\ ApeStands(now) /\ ApeShows(now)
  BY DEF ApeInv, ApeGood
<1>3. now.load # "no" /\ now.bitmap # "pending" /\ now.authored # "pending"
  BY DEF Ape!performArtworkLoad, Ape!Settled
<1>4. PICK n : n = IF now.authored = "ok" THEN now.views - 1 ELSE now.views OBVIOUS
<1>5. PICK o : o = Ape!LoadOver OBVIOUS
<1>6. o = [now EXCEPT !.load = "no", !.bitmap = "no", !.authored = "no"]
  BY <1>3, <1>5 DEF Ape!LoadOver
<1>7. "no" \in ApeLoads /\ "no" \in ApeBranches BY DEF ApeLoads, ApeBranches
<1>8. o \in ApeRec BY <1>2, <1>6, <1>7 DEF ApeRec
<1>9. /\ ApeApart(o, now) /\ o.load = "no" /\ o.bitmap = "no" /\ o.authored = "no" /\ o.views = now.views
  BY <1>2, <1>6 DEF ApeRec, ApeApart, ApeSameIntro, ApeSameLook, ApeSameBody, ApeSamePound
<1>10. ~now.art BY <1>2, <1>3 DEF ApeLoad
<1>11. now.launch = "before" /\ ~now.bodyReleased /\ ~now.intro /\ ~now.auraReleased
  BY <1>2, <1>10 DEF ApeLoad, ApeLaunch
<1>12. CASE now.load = "pending" /\ now.bitmap = "ok" /\ now.authored = "ok" /\ attaches
  <2>1. PICK e : e = [Ape!Entry("hidden", FALSE, "none") EXCEPT !.left = 0] OBVIOUS
  <2>2. PICK g : g = [o EXCEPT !.art = TRUE, !.body = e, !.intro = FALSE, !.elapsed = 0,
                               !.idle = Ape!Stopped, !.bodyReleased = FALSE, !.auraReleased = FALSE]
    OBVIOUS
  <2>3. y = Ape!applyPersistentPresentation(g)
    BY <1>1, <1>5, <1>12, <2>1, <2>2, Zenon DEF Ape!performArtworkLoad, Ape!Attached
  <2>4. e \in ApeBody /\ e.clip = "hidden" /\ e.queue = "none"
    <3>1. PICK h : h = Ape!Entry("hidden", FALSE, "none") OBVIOUS
    <3>2. "hidden" \in ApeClips /\ "none" \in ApeClips BY DEF ApeClips
    <3>3. h \in ApeBody /\ ApeEntered(h, "hidden", FALSE, "none", ClipFrames) BY <3>1, <3>2, ApeClipEntry
    <3>4. e = [h EXCEPT !.left = 0] /\ 0 \in ApeLefts
      BY <2>1, <3>1, CharacterAssumption DEF ApeLefts
    <3>. QED BY <3>3, <3>4 DEF ApeBody, ApeEntered
  <2>5. Ape!Stopped \in ApeIdle /\ 0 \in ApeFrames BY ApeParts, CharacterAssumption DEF ApeFrames
  <2>6. g \in ApeRec
    <3>1. [o EXCEPT !.art = TRUE, !.body = e, !.intro = FALSE, !.elapsed = 0, !.idle = Ape!Stopped,
                    !.bodyReleased = FALSE, !.auraReleased = FALSE] \in ApeRec
      BY <1>8, <2>4, <2>5, ApeFlags DEF ApeRec
    <3>. QED BY <2>2, <3>1
  <2>7. /\ g.art /\ g.body = e /\ ~g.intro /\ g.elapsed = 0 /\ g.idle = Ape!Stopped
        /\ ~g.bodyReleased /\ ~g.auraReleased /\ g.controlled = o.controlled
        /\ g.load = o.load /\ g.bitmap = o.bitmap /\ g.authored = o.authored /\ g.views = o.views
        /\ g.launch = o.launch /\ g.at = o.at /\ g.calm = o.calm /\ g.reduced = o.reduced
        /\ g.mode = o.mode /\ g.scene = o.scene /\ ApeSameLook(g, o) /\ ApeSamePound(g, o)
    BY <1>8, <2>2 DEF ApeRec, ApeSameLook, ApeSamePound
  <2>8. /\ o.launch = "before" /\ o.at = now.at /\ o.controlled = now.controlled /\ o.scene = now.scene
        /\ o.mode = now.mode /\ o.pound = now.pound /\ o.aura = now.aura /\ o.persistent = now.persistent
    BY <1>9, <1>11 DEF ApeApart, ApeSameIntro, ApeSameLook, ApeSamePound
  <2>9. ApeLoad(g)
    <3>1. now.views = 1 BY <1>2, <1>3, <1>12 DEF ApeLoad
    <3>. QED BY <1>9, <2>7, <3>1 DEF ApeLoad
  <2>10. ApeLaunch(g) BY <1>2, <1>11, <2>7, <2>8 DEF ApeLaunch
  <2>11. now.pound = -1 /\ now.scene = "no" /\ now.aura = 0
    BY <1>2, <1>11 DEF ApeHeld, ApeLaunch, ApeShows
  <2>12. ApeHeld(g) BY <2>4, <2>7, <2>8, <2>11 DEF ApeHeld, ApeSamePound
  <2>13. y \in ApeRec /\ ApeRest(y, g) /\ ApeSameIntro(y, g) /\ ApeShown(y, g) BY <2>3, <2>6, ApePresents
  <2>14. ApeStood(y, g, g.persistent) BY <2>13, Zenon DEF ApeShown, ApeStood
  <2>15. g.persistent \in ApePersistent /\ g.aura = 0
    BY <2>6, <2>7, <2>8, <2>11, ApeTypes DEF ApeSameLook
  <2>16. ApeLoad(y) /\ ApeLaunch(y) /\ ApeHeld(y) /\ ApePlays(y) /\ ApeClocks(y) /\ ApeShows(y)
    BY <2>6, <2>9, <2>10, <2>12, <2>13, <2>14, <2>15, ApeStandsAnew
  <2>17. y.mode = now.mode /\ y.scene = now.scene /\ y.persistent = now.persistent
    BY <2>7, <2>8, <2>13 DEF ApeRest, ApeShown, ApeSameLook
  <2>18. ApeStands(y) BY <1>2, <2>17 DEF ApeStands
  <2>. QED BY <1>1, <2>13, <2>16, <2>18 DEF ApeInv, ApeGood
<1>13. CASE ~(now.load = "pending" /\ now.bitmap = "ok" /\ now.authored = "ok" /\ attaches)
  <2>1. y = [o EXCEPT !.views = n]
    BY <1>1, <1>4, <1>5, <1>6, <1>9, <1>13, Zenon DEF Ape!performArtworkLoad
  <2>2. n = 0 BY <1>2, <1>3, <1>4 DEF ApeLoad
  <2>3. n \in ApeViews BY <2>2 DEF ApeViews
  <2>4. y \in ApeRec BY <1>8, <2>1, <2>3 DEF ApeRec
  <2>5. ApeApart(y, o)
    BY <1>8, <2>1 DEF ApeRec, ApeApart, ApeSameIntro, ApeSameLook, ApeSameBody, ApeSamePound
  <2>6. y.load = o.load /\ y.bitmap = o.bitmap /\ y.authored = o.authored /\ y.views = n
    BY <1>8, <2>1 DEF ApeRec
  <2>7. ApeApart(y, now)
    BY <1>9, <2>5 DEF ApeApart, ApeSameIntro, ApeSameLook, ApeSameBody, ApeSamePound
  <2>8. ApeLoad(y) BY <1>2, <1>9, <1>10, <2>2, <2>6, <2>7 DEF ApeLoad, ApeApart, ApeSameIntro
  <2>9. ApeGood(now) BY DEF ApeInv
  <2>10. ApeGood(y) BY <2>4, <2>7, <2>8, <2>9, ApeStaysApart
  <2>. QED BY <1>1, <2>10 DEF ApeInv
<1>. QED BY <1>12, <1>13

\* The page is closed: no clock of the character runs on.
LEMMA ApeDestroys ==
  ASSUME ApeInv, Ape!destroy
  PROVE  ApeInv'
<1>1. PICK y : y = now' OBVIOUS
<1>2. PICK c : c = Ape!cancelWheelChestPoundReentry(now) OBVIOUS
<1>3. PICK i : i = [c EXCEPT !.idle = Ape!Stopped] OBVIOUS
<1>4. now.launch # "gone" /\ now.art /\ y = [i EXCEPT !.launch = "gone"]
  BY <1>1, <1>2, <1>3, Zenon DEF Ape!destroy, Ape!cancelCharacterStateTasks
<1>5. now \in ApeRec /\ ApeGood(now) BY DEF ApeInv, ApeGood
<1>6. /\ c \in ApeRec /\ ApeRest(c, now) /\ ApeSameIntro(c, now) /\ ApeSameLook(c, now)
      /\ ApeSameBody(c, now) /\ ApeUnpounded(c)
  BY <1>2, <1>5, ApeCancels
<1>7. Ape!Stopped \in ApeIdle /\ "gone" \in ApeLaunches BY ApeParts DEF ApeLaunches
<1>8. i \in ApeRec /\ ApeRest(i, c) /\ ApeSameIntro(i, c) /\ ApeSameLook(i, c) /\ ApeIdled(i, c, Ape!Stopped)
  BY <1>3, <1>6, <1>7, ApeIdles
<1>9. y \in ApeRec BY <1>4, <1>7, <1>8 DEF ApeRec
<1>10. /\ y.launch = "gone" /\ ApeSameIntro(y, i) /\ ApeSameLook(y, i) /\ ApeSameBody(y, i)
       /\ ApeSamePound(y, i) /\ y.load = i.load /\ y.bitmap = i.bitmap /\ y.authored = i.authored
       /\ y.views = i.views /\ y.art = i.art /\ y.calm = i.calm /\ y.reduced = i.reduced
       /\ y.mode = i.mode /\ y.scene = i.scene
  BY <1>4, <1>8 DEF ApeRec, ApeSameIntro, ApeSameLook, ApeSameBody, ApeSamePound
<1>11. ApeSameIntro(y, now) /\ ApeSameLook(y, now) BY <1>6, <1>8, <1>10 DEF ApeSameIntro, ApeSameLook
<1>12. /\ y.load = now.load /\ y.bitmap = now.bitmap /\ y.authored = now.authored
       /\ y.views = now.views /\ y.art = now.art /\ y.mode = now.mode /\ y.scene = now.scene
       /\ y.calm = now.calm
  BY <1>6, <1>8, <1>10 DEF ApeRest
<1>13. y.body = now.body /\ y.idle = Ape!Stopped /\ y.pound = -1
  BY <1>6, <1>8, <1>10 DEF ApeSameBody, ApeIdled, ApeUnpounded, ApeSamePound
<1>14. ApeLoad(y) BY <1>4, <1>5, <1>11, <1>12 DEF ApeGood, ApeLoad, ApeSameIntro
<1>15. ApeLaunch(y) BY <1>5, <1>10, <1>11, <1>12 DEF ApeGood, ApeLaunch, ApeSameIntro
<1>16. ApeHeld(y) BY <1>5, <1>11, <1>12, <1>13 DEF ApeGood, ApeHeld, ApeSameIntro
<1>17. ApePlays(y) BY <1>10 DEF ApePlays
<1>18. ~y.idle.on BY <1>13, ApeParts
<1>19. ApeClocks(y) BY <1>13, <1>18 DEF ApeClocks
<1>20. ApeStands(y) /\ ApeShows(y)
  BY <1>5, <1>11, <1>12 DEF ApeGood, ApeStands, ApeShows, ApeSameIntro, ApeSameLook
<1>. QED BY <1>1, <1>9, <1>14, <1>15, <1>16, <1>17, <1>19, <1>20 DEF ApeInv, ApeGood

\* What moves the launch on and leaves the tracks alone.
ApeLaunched(y, x, launch, at) ==
  /\ y.load = x.load /\ y.bitmap = x.bitmap /\ y.authored = x.authored /\ y.views = x.views
  /\ y.art = x.art /\ y.launch = launch /\ y.at = at /\ y.calm = x.calm
  /\ y.reduced = x.reduced /\ y.mode = x.mode /\ y.scene = x.scene
  /\ ApeSameIntro(y, x) /\ ApeSameLook(y, x) /\ ApeSameBody(y, x) /\ ApeSamePound(y, x)

\* The launch and its timeline are set and nothing else.
LEMMA ApeLaunchSet ==
  ASSUME NEW x \in ApeRec, NEW launch \in ApeLaunches, NEW at \in ApeInstants, NEW y,
         \/ y = [x EXCEPT !.launch = launch, !.at = at]
         \/ at = x.at /\ y = [x EXCEPT !.launch = launch]
         \/ launch = x.launch /\ y = [x EXCEPT !.at = at]
  PROVE  y \in ApeRec /\ ApeLaunched(y, x, launch, at)
<1>1. CASE y = [x EXCEPT !.launch = launch, !.at = at]
  <2>1. y \in ApeRec BY <1>1 DEF ApeRec
  <2>. QED BY <1>1, <2>1 DEF ApeRec, ApeLaunched, ApeSameIntro, ApeSameLook, ApeSameBody, ApeSamePound
<1>2. CASE at = x.at /\ y = [x EXCEPT !.launch = launch]
  <2>1. y \in ApeRec BY <1>2 DEF ApeRec
  <2>. QED BY <1>2, <2>1 DEF ApeRec, ApeLaunched, ApeSameIntro, ApeSameLook, ApeSameBody, ApeSamePound
<1>3. CASE launch = x.launch /\ y = [x EXCEPT !.at = at]
  <2>1. y \in ApeRec BY <1>3 DEF ApeRec
  <2>. QED BY <1>3, <2>1 DEF ApeRec, ApeLaunched, ApeSameIntro, ApeSameLook, ApeSameBody, ApeSamePound
<1>. QED BY <1>1, <1>2, <1>3

\* A launch that moves on keeps tracks in order that are held or that loop.
LEMMA ApeLaunchesOn ==
  ASSUME NEW x \in ApeRec, NEW launch, NEW at, NEW y \in ApeRec, ApeLaunched(y, x, launch, at),
         ApeLoad(x), ApeHeld(x), ApeClocks(x), ApeStands(x), ApeShows(x),
         ~x.bodyReleased \/ ApePlays(x), x.launch # "gone", launch # "before", x.art, ApeLaunch(y)
  PROVE  ApeGood(y)
<1>1. ApeSameIntro(y, x) /\ ApeSameLook(y, x) /\ ApeSameBody(y, x) /\ ApeSamePound(y, x)
  BY DEF ApeLaunched
<1>2. ApeLoad(y) BY <1>1 DEF ApeLoad, ApeLaunched, ApeSameIntro
<1>3. ApeHeld(y) BY <1>1 DEF ApeHeld, ApeLaunched, ApeSameIntro, ApeSameBody, ApeSamePound
<1>4. ApePlays(y)
  BY <1>1 DEF ApePlays, ApeLaunched, ApeSameIntro, ApeSameBody, ApeSameLook
<1>5. ApeClocks(y) BY <1>1 DEF ApeClocks, ApeLaunched, ApeSameBody, ApeSameLook, ApeSamePound
<1>6. ApeStands(y) BY <1>1 DEF ApeStands, ApeLaunched, ApeSameLook
<1>7. ApeShows(y) BY <1>1 DEF ApeShows, ApeLaunched, ApeSameLook, ApeSameIntro
<1>. QED BY <1>2, <1>3, <1>4, <1>5, <1>6, <1>7 DEF ApeGood

\* What startAuthoredIntro makes of the tracks.
ApeIntroduced(y, x) ==
  /\ y.controlled /\ y.elapsed = 0 /\ ~y.bodyReleased /\ ~y.auraReleased /\ y.intro
  /\ y.idle = Ape!Stopped /\ y.aura = 0 /\ y.palette = x.palette /\ y.persistent = x.persistent
  /\ y.body.clip = "intro" /\ y.body.queue = "none" /\ y.pound = -1

\* startAuthoredIntro puts the launch clip on the body and takes the aura off.
LEMMA ApeIntroduces ==
  ASSUME NEW x \in ApeRec, NEW y, y = Ape!startAuthoredIntro(x)
  PROVE  y \in ApeRec /\ ApeRest(y, x) /\ ApeIntroduced(y, x)
<1>1. PICK c : c = Ape!cancelWheelChestPoundReentry(x) OBVIOUS
<1>2. PICK e : e = [Ape!Entry("intro", FALSE, "none") EXCEPT !.left = IntroFrames] OBVIOUS
<1>3. y = [c EXCEPT !.controlled = TRUE, !.elapsed = 0, !.bodyReleased = FALSE, !.auraReleased = FALSE,
                    !.intro = TRUE, !.idle = Ape!Stopped, !.aura = 0, !.body = e]
  BY <1>1, <1>2, Zenon DEF Ape!startAuthoredIntro
<1>4. e \in ApeBody /\ e.clip = "intro" /\ e.queue = "none"
  <2>1. PICK h : h = Ape!Entry("intro", FALSE, "none") OBVIOUS
  <2>2. "intro" \in ApeClips /\ "none" \in ApeClips BY DEF ApeClips
  <2>3. h \in ApeBody /\ ApeEntered(h, "intro", FALSE, "none", ClipFrames) BY <2>1, <2>2, ApeClipEntry
  <2>4. e = [h EXCEPT !.left = IntroFrames] /\ IntroFrames \in ApeLefts
    BY <1>2, <2>1, CharacterAssumption DEF ApeLefts
  <2>. QED BY <2>3, <2>4 DEF ApeBody, ApeEntered
<1>5. c \in ApeRec /\ ApeRest(c, x) /\ ApeSameLook(c, x) /\ ApeUnpounded(c) BY <1>1, ApeCancels
<1>6. Ape!Stopped \in ApeIdle /\ 0 \in ApeFrames /\ 0 \in Ape!Auras
  BY ApeParts, CharacterAssumption DEF ApeFrames, Ape!Auras
<1>7. y \in ApeRec
  <2>1. [c EXCEPT !.controlled = TRUE, !.elapsed = 0, !.bodyReleased = FALSE, !.auraReleased = FALSE,
                  !.intro = TRUE, !.idle = Ape!Stopped, !.aura = 0, !.body = e] \in ApeRec
    BY <1>4, <1>5, <1>6, ApeFlags DEF ApeRec
  <2>. QED BY <1>3, <2>1
<1>8. /\ ApeRest(y, c) /\ y.controlled /\ y.elapsed = 0 /\ ~y.bodyReleased /\ ~y.auraReleased /\ y.intro
      /\ y.idle = Ape!Stopped /\ y.aura = 0 /\ y.palette = c.palette /\ y.persistent = c.persistent
      /\ y.body = e /\ y.pound = c.pound
  BY <1>3, <1>5 DEF ApeRec, ApeRest
<1>9. ApeRest(y, x) BY <1>5, <1>8 DEF ApeRest
<1>10. ApeIntroduced(y, x) BY <1>4, <1>5, <1>8 DEF ApeIntroduced, ApeSameLook, ApeUnpounded
<1>. QED BY <1>7, <1>9, <1>10

\* The director cues the launch: its clip, unless it was built under reduced motion.
LEMMA ApeCues ==
  ASSUME ApeInv, Ape!cueIntro
  PROVE  ApeInv'
<1>1. PICK w : w = Ape!startAuthoredIntro(now) OBVIOUS
<1>2. PICK u : u = IF now.calm THEN now ELSE w OBVIOUS
<1>3. now.launch = "before" /\ now.art /\ now' = [u EXCEPT !.launch = "timeline"]
  BY <1>1, <1>2, Zenon DEF Ape!cueIntro
<1>4. /\ now \in ApeRec /\ ApeLoad(now) /\ ApeLaunch(now) /\ ApeHeld(now) /\ ApeClocks(now)
      /\ ApeStands(now) /\ ApeShows(now)
  BY DEF ApeInv, ApeGood
<1>5. /\ now.at = 0 /\ ~now.bodyReleased /\ ~now.auraReleased /\ now.scene = "no"
      /\ ~now.intro /\ ~now.controlled
  BY <1>3, <1>4 DEF ApeLaunch
<1>6. /\ u \in ApeRec /\ ApeLoad(u) /\ ApeHeld(u) /\ ApeClocks(u) /\ ApeStands(u) /\ ApeShows(u)
      /\ u.art /\ u.launch = "before" /\ ~u.bodyReleased /\ u.at = 0 /\ u.scene = "no"
      /\ u.calm = now.calm /\ ~u.auraReleased /\ (u.intro => u.elapsed = 0)
      /\ (now.calm => ~u.intro) /\ (~now.calm => u.intro /\ u.controlled)
  <2>1. CASE now.calm
    <3>1. u = now BY <1>2, <2>1
    <3>. QED BY <1>3, <1>4, <1>5, <2>1, <3>1
  <2>2. CASE ~now.calm
    <3>1. u = w BY <1>2, <2>2
    <3>2. u \in ApeRec /\ ApeRest(u, now) /\ ApeIntroduced(u, now) BY <1>1, <1>4, <3>1, ApeIntroduces
    <3>3. ApeLoad(u) BY <1>3, <1>4, <3>2 DEF ApeLoad, ApeRest
    <3>4. ApeHeld(u) BY <1>5, <3>2 DEF ApeHeld, ApeRest, ApeIntroduced
    <3>5. ~u.idle.on /\ u.pound = -1 BY <3>2, ApeParts DEF ApeIntroduced
    <3>6. ApeClocks(u) BY <3>5 DEF ApeClocks
    <3>7. ApeStands(u) BY <1>4, <3>2 DEF ApeStands, ApeRest, ApeIntroduced
    <3>8. ApeShows(u) BY <1>4, <3>2 DEF ApeShows, ApeRest, ApeIntroduced
    <3>. QED BY <1>3, <1>5, <2>2, <3>2, <3>3, <3>4, <3>6, <3>7, <3>8 DEF ApeRest, ApeIntroduced
  <2>. QED BY <2>1, <2>2
<1>7. PICK y : y = now' OBVIOUS
<1>8. "timeline" \in ApeLaunches /\ u.at \in ApeInstants BY <1>6, ApeTypes DEF ApeLaunches
<1>9. y \in ApeRec /\ ApeLaunched(y, u, "timeline", u.at) BY <1>3, <1>6, <1>7, <1>8, ApeLaunchSet
<1>10. ApeLaunch(y) BY <1>6, <1>9, CharacterAssumption DEF ApeLaunch, ApeLaunched, ApeSameIntro
<1>11. ApeGood(y) BY <1>6, <1>9, <1>10, ApeLaunchesOn
<1>. QED BY <1>7, <1>11 DEF ApeInv

\* What releaseAuthoredIntroAura makes of the tracks.
ApeAuraReleased(y, x) ==
  /\ y.auraReleased /\ y.intro = x.intro /\ y.elapsed = x.elapsed /\ y.controlled = x.controlled
  /\ y.bodyReleased = x.bodyReleased /\ y.overlay = x.overlay /\ y.palette = x.palette
  /\ y.persistent = x.persistent /\ (x.art => y.aura = x.persistent.aura)

\* releaseAuthoredIntroAura hands the aura to the stance, once.
LEMMA ApeReleasesAura ==
  ASSUME NEW x \in ApeRec, ApeShows(x), NEW y, y = Ape!releaseAuthoredIntroAura(x)
  PROVE  y \in ApeRec /\ ApeRest(y, x) /\ ApeAuraReleased(y, x) /\ ApeSameBody(y, x) /\ ApeSamePound(y, x)
<1>1. CASE x.auraReleased
  <2>1. y = x BY <1>1 DEF Ape!releaseAuthoredIntroAura
  <2>. QED BY <1>1, <2>1 DEF ApeRest, ApeAuraReleased, ApeSameBody, ApeSamePound, ApeShows
<1>2. CASE ~x.auraReleased
  <2>1. PICK u : u = [x EXCEPT !.auraReleased = TRUE] OBVIOUS
  <2>2. y = IF x.art THEN [u EXCEPT !.aura = u.persistent.aura] ELSE u
    BY <1>2, <2>1 DEF Ape!releaseAuthoredIntroAura, Ape!applyPersistentAura
  <2>3. u \in ApeRec BY <2>1, ApeFlags DEF ApeRec
  <2>4. /\ ApeRest(u, x) /\ ApeSameBody(u, x) /\ ApeSamePound(u, x) /\ u.auraReleased /\ u.intro = x.intro
        /\ u.elapsed = x.elapsed /\ u.controlled = x.controlled /\ u.bodyReleased = x.bodyReleased
        /\ ApeSameLook(u, x)
    BY <2>1 DEF ApeRec, ApeRest, ApeSameBody, ApeSamePound, ApeSameLook
  <2>5. CASE x.art
    <3>1. u.persistent.aura \in Ape!Auras BY <2>3, ApeTypes DEF ApePersistent
    <3>2. y = [u EXCEPT !.aura = u.persistent.aura] BY <2>2, <2>5
    <3>3. /\ y \in ApeRec /\ ApeRest(y, u) /\ ApeSameIntro(y, u)
          /\ ApeAuraSet(y, u, u.persistent.aura) /\ ApeSameBody(y, u) /\ ApeSamePound(y, u)
      BY <2>3, <3>1, <3>2, ApeAuras
    <3>4. ApeRest(y, x) /\ ApeSameBody(y, x) /\ ApeSamePound(y, x)
      BY <2>4, <3>3 DEF ApeRest, ApeSameBody, ApeSamePound
    <3>5. ApeAuraReleased(y, x)
      BY <2>4, <3>3 DEF ApeAuraReleased, ApeSameIntro, ApeAuraSet, ApeSameLook
    <3>. QED BY <3>3, <3>4, <3>5
  <2>6. CASE ~x.art
    <3>1. y = u BY <2>2, <2>6
    <3>. QED BY <2>3, <2>4, <2>6, <3>1 DEF ApeAuraReleased, ApeSameLook
  <2>. QED BY <2>5, <2>6
<1>. QED BY <1>1, <1>2

\* The cue of the controls releases the aura while the launch clip goes on.
LEMMA ApeHudReveals ==
  ASSUME ApeInv, Ape!cueHudReveal
  PROVE  ApeInv'
<1>1. PICK y : y = now' OBVIOUS
<1>2. now.launch = "timeline" /\ y = Ape!releaseAuthoredIntroAura(now) BY <1>1 DEF Ape!cueHudReveal
<1>3. now \in ApeRec /\ ApeGood(now) /\ ApeShows(now) BY DEF ApeInv, ApeGood
<1>4. y \in ApeRec /\ ApeRest(y, now) /\ ApeAuraReleased(y, now) /\ ApeSameBody(y, now) /\ ApeSamePound(y, now)
  BY <1>2, <1>3, ApeReleasesAura
<1>5. ApeLoad(y) BY <1>3, <1>4 DEF ApeGood, ApeLoad, ApeRest, ApeAuraReleased
<1>6. ApeLaunch(y) BY <1>2, <1>3, <1>4 DEF ApeGood, ApeLaunch, ApeRest, ApeAuraReleased
<1>7. ApeHeld(y)
  BY <1>3, <1>4 DEF ApeGood, ApeHeld, ApeRest, ApeAuraReleased, ApeSameBody, ApeSamePound
<1>8. ApePlays(y) BY <1>3, <1>4 DEF ApeGood, ApePlays, ApeRest, ApeAuraReleased, ApeSameBody
<1>9. ApeClocks(y)
  BY <1>3, <1>4 DEF ApeGood, ApeClocks, ApeRest, ApeAuraReleased, ApeSameBody, ApeSamePound
<1>10. ApeStands(y) BY <1>3, <1>4 DEF ApeGood, ApeStands, ApeRest, ApeAuraReleased
<1>11. now.art BY <1>2, <1>3, ApeTypes DEF ApeGood, ApeLoad
<1>12. ApeShows(y) BY <1>3, <1>4, <1>11 DEF ApeGood, ApeShows, ApeRest, ApeAuraReleased
<1>. QED BY <1>1, <1>4, <1>5, <1>6, <1>7, <1>8, <1>9, <1>10, <1>12 DEF ApeInv, ApeGood

\* What the end of the launch clip makes of the tracks: the body is released into its loop.
ApeFinished(y, x) ==
  /\ ~y.intro /\ y.bodyReleased /\ y.elapsed = IntroFrames /\ y.controlled = x.controlled
  /\ y.auraReleased = x.auraReleased /\ ApeSameLook(y, x) /\ ApeUnpounded(y) /\ ApeLooping(y)

\* finishCharacterIntroToLoop ends a launch clip that runs.
LEMMA ApeFinishes ==
  ASSUME NEW x \in ApeRec, x.art, x.intro, NEW y, y = Ape!finishCharacterIntroToLoop(x)
  PROVE  y \in ApeRec /\ ApeRest(y, x) /\ ApeFinished(y, x)
<1>1. PICK g : g = [x EXCEPT !.elapsed = IntroFrames, !.intro = FALSE, !.bodyReleased = TRUE] OBVIOUS
<1>2. y = Ape!applyPersistentBody(g) BY <1>1 DEF Ape!finishCharacterIntroToLoop
<1>3. IntroFrames \in ApeFrames BY CharacterAssumption DEF ApeFrames
<1>4. g \in ApeRec
  <2>1. [x EXCEPT !.elapsed = IntroFrames, !.intro = FALSE, !.bodyReleased = TRUE] \in ApeRec
    BY <1>3, ApeFlags DEF ApeRec
  <2>. QED BY <1>1, <2>1
<1>5. /\ ApeRest(g, x) /\ ApeSameLook(g, x) /\ g.elapsed = IntroFrames /\ ~g.intro /\ g.bodyReleased
      /\ g.controlled = x.controlled /\ g.auraReleased = x.auraReleased
  BY <1>1 DEF ApeRec, ApeRest, ApeSameLook
<1>6. g.art BY <1>5 DEF ApeRest
<1>7. /\ y \in ApeRec /\ ApeRest(y, g) /\ ApeSameIntro(y, g) /\ ApeSameLook(y, g) /\ ApeUnpounded(y)
      /\ ApeLooping(y)
  BY <1>2, <1>4, <1>5, <1>6, ApeAppliesBody
<1>8. ApeRest(y, x) BY <1>5, <1>7 DEF ApeRest
<1>9. ApeFinished(y, x) BY <1>5, <1>7 DEF ApeFinished, ApeSameIntro, ApeSameLook
<1>. QED BY <1>7, <1>8, <1>9

\* What a launch clip that is brought to its end makes of the tracks.
ApeBegun(y, x) ==
  /\ ~y.intro /\ y.bodyReleased /\ ~y.controlled /\ y.auraReleased /\ y.palette = x.palette
  /\ y.persistent = x.persistent /\ y.aura = x.persistent.aura /\ ApeUnpounded(y) /\ ApeLooping(y)

\* A launch clip that is brought to its end gives body and aura to the stance.
LEMMA ApeBegins ==
  ASSUME NEW x \in ApeRec, x.art, x.intro, ApeShows(x), NEW v, v = [x EXCEPT !.controlled = FALSE],
         NEW y, y = Ape!releaseAuthoredIntroAura(Ape!finishCharacterIntroToLoop(v))
  PROVE  y \in ApeRec /\ ApeRest(y, x) /\ ApeBegun(y, x)
<1>1. v \in ApeRec BY ApeFlags DEF ApeRec
<1>2. /\ ApeRest(v, x) /\ ApeSameLook(v, x) /\ ~v.controlled /\ v.intro
      /\ v.auraReleased = x.auraReleased
  BY DEF ApeRec, ApeRest, ApeSameLook
<1>3. v.art BY <1>2 DEF ApeRest
<1>4. PICK f : f = Ape!finishCharacterIntroToLoop(v) OBVIOUS
<1>5. f \in ApeRec /\ ApeRest(f, v) /\ ApeFinished(f, v) BY <1>1, <1>2, <1>3, <1>4, ApeFinishes
<1>6. ApeShows(f) BY <1>2, <1>5 DEF ApeShows, ApeRest, ApeSameLook, ApeFinished
<1>7. y = Ape!releaseAuthoredIntroAura(f) BY <1>4
<1>8. y \in ApeRec /\ ApeRest(y, f) /\ ApeAuraReleased(y, f) /\ ApeSameBody(y, f) /\ ApeSamePound(y, f)
  BY <1>5, <1>6, <1>7, ApeReleasesAura
<1>9. ApeRest(y, x) BY <1>2, <1>5, <1>8 DEF ApeRest
<1>10. f.art BY <1>3, <1>5 DEF ApeRest
<1>11. y.persistent = f.persistent /\ f.persistent = x.persistent
  BY <1>2, <1>5, <1>8 DEF ApeAuraReleased, ApeFinished, ApeSameLook
<1>12. ApeLooping(y) /\ ApeUnpounded(y)
  BY <1>5, <1>8, <1>11 DEF ApeLooping, ApeUnpounded, ApeFinished, ApeSameBody, ApeSamePound
<1>13. ApeBegun(y, x)
  BY <1>2, <1>5, <1>8, <1>10, <1>11, <1>12 DEF ApeBegun, ApeFinished, ApeAuraReleased, ApeSameLook
<1>. QED BY <1>8, <1>9, <1>13

\* Such an end keeps the character in order but for the launch, which its caller ends.
LEMMA ApeBegunWell ==
  ASSUME NEW x \in ApeRec, x.art, ApeLoad(x), ApeStands(x), ApeShows(x),
         NEW y \in ApeRec, ApeRest(y, x), ApeBegun(y, x)
  PROVE  /\ ApeLoad(y) /\ ApeHeld(y) /\ ApePlays(y) /\ ApeClocks(y) /\ ApeStands(y) /\ ApeShows(y)
         /\ y.art
<1>1. y.art /\ ApeLoad(y) BY DEF ApeLoad, ApeRest, ApeBegun
<1>2. ApeHeld(y) BY DEF ApeHeld, ApeBegun
<1>3. y.persistent = x.persistent /\ ApeLooping(y) /\ ApeUnpounded(y) BY DEF ApeBegun
<1>4. x.persistent.body \in Ape!Bodies BY ApeTypes DEF ApePersistent
<1>5. Ape!LoopOf[x.persistent.body] \in ApeClips BY <1>4, ApeLoops
<1>6. ApeEntered(y.body, Ape!LoopOf[x.persistent.body], TRUE, "none", 0)
  BY <1>3, <1>5, ApeLoopEntry DEF ApeLooping
<1>7. ApePlays(y) BY <1>3, <1>6 DEF ApePlays, ApeEntered
<1>8. y.idle.on => y.persistent.body = "base" BY <1>3, ApeParts DEF ApeLooping
<1>9. ApeClocks(y) BY <1>3, <1>6, <1>8, ApeLoops DEF ApeClocks, ApeUnpounded, ApeEntered
<1>10. ApeStands(y) BY <1>3 DEF ApeStands, ApeRest
<1>11. ApeShows(y) BY DEF ApeShows, ApeRest, ApeBegun
<1>. QED BY <1>1, <1>2, <1>7, <1>9, <1>10, <1>11

\* completeAuthoredIntro with the end of the timeline: a launch that is skipped shows the
\* character in its stance, one that ends by itself leaves its clip running.
LEMMA ApeCompletes ==
  ASSUME NEW x \in ApeRec, ApeGood(x), x.launch = "timeline", NEW skipped \in BOOLEAN,
         skipped \/ x.auraReleased, NEW c, c = Ape!completeAuthoredIntro(x, skipped),
         NEW y, y = [c EXCEPT !.launch = "over", !.at = 0]
  PROVE  ApeGood(y)
<1>1. PICK v : v = [x EXCEPT !.controlled = FALSE] OBVIOUS
<1>2. v \in ApeRec BY <1>1, ApeFlags DEF ApeRec
<1>3. /\ ApeRest(v, x) /\ ApeSameLook(v, x) /\ ApeSameBody(v, x) /\ ApeSamePound(v, x) /\ ~v.controlled
      /\ v.intro = x.intro /\ v.elapsed = x.elapsed /\ v.bodyReleased = x.bodyReleased
      /\ v.auraReleased = x.auraReleased
  BY <1>1 DEF ApeRec, ApeRest, ApeSameLook, ApeSameBody, ApeSamePound
<1>4. c = IF v.intro /\ skipped
          THEN Ape!releaseAuthoredIntroAura(Ape!finishCharacterIntroToLoop(v)) ELSE v
  BY <1>1, Zenon DEF Ape!completeAuthoredIntro
<1>5. ApeLoad(x) /\ ApeLaunch(x) /\ ApeHeld(x) /\ ApeStands(x) /\ ApeShows(x) BY DEF ApeGood
<1>6. x.art /\ ~x.bodyReleased
  <2>1. x.art BY <1>5, ApeTypes DEF ApeLoad
  <2>. QED BY <1>5, <2>1 DEF ApeLaunch
<1>7. "over" \in ApeLaunches /\ 0 \in ApeInstants BY CharacterAssumption DEF ApeLaunches, ApeInstants
<1>8. CASE x.intro /\ skipped
  <2>1. c = Ape!releaseAuthoredIntroAura(Ape!finishCharacterIntroToLoop(v)) BY <1>3, <1>4, <1>8
  <2>2. c \in ApeRec /\ ApeRest(c, x) /\ ApeBegun(c, x) BY <1>1, <1>5, <1>6, <1>8, <2>1, ApeBegins
  <2>3. /\ ApeLoad(c) /\ ApeHeld(c) /\ ApePlays(c) /\ ApeClocks(c) /\ ApeStands(c) /\ ApeShows(c)
        /\ c.art
    BY <1>5, <1>6, <2>2, ApeBegunWell
  <2>4. y \in ApeRec /\ ApeLaunched(y, c, "over", 0) BY <1>7, <2>2, ApeLaunchSet
  <2>5. ApeLaunch(y) BY <2>2, <2>4 DEF ApeLaunch, ApeLaunched, ApeSameIntro, ApeBegun
  <2>6. c.launch = "timeline" BY <2>2 DEF ApeRest
  <2>. QED BY <2>2, <2>3, <2>4, <2>5, <2>6, ApeLaunchesOn
<1>9. CASE ~(x.intro /\ skipped)
  <2>1. c = v BY <1>3, <1>4, <1>9
  <2>2. ApeLoad(v) /\ v.art BY <1>3, <1>5, <1>6 DEF ApeLoad, ApeRest
  <2>3. ApeHeld(v) BY <1>3, <1>5 DEF ApeHeld, ApeRest, ApeSameBody, ApeSamePound
  <2>4. ApeClocks(v)
    BY <1>3 DEF ApeGood, ApeClocks, ApeRest, ApeSameBody, ApeSamePound, ApeSameLook
  <2>5. ApeStands(v) /\ ApeShows(v) BY <1>3, <1>5 DEF ApeStands, ApeShows, ApeRest, ApeSameLook
  <2>6. y \in ApeRec /\ ApeLaunched(y, v, "over", 0) BY <1>2, <1>7, <2>1, ApeLaunchSet
  <2>7. x.calm \/ x.auraReleased BY <1>5, <1>9 DEF ApeLaunch
  <2>8. ApeLaunch(y)
    BY <1>3, <1>5, <2>6, <2>7 DEF ApeLaunch, ApeLaunched, ApeSameIntro, ApeRest
  <2>9. v.launch = "timeline" /\ ~v.bodyReleased BY <1>3, <1>6 DEF ApeRest
  <2>. QED BY <1>2, <2>2, <2>3, <2>4, <2>5, <2>6, <2>8, <2>9, ApeLaunchesOn
<1>. QED BY <1>8, <1>9

\* The launch is over, by its end or because it was skipped.
LEMMA ApeIntroOver ==
  ASSUME ApeInv, NEW skipped \in BOOLEAN, Ape!completeIntro(skipped)
  PROVE  ApeInv'
<1>1. PICK k : k = (skipped \/ now.calm) OBVIOUS
<1>2. PICK c : c = Ape!completeAuthoredIntro(now, k) OBVIOUS
<1>3. PICK y : y = now' OBVIOUS
<1>4. now.launch = "timeline" /\ y = [c EXCEPT !.launch = "over", !.at = 0]
  BY <1>1, <1>2, <1>3, Zenon DEF Ape!completeIntro
<1>5. k \in BOOLEAN BY <1>1
<1>6. k \/ now.auraReleased BY <1>1 DEF Ape!completeIntro
<1>7. now \in ApeRec /\ ApeGood(now) BY DEF ApeInv, ApeGood
<1>8. ApeGood(y) BY <1>2, <1>4, <1>5, <1>6, <1>7, ApeCompletes
<1>. QED BY <1>3, <1>8 DEF ApeInv

\* The preference alone changes.
ApePreferred(y, x, reduced) ==
  /\ y.load = x.load /\ y.bitmap = x.bitmap /\ y.authored = x.authored /\ y.views = x.views
  /\ y.art = x.art /\ y.launch = x.launch /\ y.at = x.at /\ y.calm = x.calm
  /\ y.reduced = reduced /\ y.mode = x.mode /\ y.scene = x.scene
  /\ ApeSameIntro(y, x) /\ ApeSameLook(y, x) /\ ApeSameBody(y, x)

\* A change of the preference keeps the character in order that no longer pounds.
LEMMA ApePreferring ==
  ASSUME NEW x, ApeGood(x), NEW reduced, NEW y \in ApeRec, ApePreferred(y, x, reduced),
         y.pound = -1 \/ (~reduced /\ ApeSamePound(y, x))
  PROVE  ApeGood(y)
<1>1. ApeSameIntro(y, x) /\ ApeSameLook(y, x) /\ ApeSameBody(y, x) BY DEF ApePreferred
<1>2. ApeLoad(y) BY <1>1 DEF ApeGood, ApeLoad, ApePreferred, ApeSameIntro
<1>3. ApeLaunch(y) BY <1>1 DEF ApeGood, ApeLaunch, ApePreferred, ApeSameIntro
<1>4. ApeHeld(y)
  BY <1>1 DEF ApeGood, ApeHeld, ApePreferred, ApeSameIntro, ApeSameBody, ApeSamePound
<1>5. ApePlays(y) BY <1>1 DEF ApeGood, ApePlays, ApePreferred, ApeSameIntro, ApeSameBody, ApeSameLook
<1>6. ApeClocks(y) BY <1>1 DEF ApeGood, ApeClocks, ApePreferred, ApeSameBody, ApeSameLook, ApeSamePound
<1>7. ApeStands(y) BY <1>1 DEF ApeGood, ApeStands, ApePreferred, ApeSameLook
<1>8. ApeShows(y) BY <1>1 DEF ApeGood, ApeShows, ApePreferred, ApeSameLook, ApeSameIntro
<1>. QED BY <1>2, <1>3, <1>4, <1>5, <1>6, <1>7, <1>8 DEF ApeGood

\* The preference for reduced motion changes: the launch is skipped, or its tail ended.
LEMMA ApePrefers ==
  ASSUME ApeInv, NEW matches \in BOOLEAN, Ape!handleReducedMotionPreference(matches)
  PROVE  ApeInv'
<1>1. PICK x : x = [now EXCEPT !.reduced = matches] OBVIOUS
<1>2. PICK u : u = Ape!cancelWheelChestPoundReentry(x) OBVIOUS
<1>3. PICK y : y = now' OBVIOUS
<1>4. now.launch # "gone"
      /\ y = IF ~matches THEN x
             ELSE IF now.launch = "timeline"
                  THEN [Ape!completeAuthoredIntro(u, TRUE) EXCEPT !.launch = "over", !.at = 0]
                  ELSE Ape!completeActiveCharacterIntroForReducedMotion(u)
  BY <1>1, <1>2, <1>3, Zenon DEF Ape!handleReducedMotionPreference
<1>5. now \in ApeRec /\ ApeGood(now) BY DEF ApeInv, ApeGood
<1>6. x \in ApeRec BY <1>1, <1>5 DEF ApeRec, ApeFlag
<1>7. ApePreferred(x, now, matches) /\ ApeSamePound(x, now)
  BY <1>1, <1>5 DEF ApeRec, ApePreferred, ApeSameIntro, ApeSameLook, ApeSameBody, ApeSamePound
<1>8. CASE ~matches
  <2>1. ApeGood(x) BY <1>5, <1>6, <1>7, <1>8, ApePreferring
  <2>. QED BY <1>3, <1>4, <1>8, <2>1 DEF ApeInv
<1>9. CASE matches
  <2>1. /\ u \in ApeRec /\ ApeRest(u, x) /\ ApeSameIntro(u, x) /\ ApeSameLook(u, x)
        /\ ApeSameBody(u, x) /\ ApeUnpounded(u)
    BY <1>2, <1>6, ApeCancels
  <2>2. ApePreferred(u, now, matches)
    BY <1>7, <2>1 DEF ApePreferred, ApeRest, ApeSameIntro, ApeSameLook, ApeSameBody
  <2>3. u.pound = -1 BY <2>1 DEF ApeUnpounded
  <2>4. ApeGood(u) BY <1>5, <2>1, <2>2, <2>3, ApePreferring
  <2>5. u.launch = now.launch BY <2>2 DEF ApePreferred
  <2>6. CASE now.launch = "timeline"
    <3>1. PICK c : c = Ape!completeAuthoredIntro(u, TRUE) OBVIOUS
    <3>2. y = [c EXCEPT !.launch = "over", !.at = 0] BY <1>4, <1>9, <2>6, <3>1
    <3>3. ApeGood(y) BY <2>1, <2>4, <2>5, <2>6, <3>1, <3>2, ApeCompletes
    <3>. QED BY <1>3, <3>3 DEF ApeInv
  <2>7. CASE now.launch # "timeline"
    <3>1. y = Ape!completeActiveCharacterIntroForReducedMotion(u) BY <1>4, <1>9, <2>7
    <3>2. CASE ~u.intro
      <4>1. y = u BY <3>1, <3>2 DEF Ape!completeActiveCharacterIntroForReducedMotion
      <4>. QED BY <1>3, <2>4, <4>1 DEF ApeInv
    <3>3. CASE u.intro
      <4>1. PICK v : v = [u EXCEPT !.controlled = FALSE] OBVIOUS
      <4>2. y = Ape!releaseAuthoredIntroAura(Ape!finishCharacterIntroToLoop(v))
        BY <3>1, <3>3, <4>1 DEF Ape!completeActiveCharacterIntroForReducedMotion
      <4>3. ApeLoad(u) /\ ApeLaunch(u) /\ ApeStands(u) /\ ApeShows(u) BY <2>4 DEF ApeGood
      <4>4. u.launch = "over"
        <5>1. u.launch \in ApeLaunches BY <2>1, ApeTypes
        <5>. QED BY <1>4, <2>5, <2>7, <3>3, <4>3, <5>1 DEF ApeLaunch, ApeLaunches
      <4>5. u.art BY <2>1, <4>3, <4>4, ApeTypes DEF ApeLoad
      <4>6. y \in ApeRec /\ ApeRest(y, u) /\ ApeBegun(y, u)
        BY <2>1, <3>3, <4>1, <4>2, <4>3, <4>5, ApeBegins
      <4>7. ApeLoad(y) /\ ApeHeld(y) /\ ApePlays(y) /\ ApeClocks(y) /\ ApeStands(y) /\ ApeShows(y)
        BY <2>1, <4>3, <4>5, <4>6, ApeBegunWell
      <4>8. ApeLaunch(y) BY <4>3, <4>4, <4>6 DEF ApeLaunch, ApeRest, ApeBegun
      <4>. QED BY <1>3, <4>6, <4>7, <4>8 DEF ApeInv, ApeGood
    <3>. QED BY <2>1, <3>2, <3>3, ApeTypes
  <2>. QED BY <2>6, <2>7
<1>. QED BY <1>8, <1>9

\* A frame of Spine on the body's clip, which reduced motion holds.
ApeMoved(y, x) ==
  /\ ApeSameIntro(y, x) /\ ApeSameLook(y, x) /\ ApeSamePound(y, x) /\ y.idle = x.idle
  /\ y.frozen = x.frozen /\ y.body.clip = x.body.clip /\ y.body.loop = x.body.loop
  /\ y.body.queue = x.body.queue
  /\ y.body.left = IF x.reduced \/ x.body.left = 0 THEN x.body.left ELSE x.body.left - 1

\* Moves counts the frames of the clip on the body.
LEMMA ApeMoves ==
  ASSUME NEW x \in ApeRec, NEW y, y = Ape!Moves(x)
  PROVE  y \in ApeRec /\ ApeRest(y, x) /\ ApeMoved(y, x)
<1>1. CASE x.reduced
  <2>1. y = x BY <1>1 DEF Ape!Moves
  <2>. QED BY <1>1, <2>1 DEF ApeRest, ApeMoved, ApeSameIntro, ApeSameLook, ApeSamePound
<1>2. CASE ~x.reduced
  <2>1. PICK n : n = IF x.body.left = 0 THEN 0 ELSE x.body.left - 1 OBVIOUS
  <2>2. PICK e : e = [x.body EXCEPT !.left = n] OBVIOUS
  <2>3. x.body \in ApeBody BY ApeTypes
  <2>4. x.body.left \in ApeLefts BY <2>3 DEF ApeBody
  <2>5. n \in ApeLefts BY <2>1, <2>4, CharacterAssumption DEF ApeLefts
  <2>6. e \in ApeBody /\ e.clip = x.body.clip /\ e.loop = x.body.loop /\ e.queue = x.body.queue /\ e.left = n
    BY <2>2, <2>3, <2>5 DEF ApeBody
  <2>7. y = [x EXCEPT !.body = e] BY <1>2, <2>1, <2>2 DEF Ape!Moves, ApeRec
  <2>8. y \in ApeRec BY <2>6, <2>7 DEF ApeRec
  <2>9. /\ ApeRest(y, x) /\ ApeSameIntro(y, x) /\ ApeSameLook(y, x) /\ ApeSamePound(y, x) /\ y.idle = x.idle
        /\ y.frozen = x.frozen /\ y.body = e
    BY <2>7 DEF ApeRec, ApeRest, ApeSameIntro, ApeSameLook, ApeSamePound
  <2>10. ApeMoved(y, x) BY <1>2, <2>1, <2>6, <2>9 DEF ApeMoved
  <2>. QED BY <2>8, <2>9, <2>10
<1>. QED BY <1>1, <1>2

\* The timeline seeks the launch clip, which is longer than it.
LEMMA ApeSeeks ==
  ASSUME ApeInv, Ape!seekAuthoredIntro
  PROVE  ApeInv'
<1>1. PICK x : x = [now EXCEPT !.at = now.at + 1] OBVIOUS
<1>2. PICK m : m = Ape!Moves(x) OBVIOUS
<1>3. PICK y : y = now' OBVIOUS
<1>4. /\ now.launch = "timeline" /\ now.at < IntroFrames - 1
      /\ y = IF now.controlled THEN Ape!advanceCharacterIntroTask(m) ELSE x
  BY <1>1, <1>2, <1>3, Zenon DEF Ape!seekAuthoredIntro
<1>5. /\ now \in ApeRec /\ ApeLoad(now) /\ ApeLaunch(now) /\ ApeHeld(now) /\ ApeClocks(now)
      /\ ApeStands(now) /\ ApeShows(now)
  BY DEF ApeInv, ApeGood
<1>6. ~now.bodyReleased /\ now.art BY <1>4, <1>5, ApeTypes DEF ApeLaunch, ApeLoad
<1>7. now.at \in Nat /\ now.at + 1 \in ApeInstants /\ now.elapsed \in Nat
  BY <1>4, <1>5, ApeTypes, CharacterAssumption DEF ApeInstants, ApeFrames
<1>8. PICK at : at = now.at + 1 OBVIOUS
<1>9. x \in ApeRec /\ ApeLaunched(x, now, "timeline", at)
  <2>1. now.launch \in ApeLaunches BY <1>5, ApeTypes
  <2>. QED BY <1>1, <1>4, <1>5, <1>7, <1>8, <2>1, ApeLaunchSet
<1>10. ApeLaunch(x)
  <2>1. ApeSameIntro(x, now) BY <1>9 DEF ApeLaunched
  <2>. QED BY <1>4, <1>5, <1>6, <1>7, <1>8, <1>9, <2>1 DEF ApeLaunch, ApeLaunched, ApeSameIntro
<1>11. ApeGood(x) BY <1>4, <1>5, <1>6, <1>9, <1>10, ApeLaunchesOn
<1>12. CASE ~now.controlled
  <2>1. y = x BY <1>4, <1>12
  <2>. QED BY <1>3, <1>11, <2>1 DEF ApeInv
<1>13. CASE now.controlled
  <2>1. m \in ApeRec /\ ApeRest(m, x) /\ ApeMoved(m, x) BY <1>2, <1>9, ApeMoves
  <2>2. ApeSameIntro(m, x) /\ ApeSameLook(m, x) /\ ApeSamePound(m, x) BY <2>1 DEF ApeMoved
  <2>3. ~x.bodyReleased /\ x.launch = "timeline" /\ x.elapsed = now.elapsed /\ x.at = at /\ x.intro = now.intro
    BY <1>6, <1>9 DEF ApeLaunched, ApeSameIntro
  <2>4. ApeLoad(m) /\ ApeHeld(m)
    BY <1>11, <2>1, <2>2
       DEF ApeGood, ApeLoad, ApeHeld, ApeRest, ApeSameIntro, ApeSamePound, ApeMoved
  <2>5. ApeLaunch(m) BY <1>11, <2>1, <2>2 DEF ApeGood, ApeLaunch, ApeRest, ApeSameIntro
  <2>6. ApeClocks(m)
    BY <1>11, <2>1, <2>2 DEF ApeGood, ApeClocks, ApeRest, ApeMoved, ApeSameLook, ApeSamePound
  <2>7. ApePlays(m) BY <2>2, <2>3 DEF ApePlays, ApeSameIntro
  <2>8. ApeStands(m) /\ ApeShows(m)
    BY <1>11, <2>1, <2>2 DEF ApeGood, ApeStands, ApeShows, ApeRest, ApeSameLook, ApeSameIntro
  <2>9. ApeGood(m) BY <2>1, <2>4, <2>5, <2>6, <2>7, <2>8 DEF ApeGood
  <2>10. CASE ~m.intro
    <3>1. y = m BY <1>4, <1>13, <2>10 DEF Ape!advanceCharacterIntroTask
    <3>. QED BY <1>3, <2>9, <3>1 DEF ApeInv
  <2>11. CASE m.intro
    <3>1. m.elapsed = now.elapsed /\ m.at = at /\ m.launch = "timeline" /\ ~m.calm
      BY <2>1, <2>2, <2>3, <2>5, <2>11 DEF ApeRest, ApeSameIntro, ApeLaunch
    <3>2. m.elapsed <= now.at
      <4>1. ~now.calm BY <1>9, <2>1, <3>1 DEF ApeRest, ApeLaunched
      <4>. QED BY <1>4, <1>5, <3>1, <4>1 DEF ApeLaunch
    <3>3. PICK n : n = m.elapsed + 1 OBVIOUS
    <3>4. n \in Nat /\ n <= at /\ n < IntroFrames /\ n \in ApeFrames
      BY <1>4, <1>7, <1>8, <3>1, <3>2, <3>3, CharacterAssumption DEF ApeFrames
    <3>5. PICK q : q = [m EXCEPT !.elapsed = n] OBVIOUS
    <3>6. q \in ApeRec BY <2>1, <3>4, <3>5 DEF ApeRec
    <3>7. /\ ApeRest(q, m) /\ ApeSameLook(q, m) /\ ApeSameBody(q, m) /\ ApeSamePound(q, m) /\ q.elapsed = n
          /\ q.intro = m.intro /\ q.controlled = m.controlled /\ q.bodyReleased = m.bodyReleased
          /\ q.auraReleased = m.auraReleased
      BY <2>1, <3>5 DEF ApeRec, ApeRest, ApeSameLook, ApeSameBody, ApeSamePound
    <3>8. y = q
      BY <1>4, <1>13, <2>11, <3>3, <3>4, <3>5, <3>7 DEF Ape!advanceCharacterIntroTask
    <3>9. ApeLoad(q) /\ ApeHeld(q)
      BY <2>9, <3>7 DEF ApeGood, ApeLoad, ApeHeld, ApeRest, ApeSameBody, ApeSamePound
    <3>10. ApeLaunch(q) BY <2>9, <3>1, <3>4, <3>7 DEF ApeGood, ApeLaunch, ApeRest
    <3>11. ApePlays(q) /\ ApeClocks(q)
      BY <2>9, <3>7 DEF ApeGood, ApePlays, ApeClocks, ApeRest, ApeSameLook, ApeSameBody, ApeSamePound
    <3>12. ApeStands(q) /\ ApeShows(q)
      BY <2>9, <3>7 DEF ApeGood, ApeStands, ApeShows, ApeRest, ApeSameLook
    <3>. QED BY <1>3, <3>6, <3>8, <3>9, <3>10, <3>11, <3>12 DEF ApeInv, ApeGood
  <2>. QED BY <2>1, <2>10, <2>11, ApeTypes
<1>. QED BY <1>5, <1>12, <1>13, ApeTypes

\* What Spine makes of the body in a frame: the clip moves on, or its queued loop begins.
ApeSpun(y, x) ==
  /\ ApeSameIntro(y, x) /\ ApeSameLook(y, x) /\ y.idle = x.idle /\ y.frozen = x.frozen
  /\ y.pound = x.pound
  /\ \/ ApeMoved(y, x)
     \/ /\ ~x.body.loop /\ x.body.queue # "none" /\ ~y.owned
        /\ ApeEntered(y.body, x.body.queue, TRUE, "none", 0)

\* SpineMoves is such a frame.
LEMMA ApeSpines ==
  ASSUME NEW x \in ApeRec, NEW y, y = Ape!SpineMoves(x)
  PROVE  y \in ApeRec /\ ApeRest(y, x) /\ ApeSpun(y, x)
<1>1. PICK m : m = Ape!Moves(x) OBVIOUS
<1>2. PICK e : e = Ape!Entry(m.body.queue, TRUE, "none") OBVIOUS
<1>3. y = IF m.body.loop \/ m.body.left > 0 \/ m.body.queue = "none" THEN m
          ELSE [m EXCEPT !.body = e, !.owned = FALSE]
  BY <1>1, <1>2, Zenon DEF Ape!SpineMoves
<1>4. m \in ApeRec /\ ApeRest(m, x) /\ ApeMoved(m, x) BY <1>1, ApeMoves
<1>5. ApeSameIntro(m, x) /\ ApeSameLook(m, x) /\ ApeSamePound(m, x) /\ m.idle = x.idle /\ m.frozen = x.frozen
  BY <1>4 DEF ApeMoved
<1>6. CASE m.body.loop \/ m.body.left > 0 \/ m.body.queue = "none"
  <2>1. y = m BY <1>3, <1>6
  <2>. QED BY <1>4, <1>5, <2>1 DEF ApeSpun, ApeSamePound
<1>7. CASE ~(m.body.loop \/ m.body.left > 0 \/ m.body.queue = "none")
  <2>1. y = [m EXCEPT !.body = e, !.owned = FALSE] BY <1>3, <1>7
  <2>2. m.body.queue \in ApeClips
    <3>1. m.body \in ApeBody BY <1>4, ApeTypes
    <3>. QED BY <3>1 DEF ApeBody
  <2>3. e \in ApeBody /\ ApeEntered(e, m.body.queue, TRUE, "none", 0) BY <1>2, <2>2, ApeLoopEntry
  <2>4. y \in ApeRec
    <3>1. [m EXCEPT !.body = e, !.owned = FALSE] \in ApeRec BY <1>4, <2>3, ApeFlags DEF ApeRec
    <3>. QED BY <2>1, <3>1
  <2>5. /\ ApeRest(y, m) /\ ApeSameIntro(y, m) /\ ApeSameLook(y, m) /\ y.idle = m.idle
        /\ y.frozen = m.frozen /\ y.pound = m.pound /\ ~y.owned /\ y.body = e
    BY <1>4, <2>1 DEF ApeRec, ApeRest, ApeSameIntro, ApeSameLook
  <2>6. ApeRest(y, x) /\ ApeSameIntro(y, x) /\ ApeSameLook(y, x)
    BY <1>4, <1>5, <2>5 DEF ApeRest, ApeSameIntro, ApeSameLook
  <2>7. ~x.body.loop /\ x.body.queue # "none" /\ m.body.queue = x.body.queue BY <1>4, <1>7 DEF ApeMoved
  <2>8. ApeEntered(y.body, x.body.queue, TRUE, "none", 0) BY <2>3, <2>5, <2>7
  <2>9. ApeSpun(y, x) BY <1>5, <2>5, <2>6, <2>7, <2>8 DEF ApeSpun, ApeSamePound
  <2>. QED BY <2>4, <2>6, <2>9
<1>. QED BY <1>6, <1>7

\* What the pounding's clock makes of the body: nothing, or another entry of the pounding.
ApePoundedOn(y, x) ==
  /\ ApeSameIntro(y, x) /\ ApeSameLook(y, x) /\ y.idle = x.idle
  /\ \/ /\ y.body = x.body /\ y.frozen = x.frozen
        /\ y.pound = -1 \/ (x.pound >= 0 /\ y.owned /\ ~x.reduced)
     \/ /\ x.pound >= 0 /\ y.owned /\ ~x.reduced
        /\ ApeEntered(y.body, "chest_pound", TRUE, "none", 0)

\* updateWheelChestPound is such a tick, and does nothing without a task.
LEMMA ApePoundTicks ==
  ASSUME NEW x \in ApeRec, NEW y, y = Ape!updateWheelChestPound(x)
  PROVE  y \in ApeRec /\ ApeRest(y, x) /\ ApePoundedOn(y, x) /\ (x.pound = -1 => y = x)
<1>1. x.pound \in ApePounds /\ x.owned \in BOOLEAN BY ApeTypes
<1>2. x.pound = -1 \/ x.pound >= 0 BY <1>1, CharacterAssumption DEF ApePounds
<1>3. CASE x.pound = -1
  <2>1. y = x BY <1>3 DEF Ape!updateWheelChestPound
  <2>. QED BY <1>3, <2>1 DEF ApeRest, ApePoundedOn, ApeSameIntro, ApeSameLook
<1>4. CASE x.pound >= 0
  <2>1. x.pound # -1 BY <1>4
  <2>2. CASE x.reduced \/ x.persistent.body # "feature" \/ ~x.owned
    <3>1. y = Ape!cancelWheelChestPoundReentry(x) BY <2>1, <2>2, Zenon DEF Ape!updateWheelChestPound
    <3>2. /\ y \in ApeRec /\ ApeRest(y, x) /\ ApeSameIntro(y, x) /\ ApeSameLook(y, x)
          /\ ApeSameBody(y, x) /\ ApeUnpounded(y)
      BY <3>1, ApeCancels
    <3>. QED BY <2>1, <3>2 DEF ApePoundedOn, ApeSameBody, ApeUnpounded
  <2>3. CASE ~(x.reduced \/ x.persistent.body # "feature" \/ ~x.owned)
    <3>1. CASE x.pound > 1
      <4>1. PICK n : n = x.pound - 1 OBVIOUS
      <4>2. y = [x EXCEPT !.pound = n] BY <2>1, <2>3, <3>1, <4>1, Zenon DEF Ape!updateWheelChestPound
      <4>3. n \in ApePounds BY <1>1, <3>1, <4>1, CharacterAssumption DEF ApePounds
      <4>4. y \in ApeRec BY <4>2, <4>3 DEF ApeRec
      <4>5. /\ ApeRest(y, x) /\ ApeSameIntro(y, x) /\ ApeSameLook(y, x) /\ ApeSameBody(y, x)
            /\ y.owned = x.owned
        BY <4>2 DEF ApeRec, ApeRest, ApeSameIntro, ApeSameLook, ApeSameBody
      <4>. QED BY <1>4, <2>1, <2>3, <4>4, <4>5 DEF ApePoundedOn, ApeSameBody
    <3>2. CASE ~(x.pound > 1)
      <4>1. PICK e : e = Ape!Entry("chest_pound", TRUE, "none") OBVIOUS
      <4>2. PICK p : p = Ape!Plays(x, e) OBVIOUS
      <4>3. y = [p EXCEPT !.pound = ClipFrames, !.owned = TRUE]
        BY <2>1, <2>3, <3>2, <4>1, <4>2, Zenon DEF Ape!updateWheelChestPound
      <4>4. e \in ApeBody /\ ApeEntered(e, "chest_pound", TRUE, "none", 0)
        <5>1. "chest_pound" \in ApeClips BY DEF ApeClips
        <5>. QED BY <4>1, <5>1, ApeLoopEntry
      <4>5. /\ p \in ApeRec /\ ApeRest(p, x) /\ ApeSameIntro(p, x) /\ ApeSameLook(p, x)
            /\ ApePlayed(p, x, e)
        BY <4>2, <4>4, ApePlaysEntry
      <4>6. ClipFrames \in ApePounds BY CharacterAssumption DEF ApePounds
      <4>7. y \in ApeRec
        <5>1. [p EXCEPT !.pound = ClipFrames, !.owned = TRUE] \in ApeRec
          BY <4>5, <4>6, ApeFlags DEF ApeRec
        <5>. QED BY <4>3, <5>1
      <4>8. ApeRest(y, p) /\ ApeSameIntro(y, p) /\ ApeSameLook(y, p) /\ ApeSameBody(y, p) /\ y.owned
        BY <4>3, <4>5 DEF ApeRec, ApeRest, ApeSameIntro, ApeSameLook, ApeSameBody
      <4>9. ApeRest(y, x) /\ ApeSameIntro(y, x) /\ ApeSameLook(y, x) /\ y.idle = x.idle /\ y.body = e
        BY <4>5, <4>8 DEF ApeRest, ApeSameIntro, ApeSameLook, ApeSameBody, ApePlayed
      <4>. QED BY <1>4, <2>1, <2>3, <4>4, <4>7, <4>8, <4>9 DEF ApePoundedOn
    <3>. QED BY <3>1, <3>2
  <2>. QED BY <2>2, <2>3
<1>. QED BY <1>2, <1>3, <1>4

\* Between Spine's frame and the idle clock's tick the clock is one frame behind.
ApeTicking(r) ==
  /\ (r.body.loop => r.body.queue = "none" /\ r.body.left = 0)
  /\ (r.body.loop => \/ r.body.clip = Ape!LoopOf[r.persistent.body]
                     \/ r.body.clip = "chest_pound" /\ r.scene = "spinning")
  /\ (~r.body.loop => r.body.queue \in {"none", Ape!LoopOf[r.persistent.body]})
  /\ (~r.body.loop /\ r.body.queue = "none" =>
        /\ r.idle.left > 0 /\ (r.frozen \/ r.idle.left - 1 = r.body.left)
        /\ \/ r.persistent.body = "base" /\ r.idle.toBase
           \/ r.persistent.body = "feature" /\ r.idle.toFeature)

\* A tick of the idle clock that only counts.
LEMMA ApeIdleCounts ==
  ASSUME NEW x \in ApeRec, ApeLoad(x), ApeLaunch(x), ApeStands(x), ApeShows(x), ApeClocks(x),
         x.bodyReleased, NEW i \in ApeIdle, i.on => x.idle.on, NEW y, y = [x EXCEPT !.idle = i],
         ApePlays(y)
  PROVE  ApeGood(y)
<1>1. y \in ApeRec /\ ApeRest(y, x) /\ ApeSameIntro(y, x) /\ ApeSameLook(y, x) /\ ApeIdled(y, x, i)
  BY ApeIdles
<1>2. ApeLoad(y) BY <1>1 DEF ApeLoad, ApeRest, ApeSameIntro
<1>3. ApeLaunch(y) BY <1>1 DEF ApeLaunch, ApeRest, ApeSameIntro
<1>4. ApeHeld(y) BY <1>1 DEF ApeHeld, ApeSameIntro
<1>5. ApeClocks(y) BY <1>1 DEF ApeClocks, ApeRest, ApeIdled, ApeSameLook
<1>6. ApeStands(y) /\ ApeShows(y) BY <1>1 DEF ApeStands, ApeShows, ApeRest, ApeSameLook, ApeSameIntro
<1>. QED BY <1>1, <1>2, <1>3, <1>4, <1>5, <1>6 DEF ApeGood

\* applyPersistentBody brings a released body back to its loop, and all is in order.
LEMMA ApeBack ==
  ASSUME NEW x \in ApeRec, ApeLoad(x), ApeLaunch(x), ApeStands(x), ApeShows(x), x.bodyReleased,
         NEW y, y = Ape!applyPersistentBody(x)
  PROVE  ApeGood(y)
<1>1. /\ y \in ApeRec /\ ApeRest(y, x) /\ ApeSameIntro(y, x) /\ ApeStood(y, x, x.persistent)
      /\ ApeSameLook(y, x)
  BY ApeLoopsAgain
<1>2. ApeHeld(x) BY DEF ApeHeld
<1>3. x.persistent \in ApePersistent /\ (~x.auraReleased => x.aura = 0) BY ApeTypes DEF ApeShows
<1>4. ApeLoad(y) /\ ApeLaunch(y) /\ ApeHeld(y) /\ ApePlays(y) /\ ApeClocks(y) /\ ApeShows(y)
  BY <1>1, <1>2, <1>3, ApeStandsAnew
<1>5. ApeStands(y) BY <1>1 DEF ApeStands, ApeRest, ApeSameLook
<1>. QED BY <1>1, <1>4, <1>5 DEF ApeGood

\* A breaker takes the body from the base loop, and the clock hands it back.
LEMMA ApeBreaks ==
  ASSUME NEW x \in ApeRec, ApeLoad(x), ApeLaunch(x), ApeStands(x), ApeShows(x), x.bodyReleased,
         x.persistent.body = "base", NEW breaker \in Ape!Breakers, NEW y,
         y = Ape!StartBreaker(x, breaker)
  PROVE  ApeGood(y)
<1>1. PICK c : c = Ape!cancelWheelChestPoundReentry(x) OBVIOUS
<1>2. PICK e : e = Ape!Entry(breaker, FALSE, "none") OBVIOUS
<1>3. PICK p : p = Ape!Plays(c, e) OBVIOUS
<1>4. PICK i : i = [Ape!Stopped EXCEPT !.left = ClipFrames, !.toBase = TRUE] OBVIOUS
<1>5. y = [p EXCEPT !.idle = i] BY <1>1, <1>2, <1>3, <1>4, Zenon DEF Ape!StartBreaker
<1>6. ClipFrames \in 0..ClipFrames /\ ClipFrames > 0 BY CharacterAssumption
<1>7. i \in ApeIdle /\ ~i.on /\ i.left = ClipFrames /\ i.toBase
  BY <1>4, <1>6, ApeParts DEF ApeIdle
<1>8. e \in ApeBody /\ ApeEntered(e, breaker, FALSE, "none", ClipFrames)
  <2>1. breaker \in ApeClips /\ "none" \in ApeClips BY DEF ApeClips, Ape!Breakers
  <2>. QED BY <1>2, <2>1, ApeClipEntry
<1>9. c \in ApeRec /\ ApeRest(c, x) /\ ApeSameIntro(c, x) /\ ApeSameLook(c, x) /\ ApeUnpounded(c)
  BY <1>1, ApeCancels
<1>10. p \in ApeRec /\ ApeRest(p, c) /\ ApeSameIntro(p, c) /\ ApeSameLook(p, c) /\ ApePlayed(p, c, e)
  BY <1>3, <1>8, <1>9, ApePlaysEntry
<1>11. y \in ApeRec /\ ApeRest(y, p) /\ ApeSameIntro(y, p) /\ ApeSameLook(y, p) /\ ApeIdled(y, p, i)
  BY <1>5, <1>7, <1>10, ApeIdles
<1>12. ApeRest(y, x) /\ ApeSameIntro(y, x) /\ ApeSameLook(y, x)
  BY <1>9, <1>10, <1>11 DEF ApeRest, ApeSameIntro, ApeSameLook
<1>13. y.body = e /\ y.idle = i /\ y.pound = -1
  BY <1>9, <1>10, <1>11 DEF ApePlayed, ApeIdled, ApeUnpounded
<1>14. ApeLoad(y) BY <1>12 DEF ApeLoad, ApeRest, ApeSameIntro
<1>15. ApeLaunch(y) BY <1>12 DEF ApeLaunch, ApeRest, ApeSameIntro
<1>16. ApeHeld(y) BY <1>12 DEF ApeHeld, ApeSameIntro
<1>17. y.persistent.body = "base" BY <1>12 DEF ApeSameLook
<1>18. ApePlays(y) BY <1>6, <1>7, <1>8, <1>13, <1>17 DEF ApePlays, ApeEntered
<1>19. ApeClocks(y) BY <1>7, <1>13 DEF ApeClocks
<1>20. ApeStands(y) /\ ApeShows(y)
  BY <1>12 DEF ApeStands, ApeShows, ApeRest, ApeSameLook, ApeSameIntro
<1>. QED BY <1>11, <1>14, <1>15, <1>16, <1>18, <1>19, <1>20 DEF ApeGood

\* A tick of the idle clock after Spine's frame: it counts, hands the body over with the
\* clip's last frame, or starts a breaker.
LEMMA ApeIdleTicks ==
  ASSUME NEW z \in ApeRec, ApeLoad(z), ApeLaunch(z), ApeStands(z), ApeShows(z), ApeClocks(z),
         ApeTicking(z), z.bodyReleased, z.launch = "over", NEW breaker \in Ape!Breakers, NEW y,
         y = Ape!updateCharacterIdle(z, breaker)
  PROVE  ApeGood(y)
<1>1. PICK n : n = z.idle.left - 1 OBVIOUS
<1>2. PICK m : m = z.idle.elapsed + 1 OBVIOUS
<1>3. PICK i : i = [z.idle EXCEPT !.left = n] OBVIOUS
<1>4. PICK j : j = [z.idle EXCEPT !.elapsed = m] OBVIOUS
<1>5. PICK t : t = [z EXCEPT !.idle = i] OBVIOUS
<1>6. PICK pending \in BOOLEAN :
        pending = (z.persistent.body = "feature" /\ z.idle.left > 0 /\ z.idle.toFeature)
  OBVIOUS
<1>7. z.idle \in ApeIdle BY ApeTypes
<1>8. /\ z.idle.left \in 0..ClipFrames /\ z.idle.elapsed \in 0..(ClipFrames - 1) /\ ClipFrames \in Nat
      /\ z.idle.on \in BOOLEAN
  BY <1>7, CharacterAssumption DEF ApeIdle
<1>9. [z EXCEPT !.idle.left = @ - 1] = t BY <1>1, <1>3, <1>5 DEF ApeRec
<1>10. [z EXCEPT !.idle.elapsed = @ + 1] = [z EXCEPT !.idle = j] BY <1>2, <1>4 DEF ApeRec
<1>11. y = IF ~z.bodyReleased \/ (z.persistent.body # "base" /\ ~pending) THEN z
           ELSE IF z.idle.left > 0
                THEN IF t.idle.left = 0 /\ (t.idle.toBase \/ t.idle.toFeature)
                     THEN Ape!applyPersistentBody(t) ELSE t
           ELSE IF z.reduced \/ ~z.idle.on THEN z
           ELSE IF z.idle.elapsed + 1 < ClipFrames THEN [z EXCEPT !.idle.elapsed = @ + 1]
           ELSE Ape!StartBreaker(z, breaker)
  BY <1>6, <1>9, Zenon DEF Ape!updateCharacterIdle
<1>12. ApePlays(z) => ApeGood(z) BY DEF ApeGood, ApeHeld
<1>13. CASE z.persistent.body # "base" /\ ~pending
  <2>1. y = z BY <1>11, <1>13
  <2>2. ApePlays(z) BY <1>6, <1>13 DEF ApePlays, ApeTicking
  <2>. QED BY <1>12, <2>1, <2>2
<1>14. CASE ~(z.persistent.body # "base" /\ ~pending) /\ z.idle.left > 0
  <2>1. n \in 0..ClipFrames BY <1>1, <1>8, <1>14
  <2>2. /\ i \in ApeIdle /\ i.left = n /\ i.on = z.idle.on /\ i.toBase = z.idle.toBase
        /\ i.toFeature = z.idle.toFeature
    BY <1>3, <1>7, <2>1 DEF ApeIdle
  <2>3. /\ t \in ApeRec /\ ApeRest(t, z) /\ ApeSameIntro(t, z) /\ ApeSameLook(t, z)
        /\ ApeIdled(t, z, i)
    BY <1>5, <2>2, ApeIdles
  <2>4. t.idle = i /\ t.body = z.body /\ t.frozen = z.frozen BY <2>3 DEF ApeIdled
  <2>5. t.persistent = z.persistent /\ t.bodyReleased BY <2>3 DEF ApeSameLook, ApeSameIntro
  <2>6. CASE i.left = 0 /\ (i.toBase \/ i.toFeature)
    <3>1. y = Ape!applyPersistentBody(t) BY <1>11, <1>14, <2>4, <2>6
    <3>2. ApeLoad(t) BY <2>3 DEF ApeLoad, ApeRest, ApeSameIntro
    <3>3. ApeLaunch(t) BY <2>3 DEF ApeLaunch, ApeRest, ApeSameIntro
    <3>4. ApeStands(t) /\ ApeShows(t)
      BY <2>3 DEF ApeStands, ApeShows, ApeRest, ApeSameLook, ApeSameIntro
    <3>. QED BY <2>3, <2>5, <3>1, <3>2, <3>3, <3>4, ApeBack
  <2>7. CASE ~(i.left = 0 /\ (i.toBase \/ i.toFeature))
    <3>1. y = t BY <1>11, <1>14, <2>4, <2>7
    <3>2. ~t.body.loop /\ t.body.queue = "none" =>
            /\ i.left > 0 /\ (t.frozen \/ i.left = t.body.left)
            /\ \/ t.persistent.body = "base" /\ i.toBase
               \/ t.persistent.body = "feature" /\ i.toFeature
      <4>1. SUFFICES ASSUME ~t.body.loop, t.body.queue = "none"
                     PROVE  /\ i.left > 0 /\ (t.frozen \/ i.left = t.body.left)
                            /\ \/ t.persistent.body = "base" /\ i.toBase
                               \/ t.persistent.body = "feature" /\ i.toFeature
        OBVIOUS
      <4>2. /\ z.frozen \/ n = z.body.left
            /\ \/ z.persistent.body = "base" /\ z.idle.toBase
               \/ z.persistent.body = "feature" /\ z.idle.toFeature
        BY <1>1, <2>4, <4>1 DEF ApeTicking
      <4>3. \/ t.persistent.body = "base" /\ i.toBase
            \/ t.persistent.body = "feature" /\ i.toFeature
        BY <2>2, <2>5, <4>2
      <4>4. i.left # 0 BY <2>7, <4>3
      <4>5. i.left > 0 BY <1>8, <2>1, <2>2, <4>4
      <4>. QED BY <2>2, <2>4, <4>2, <4>3, <4>5
    <3>3. t.scene = z.scene BY <2>3 DEF ApeRest
    <3>4. ApePlays(t) BY <2>4, <2>5, <3>2, <3>3 DEF ApePlays, ApeTicking
    <3>. QED BY <1>5, <2>2, <3>1, <3>4, ApeIdleCounts
  <2>. QED BY <2>6, <2>7
<1>15. CASE ~(z.persistent.body # "base" /\ ~pending) /\ ~(z.idle.left > 0)
  <2>1. ApePlays(z) BY <1>15 DEF ApePlays, ApeTicking
  <2>2. CASE z.reduced \/ ~z.idle.on
    <3>1. y = z BY <1>11, <1>15, <2>2
    <3>. QED BY <1>12, <2>1, <3>1
  <2>3. CASE ~(z.reduced \/ ~z.idle.on) /\ z.idle.elapsed + 1 < ClipFrames
    <3>1. y = [z EXCEPT !.idle = j] BY <1>10, <1>11, <1>15, <2>3
    <3>2. m \in 0..(ClipFrames - 1) BY <1>2, <1>8, <2>3
    <3>3. /\ j \in ApeIdle /\ j.left = z.idle.left /\ j.on = z.idle.on /\ j.toBase = z.idle.toBase
          /\ j.toFeature = z.idle.toFeature
      BY <1>4, <1>7, <3>2 DEF ApeIdle
    <3>4. /\ y \in ApeRec /\ ApeRest(y, z) /\ ApeSameIntro(y, z) /\ ApeSameLook(y, z)
          /\ ApeIdled(y, z, j)
      BY <3>1, <3>3, ApeIdles
    <3>5. ApePlays(y)
      BY <2>1, <3>3, <3>4 DEF ApePlays, ApeIdled, ApeSameLook, ApeSameIntro, ApeRest
    <3>. QED BY <3>1, <3>3, <3>5, ApeIdleCounts
  <2>4. CASE ~(z.reduced \/ ~z.idle.on) /\ ~(z.idle.elapsed + 1 < ClipFrames)
    <3>1. y = Ape!StartBreaker(z, breaker) BY <1>11, <1>15, <2>4
    <3>2. z.persistent.body = "base" BY <1>6, <1>15
    <3>. QED BY <3>1, <3>2, ApeBreaks
  <2>. QED BY <2>2, <2>3, <2>4
<1>. QED BY <1>13, <1>14, <1>15

\* What a frame of Spine leaves to the two clocks of a body that is released.
LEMMA ApeSpinsOn ==
  ASSUME NEW x \in ApeRec, ApeGood(x), x.bodyReleased, x.launch = "over",
         NEW w \in ApeRec, ApeRest(w, x), ApeSameIntro(w, x), ApeSameLook(w, x), ApeSamePound(w, x),
         w.body = x.body, w.idle = x.idle, w.frozen = (x.frozen \/ x.reduced),
         NEW y \in ApeRec, ApeRest(y, w), ApeSpun(y, w)
  PROVE  ApeTicking(y) /\ ApeClocks(y) /\ ApeRest(y, x) /\ ApeSameIntro(y, x) /\ ApeSameLook(y, x)
<1>1. ApeRest(y, x) /\ ApeSameIntro(y, x) /\ ApeSameLook(y, x)
  BY DEF ApeSpun, ApeRest, ApeSameIntro, ApeSameLook
<1>2. y.persistent = x.persistent /\ y.scene = x.scene /\ y.reduced = x.reduced /\ w.reduced = x.reduced
  BY <1>1 DEF ApeRest, ApeSameLook
<1>3. y.idle = x.idle /\ y.frozen = w.frozen /\ y.pound = x.pound BY DEF ApeSpun, ApeSamePound
<1>4. ApePlays(x) /\ ApeClocks(x) BY DEF ApeGood
<1>5. x.body \in ApeBody /\ x.idle \in ApeIdle /\ x.frozen \in BOOLEAN /\ x.reduced \in BOOLEAN BY ApeTypes
<1>6. x.body.left \in Nat /\ x.body.loop \in BOOLEAN /\ x.idle.left \in Nat
  BY <1>5, CharacterAssumption DEF ApeBody, ApeLefts, ApeIdle
<1>7. CASE ApeMoved(y, w)
  <2>1. /\ y.body.clip = x.body.clip /\ y.body.loop = x.body.loop /\ y.body.queue = x.body.queue
        /\ y.body.left = IF x.reduced \/ x.body.left = 0 THEN x.body.left ELSE x.body.left - 1
        /\ y.owned = x.owned
    BY <1>2, <1>7 DEF ApeMoved, ApeSamePound
  <2>2. ~y.body.loop /\ y.body.queue = "none" =>
          /\ y.idle.left > 0 /\ (y.frozen \/ y.idle.left - 1 = y.body.left)
          /\ \/ y.persistent.body = "base" /\ y.idle.toBase
             \/ y.persistent.body = "feature" /\ y.idle.toFeature
    <3>1. SUFFICES ASSUME ~y.body.loop, y.body.queue = "none"
                   PROVE  /\ y.idle.left > 0 /\ (y.frozen \/ y.idle.left - 1 = y.body.left)
                          /\ \/ y.persistent.body = "base" /\ y.idle.toBase
                             \/ y.persistent.body = "feature" /\ y.idle.toFeature
      OBVIOUS
    <3>2. /\ x.idle.left > 0 /\ (x.frozen \/ x.idle.left = x.body.left)
          /\ \/ x.persistent.body = "base" /\ x.idle.toBase
             \/ x.persistent.body = "feature" /\ x.idle.toFeature
      BY <1>4, <2>1, <3>1 DEF ApePlays
    <3>3. CASE w.frozen BY <1>2, <1>3, <3>2, <3>3
    <3>4. CASE ~w.frozen
      <4>1. ~x.frozen /\ ~x.reduced BY <1>5, <3>4
      <4>2. y.body.left = x.idle.left - 1 BY <1>6, <2>1, <3>2, <4>1
      <4>. QED BY <1>2, <1>3, <3>2, <4>2
    <3>. QED BY <3>3, <3>4
  <2>3. y.body.loop => y.body.queue = "none" /\ y.body.left = 0 BY <1>4, <2>1 DEF ApePlays
  <2>4. y.body.loop => \/ y.body.clip = Ape!LoopOf[y.persistent.body]
                       \/ y.body.clip = "chest_pound" /\ y.scene = "spinning"
    BY <1>2, <1>4, <2>1 DEF ApePlays
  <2>5. ~y.body.loop => y.body.queue \in {"none", Ape!LoopOf[y.persistent.body]}
    BY <1>2, <1>4, <2>1 DEF ApePlays
  <2>6. ApeTicking(y) BY <2>2, <2>3, <2>4, <2>5 DEF ApeTicking
  <2>7. ApeClocks(y) BY <1>2, <1>3, <1>4, <2>1 DEF ApeClocks
  <2>. QED BY <1>1, <2>6, <2>7
<1>8. CASE ~x.body.loop /\ x.body.queue # "none" /\ ~y.owned
             /\ ApeEntered(y.body, x.body.queue, TRUE, "none", 0)
  <2>1. y.body.clip = x.body.queue /\ y.body.loop /\ y.body.queue = "none" /\ y.body.left = 0
    BY <1>8 DEF ApeEntered
  <2>2. x.body.queue = Ape!LoopOf[x.persistent.body] BY <1>4, <1>8 DEF ApePlays
  <2>3. ApeTicking(y) BY <1>2, <2>1, <2>2 DEF ApeTicking
  <2>4. ApeClocks(y) BY <1>3, <1>4, <1>8 DEF ApeClocks
  <2>. QED BY <1>1, <2>3, <2>4
<1>9. \/ ApeMoved(y, w)
      \/ /\ ~w.body.loop /\ w.body.queue # "none" /\ ~y.owned
         /\ ApeEntered(y.body, w.body.queue, TRUE, "none", 0)
  BY Zenon DEF ApeSpun
<1>10. \/ ApeMoved(y, w)
       \/ /\ ~x.body.loop /\ x.body.queue # "none" /\ ~y.owned
          /\ ApeEntered(y.body, x.body.queue, TRUE, "none", 0)
  BY <1>9
<1>. QED BY <1>7, <1>8, <1>10

\* What the pounding's clock leaves to the idle one.
ApePoundsOnwards(z, y) ==
  /\ ApeTicking(z) /\ ApeClocks(z) /\ ApeSameIntro(z, y) /\ ApeSameLook(z, y)

\* The pounding's clock after Spine's frame keeps the other clock's reckoning.
LEMMA ApePoundsOn ==
  ASSUME NEW y \in ApeRec, ApeTicking(y), ApeClocks(y),
         NEW z \in ApeRec, ApeRest(z, y), ApePoundedOn(z, y)
  PROVE  ApePoundsOnwards(z, y)
<1>1. ApeSameIntro(z, y) /\ ApeSameLook(z, y) /\ z.idle = y.idle BY DEF ApePoundedOn
<1>2. z.persistent = y.persistent /\ z.scene = y.scene /\ z.reduced = y.reduced
  BY <1>1 DEF ApeRest, ApeSameLook
<1>3. CASE /\ z.body = y.body /\ z.frozen = y.frozen
           /\ z.pound = -1 \/ (y.pound >= 0 /\ z.owned /\ ~y.reduced)
  <2>1. ApeTicking(z) BY <1>1, <1>2, <1>3 DEF ApeTicking
  <2>2. ApeClocks(z)
    <3>1. z.idle.on => z.body.loop /\ z.body.clip = "idle" /\ z.persistent.body = "base"
      BY <1>1, <1>2, <1>3 DEF ApeClocks
    <3>2. CASE z.pound = -1 BY <3>1, <3>2 DEF ApeClocks
    <3>3. CASE y.pound >= 0 /\ z.owned /\ ~y.reduced BY <1>2, <1>3, <3>1, <3>3 DEF ApeClocks
    <3>. QED BY <1>3, <3>2, <3>3
  <2>. QED BY <1>1, <2>1, <2>2 DEF ApePoundsOnwards
<1>4. CASE /\ y.pound >= 0 /\ z.owned /\ ~y.reduced
           /\ ApeEntered(z.body, "chest_pound", TRUE, "none", 0)
  <2>1. z.body.clip = "chest_pound" /\ z.body.loop /\ z.body.queue = "none" /\ z.body.left = 0
    BY <1>4 DEF ApeEntered
  <2>2. y.body.loop /\ y.body.clip = "chest_pound" BY <1>4 DEF ApeClocks
  <2>3. ApeTicking(z) BY <1>2, <2>1, <2>2 DEF ApeTicking
  <2>4. ~z.idle.on BY <1>1, <2>2 DEF ApeClocks
  <2>5. ApeClocks(z) BY <1>2, <1>4, <2>1, <2>4 DEF ApeClocks
  <2>. QED BY <1>1, <2>3, <2>5 DEF ApePoundsOnwards
<1>. QED BY <1>3, <1>4 DEF ApePoundedOn

\* A frame before the body is released: the launch clip alone moves on, or ends.
LEMMA ApeFrameHeld ==
  ASSUME NEW x \in ApeRec, ApeGood(x), ~x.bodyReleased, x.art, ~x.controlled, x.launch # "gone",
         NEW w, w = [x EXCEPT !.frozen = x.frozen \/ x.reduced],
         NEW u, u = Ape!SpineMoves(w),
         NEW v, v = IF x.reduced THEN u ELSE Ape!advanceCharacterIntroTask(u),
         NEW z, z = Ape!updateWheelChestPound(v), NEW breaker, NEW y,
         y = IF x.intro THEN z ELSE Ape!updateCharacterIdle(z, breaker)
  PROVE  ApeGood(y)
<1>1. PICK f \in BOOLEAN : f = (x.frozen \/ x.reduced) OBVIOUS
<1>2. w = [x EXCEPT !.frozen = f] BY <1>1
<1>3. w \in ApeRec
  <2>1. f \in ApeFlag BY DEF ApeFlag
  <2>. QED BY <1>2, <2>1 DEF ApeRec
<1>4. ApeRest(w, x) /\ ApeSameIntro(w, x) /\ ApeSameLook(w, x) /\ ApeSamePound(w, x) /\ w.body = x.body
      /\ w.idle = x.idle
  BY <1>2 DEF ApeRec, ApeRest, ApeSameIntro, ApeSameLook, ApeSamePound
<1>5. u \in ApeRec /\ ApeRest(u, w) /\ ApeSpun(u, w) BY <1>3, ApeSpines
<1>6. ApeLoad(x) /\ ApeLaunch(x) /\ ApeHeld(x) /\ ApeClocks(x) /\ ApeStands(x) /\ ApeShows(x)
  BY DEF ApeGood
<1>7. x.idle = Ape!Stopped /\ x.pound = -1 /\ x.body.queue = "none" BY <1>6 DEF ApeHeld
<1>8. ApeMoved(u, w) BY <1>4, <1>5, <1>7 DEF ApeSpun
<1>9. ApeRest(u, x) /\ ApeSameIntro(u, x) /\ ApeSameLook(u, x) /\ ApeSamePound(u, x) /\ u.idle = x.idle
      /\ u.body.clip = x.body.clip /\ u.body.queue = x.body.queue
  <2>1. /\ ApeSameIntro(u, w) /\ ApeSameLook(u, w) /\ ApeSamePound(u, w) /\ u.idle = w.idle
        /\ u.body.clip = w.body.clip /\ u.body.queue = w.body.queue
    BY <1>8 DEF ApeMoved
  <2>2. ApeRest(u, x) BY <1>4, <1>5 DEF ApeRest
  <2>3. ApeSameIntro(u, x) BY <1>4, <2>1 DEF ApeSameIntro
  <2>4. ApeSameLook(u, x) /\ ApeSamePound(u, x) BY <1>4, <2>1 DEF ApeSameLook, ApeSamePound
  <2>. QED BY <1>4, <2>1, <2>2, <2>3, <2>4
<1>10. ~u.bodyReleased /\ u.pound = -1 /\ u.art /\ u.intro = x.intro
  BY <1>7, <1>9 DEF ApeRest, ApeSameIntro, ApeSamePound
<1>11. ApeLoad(u) BY <1>6, <1>9 DEF ApeLoad, ApeRest, ApeSameIntro
<1>12. ApeLaunch(u) BY <1>6, <1>9 DEF ApeLaunch, ApeRest, ApeSameIntro
<1>13. ApeHeld(u) BY <1>6, <1>9 DEF ApeHeld, ApeRest, ApeSameIntro, ApeSamePound
<1>14. ApeClocks(u)
  <2>1. ~u.idle.on BY <1>7, <1>9, ApeParts
  <2>. QED BY <1>10, <2>1 DEF ApeClocks
<1>15. ApePlays(u) BY <1>10 DEF ApePlays
<1>16. ApeStands(u) /\ ApeShows(u)
  BY <1>6, <1>9 DEF ApeStands, ApeShows, ApeRest, ApeSameLook, ApeSameIntro
<1>17. ApeGood(u) BY <1>5, <1>11, <1>12, <1>13, <1>14, <1>15, <1>16 DEF ApeGood
<1>18. CASE x.reduced \/ ~x.intro
  <2>1. v = u BY <1>10, <1>18 DEF Ape!advanceCharacterIntroTask
  <2>2. z = u BY <1>5, <1>10, <2>1, ApePoundTicks
  <2>3. y = u BY <1>10, <2>2, Zenon DEF Ape!updateCharacterIdle
  <2>. QED BY <1>17, <2>3
<1>19. CASE ~x.reduced /\ x.intro
  <2>1. x.launch = "over" /\ ~x.calm /\ x.auraReleased
    <3>1. x.launch \in ApeLaunches /\ x.calm \in BOOLEAN BY ApeTypes
    <3>. QED BY <1>6, <1>19, <3>1 DEF ApeLaunch, ApeLaunches
  <2>2. u.launch = "over" /\ ~u.calm /\ u.auraReleased /\ ~u.controlled /\ u.elapsed = x.elapsed /\ u.intro
    BY <1>9, <1>19, <2>1 DEF ApeRest, ApeSameIntro
  <2>3. PICK n : n = u.elapsed + 1 OBVIOUS
  <2>4. n \in ApeFrames
    <3>1. u.elapsed \in ApeFrames /\ u.elapsed < IntroFrames BY <1>5, <1>12, <2>2, ApeTypes DEF ApeLaunch
    <3>. QED BY <2>3, <3>1, CharacterAssumption DEF ApeFrames
  <2>5. PICK q : q = [u EXCEPT !.elapsed = n] OBVIOUS
  <2>6. q \in ApeRec BY <1>5, <2>4, <2>5 DEF ApeRec
  <2>7. /\ ApeRest(q, u) /\ ApeSameLook(q, u) /\ ApeSameBody(q, u) /\ ApeSamePound(q, u) /\ q.elapsed = n
        /\ q.intro = u.intro /\ q.controlled = u.controlled /\ q.bodyReleased = u.bodyReleased
        /\ q.auraReleased = u.auraReleased
    BY <1>5, <2>5 DEF ApeRec, ApeRest, ApeSameLook, ApeSameBody, ApeSamePound
  <2>8. v = IF n < IntroFrames THEN q ELSE Ape!finishCharacterIntroToLoop(q)
    BY <1>19, <2>2, <2>3, <2>5, <2>7 DEF Ape!advanceCharacterIntroTask
  <2>9. CASE n < IntroFrames
    <3>1. v = q /\ q.pound = -1 BY <1>10, <2>7, <2>8, <2>9 DEF ApeSamePound
    <3>2. z = q BY <2>6, <3>1, ApePoundTicks
    <3>3. y = q BY <1>19, <3>2
    <3>4. ApeLoad(q) /\ ApeHeld(q)
      BY <1>17, <2>7 DEF ApeGood, ApeLoad, ApeHeld, ApeRest, ApeSameBody, ApeSamePound
    <3>5. ApeLaunch(q) BY <1>17, <2>2, <2>7, <2>9 DEF ApeGood, ApeLaunch, ApeRest
    <3>6. ApePlays(q) /\ ApeClocks(q)
      BY <1>17, <2>7
         DEF ApeGood, ApePlays, ApeClocks, ApeRest, ApeSameLook, ApeSameBody, ApeSamePound
    <3>7. ApeStands(q) /\ ApeShows(q)
      BY <1>17, <2>7 DEF ApeGood, ApeStands, ApeShows, ApeRest, ApeSameLook
    <3>. QED BY <2>6, <3>3, <3>4, <3>5, <3>6, <3>7 DEF ApeGood
  <2>10. CASE ~(n < IntroFrames)
    <3>1. v = Ape!finishCharacterIntroToLoop(q) BY <2>8, <2>10
    <3>2. q.art /\ q.intro BY <1>10, <2>2, <2>7 DEF ApeRest
    <3>3. v \in ApeRec /\ ApeRest(v, q) /\ ApeFinished(v, q) BY <2>6, <3>1, <3>2, ApeFinishes
    <3>4. ApeUnpounded(v) /\ ApeLooping(v) /\ ApeSameLook(v, q) /\ ~v.intro /\ v.bodyReleased
          /\ ~v.controlled /\ v.auraReleased
      BY <2>2, <2>7, <3>3 DEF ApeFinished
    <3>5. v.pound = -1 BY <3>4 DEF ApeUnpounded
    <3>6. z = v BY <3>3, <3>5, ApePoundTicks
    <3>7. y = v BY <1>19, <3>6
    <3>8. ApeRest(v, u) BY <2>7, <3>3 DEF ApeRest
    <3>9. v.palette = u.palette /\ v.persistent = u.persistent /\ v.aura = u.aura
      BY <2>7, <3>4 DEF ApeSameLook
    <3>10. u.aura = u.persistent.aura BY <1>16, <2>2 DEF ApeShows
    <3>11. ApeBegun(v, u) BY <3>4, <3>9, <3>10 DEF ApeBegun
    <3>12. ApeLoad(v) /\ ApeHeld(v) /\ ApePlays(v) /\ ApeClocks(v) /\ ApeStands(v) /\ ApeShows(v)
      BY <1>5, <1>10, <1>11, <1>16, <3>3, <3>8, <3>11, ApeBegunWell
    <3>13. ApeLaunch(v) BY <2>2, <3>4, <3>8 DEF ApeLaunch, ApeRest
    <3>. QED BY <3>3, <3>7, <3>12, <3>13 DEF ApeGood
  <2>. QED BY <2>9, <2>10
<1>. QED BY <1>18, <1>19

\* A frame of a body that is released: Spine, the pounding's clock, the idle clock.
LEMMA ApeFrameFree ==
  ASSUME NEW x \in ApeRec, ApeGood(x), x.bodyReleased, x.launch # "gone",
         NEW w, w = [x EXCEPT !.frozen = x.frozen \/ x.reduced],
         NEW u, u = Ape!SpineMoves(w),
         NEW v, v = IF x.reduced THEN u ELSE Ape!advanceCharacterIntroTask(u),
         NEW z, z = Ape!updateWheelChestPound(v), NEW breaker \in Ape!Breakers, NEW y,
         y = IF x.intro THEN z ELSE Ape!updateCharacterIdle(z, breaker)
  PROVE  ApeGood(y)
<1>1. PICK f \in BOOLEAN : f = (x.frozen \/ x.reduced) OBVIOUS
<1>2. w = [x EXCEPT !.frozen = f] BY <1>1
<1>3. w \in ApeRec
  <2>1. f \in ApeFlag BY DEF ApeFlag
  <2>. QED BY <1>2, <2>1 DEF ApeRec
<1>4. ApeRest(w, x) /\ ApeSameIntro(w, x) /\ ApeSameLook(w, x) /\ ApeSamePound(w, x) /\ w.body = x.body
      /\ w.idle = x.idle /\ w.frozen = f
  BY <1>2 DEF ApeRec, ApeRest, ApeSameIntro, ApeSameLook, ApeSamePound
<1>5. u \in ApeRec /\ ApeRest(u, w) /\ ApeSpun(u, w) BY <1>3, ApeSpines
<1>6. ApeLoad(x) /\ ApeLaunch(x) /\ ApeStands(x) /\ ApeShows(x) BY DEF ApeGood
<1>7. ~x.intro /\ x.launch = "over"
  <2>1. x.launch \in ApeLaunches /\ x.intro \in BOOLEAN BY ApeTypes
  <2>. QED BY <1>6, <2>1 DEF ApeLaunch, ApeLaunches
<1>8. ApeTicking(u) /\ ApeClocks(u) /\ ApeRest(u, x) /\ ApeSameIntro(u, x) /\ ApeSameLook(u, x)
  <2>1. w.frozen = (x.frozen \/ x.reduced) BY <1>1, <1>4
  <2>. QED BY <1>3, <1>4, <1>5, <1>7, <2>1, ApeSpinsOn
<1>9. ~u.intro BY <1>7, <1>8 DEF ApeSameIntro
<1>10. v = u BY <1>9 DEF Ape!advanceCharacterIntroTask
<1>11. z \in ApeRec /\ ApeRest(z, u) /\ ApePoundedOn(z, u) BY <1>5, <1>10, ApePoundTicks
<1>12. ApeTicking(z) /\ ApeClocks(z) /\ ApeSameIntro(z, u) /\ ApeSameLook(z, u)
  <2>1. ApePoundsOnwards(z, u) BY <1>5, <1>8, <1>11, ApePoundsOn
  <2>. QED BY <2>1 DEF ApePoundsOnwards
<1>13. ApeRest(z, x) /\ ApeSameIntro(z, x) /\ ApeSameLook(z, x)
  <2>1. ApeRest(z, x) BY <1>8, <1>11 DEF ApeRest
  <2>2. ApeSameIntro(z, x) BY <1>8, <1>12 DEF ApeSameIntro
  <2>3. ApeSameLook(z, x) BY <1>8, <1>12 DEF ApeSameLook
  <2>. QED BY <2>1, <2>2, <2>3
<1>14. ApeLoad(z) BY <1>6, <1>13 DEF ApeLoad, ApeRest, ApeSameIntro
<1>15. ApeLaunch(z) BY <1>6, <1>13 DEF ApeLaunch, ApeRest, ApeSameIntro
<1>16. ApeStands(z) /\ ApeShows(z)
  BY <1>6, <1>13 DEF ApeStands, ApeShows, ApeRest, ApeSameLook, ApeSameIntro
<1>17. z.bodyReleased /\ z.launch = "over" BY <1>7, <1>13 DEF ApeRest, ApeSameIntro
<1>18. y = Ape!updateCharacterIdle(z, breaker) BY <1>7
<1>. QED BY <1>11, <1>12, <1>14, <1>15, <1>16, <1>17, <1>18, ApeIdleTicks

\* A frame of the scene: the clip, the launch, the pounding and the idle loop move on.
LEMMA ApeFrame ==
  ASSUME ApeInv, NEW breaker \in Ape!Breakers, Ape!update(breaker)
  PROVE  ApeInv'
<1>1. PICK w : w = [now EXCEPT !.frozen = now.frozen \/ now.reduced] OBVIOUS
<1>2. PICK u : u = Ape!SpineMoves(w) OBVIOUS
<1>3. PICK v : v = IF now.reduced THEN u ELSE Ape!advanceCharacterIntroTask(u) OBVIOUS
<1>4. PICK z : z = Ape!updateWheelChestPound(v) OBVIOUS
<1>5. PICK y : y = now' OBVIOUS
<1>6. /\ now.art /\ ~now.controlled /\ now.launch # "gone"
      /\ y = IF now.intro THEN z ELSE Ape!updateCharacterIdle(z, breaker)
  BY <1>1, <1>2, <1>3, <1>4, <1>5, Zenon DEF Ape!update
<1>7. now \in ApeRec /\ ApeGood(now) BY DEF ApeInv, ApeGood
<1>8. CASE ~now.bodyReleased
  <2>1. ApeGood(y) BY <1>1, <1>2, <1>3, <1>4, <1>6, <1>7, <1>8, ApeFrameHeld
  <2>. QED BY <1>5, <2>1 DEF ApeInv
<1>9. CASE now.bodyReleased
  <2>1. ApeGood(y) BY <1>1, <1>2, <1>3, <1>4, <1>6, <1>7, <1>9, ApeFrameFree
  <2>. QED BY <1>5, <2>1 DEF ApeInv
<1>. QED BY <1>8, <1>9

\* The calls on the character, each with whatever it may be given.
ApeNext ==
  \/ Ape!LoadArtwork \/ Ape!AbortLoad
  \/ \E ok \in BOOLEAN : Ape!BitmapLoads(ok)
  \/ \E ok \in BOOLEAN : Ape!AuthoredLoads(ok)
  \/ \E ok \in BOOLEAN : Ape!performArtworkLoad(ok)
  \/ Ape!cueIntro \/ Ape!cueHudReveal \/ Ape!seekAuthoredIntro
  \/ \E yes \in BOOLEAN : Ape!completeIntro(yes)
  \/ \E yes \in BOOLEAN : Ape!handleReducedMotionPreference(yes)
  \/ \E breaker \in Ape!Breakers : Ape!update(breaker)
  \/ \E mode \in Ape!Modes : \E rage \in 1..2 : Ape!restoreFeatureState(mode, rage)
  \/ \E mode \in Ape!Modes : \E rage \in 1..2 : Ape!PresentationFails(mode, rage)
  \/ \E clip \in Ape!Reactions : Ape!cueReaction(clip)
  \/ \E clip \in Ape!CollectClips : Ape!cueCollect(clip)
  \/ \E level \in 1..2 : Ape!setRageAuraLevel(level)
  \/ \E direction \in {"expand", "shrink"} : Ape!GridExpanded(direction)
  \/ \E mode \in Ape!Modes : Ape!completeWheelPresentation(mode)
  \/ \E rage \in 1..2 : \E shrinks \in BOOLEAN : Ape!beginFeatureExitAtSummaryHide(rage, shrinks)
  \/ Ape!reactToWin \/ Ape!beginWheelSpinPresentation \/ Ape!onWheelSpinFinish
  \/ Ape!abortWheelPresentation \/ Ape!cueFreeSpinsStarted \/ Ape!exitFeatureMode \/ Ape!destroy

\* The character before its artwork is asked for is in order.
LEMMA ApeStarts == Ape!Init => ApeInv
<1>. SUFFICES ASSUME Ape!Init PROVE ApeInv OBVIOUS
<1>1. PICK calm \in BOOLEAN :
        now = [load |-> "no", bitmap |-> "no", authored |-> "no", views |-> 0, art |-> FALSE,
               launch |-> "before", at |-> 0, intro |-> FALSE, elapsed |-> 0, controlled |-> FALSE,
               bodyReleased |-> FALSE, auraReleased |-> FALSE, body |-> Ape!NoClip, overlay |-> FALSE,
               aura |-> 0, palette |-> "main", persistent |-> Ape!Persistent("base", 0, "main"),
               idle |-> Ape!Stopped, pound |-> -1, owned |-> FALSE, reduced |-> calm, calm |-> calm,
               mode |-> "BASE", scene |-> "no", frozen |-> FALSE]
  BY Zenon DEF Ape!Init
<1>2. PICK b : b = Ape!NoClip OBVIOUS
<1>3. b \in ApeBody /\ ApeEntered(b, "none", TRUE, "none", 0)
  <2>1. "none" \in ApeClips BY DEF ApeClips
  <2>. QED BY <1>2, <2>1, ApeLoopEntry DEF Ape!NoClip
<1>4. PICK p : p = Ape!Persistent("base", 0, "main") OBVIOUS
<1>5. p \in ApePersistent /\ p.body = "base" /\ p.aura = 0 /\ p.palette = "main"
  BY <1>4 DEF Ape!Persistent, ApePersistent, Ape!Bodies, Ape!Auras, Ape!Palettes
<1>6. PICK i : i = Ape!Stopped OBVIOUS
<1>7. i \in ApeIdle /\ ~i.on BY <1>6, ApeParts
<1>8. PICK f \in ApeFlag : f = calm BY DEF ApeFlag
<1>9. PICK no \in ApeFlag : no = FALSE BY DEF ApeFlag
<1>10. /\ "no" \in ApeLoads /\ "no" \in ApeBranches /\ 0 \in ApeViews /\ "before" \in ApeLaunches
      /\ 0 \in ApeInstants /\ 0 \in ApeFrames /\ -1 \in ApePounds /\ "no" \in ApeScenes
  BY CharacterAssumption
     DEF ApeLoads, ApeBranches, ApeViews, ApeLaunches, ApeInstants, ApeFrames, ApePounds, ApeScenes
<1>11. 0 \in Ape!Auras /\ "main" \in Ape!Palettes /\ "BASE" \in Ape!Modes
  BY DEF Ape!Auras, Ape!Palettes, Ape!Modes
<1>12. now = [load |-> "no", bitmap |-> "no", authored |-> "no", views |-> 0, art |-> no,
              launch |-> "before", at |-> 0, intro |-> no, elapsed |-> 0, controlled |-> no,
              bodyReleased |-> no, auraReleased |-> no, body |-> b, overlay |-> no, aura |-> 0,
              palette |-> "main", persistent |-> p, idle |-> i, pound |-> -1, owned |-> no,
              reduced |-> f, calm |-> f, mode |-> "BASE", scene |-> "no", frozen |-> no]
  BY <1>2, <1>4, <1>6, <1>8, <1>9, <1>1
<1>13. now \in ApeRec BY <1>3, <1>5, <1>7, <1>10, <1>11, <1>12 DEF ApeRec
<1>14. /\ now.load = "no" /\ now.bitmap = "no" /\ now.authored = "no" /\ now.views = 0 /\ now.art = no
       /\ now.launch = "before" /\ now.at = 0 /\ now.intro = no /\ now.controlled = no
       /\ now.bodyReleased = no /\ now.auraReleased = no /\ now.body = b /\ now.aura = 0
       /\ now.palette = "main" /\ now.persistent = p /\ now.idle = i /\ now.pound = -1
       /\ now.mode = "BASE" /\ now.scene = "no"
  BY <1>12
<1>15. ~now.art /\ ~now.intro /\ ~now.controlled /\ ~now.bodyReleased /\ ~now.auraReleased
  BY <1>9, <1>14
<1>16. ApeLoad(now) BY <1>14, <1>15 DEF ApeLoad
<1>17. ApeLaunch(now) BY <1>14, <1>15 DEF ApeLaunch
<1>18. ApeHeld(now) BY <1>3, <1>6, <1>14 DEF ApeHeld, ApeEntered
<1>19. ApePlays(now) BY <1>15 DEF ApePlays
<1>20. ApeClocks(now) BY <1>7, <1>14 DEF ApeClocks
<1>21. ApeStands(now) BY <1>5, <1>14 DEF ApeStands, Ape!characterWinPresentation
<1>22. ApeShows(now) BY <1>14, <1>15 DEF ApeShows
<1>. QED BY <1>13, <1>16, <1>17, <1>18, <1>19, <1>20, <1>21, <1>22 DEF ApeInv, ApeGood

\* Every call on the character keeps it in order.
LEMMA ApeSteps == ApeInv /\ ApeNext => ApeInv'
<1>. SUFFICES ASSUME ApeInv, ApeNext PROVE ApeInv' OBVIOUS
<1>1. CASE \/ Ape!LoadArtwork \/ Ape!AbortLoad
           \/ \E ok \in BOOLEAN : Ape!BitmapLoads(ok)
           \/ \E ok \in BOOLEAN : Ape!AuthoredLoads(ok)
           \/ \E ok \in BOOLEAN : Ape!performArtworkLoad(ok)
  BY <1>1, ApeAsks, ApeAborts, ApeBitmap, ApeAuthored, ApeSettles
<1>2. CASE \/ Ape!cueIntro \/ Ape!cueHudReveal \/ Ape!seekAuthoredIntro
           \/ \E yes \in BOOLEAN : Ape!completeIntro(yes)
           \/ \E yes \in BOOLEAN : Ape!handleReducedMotionPreference(yes)
           \/ \E breaker \in Ape!Breakers : Ape!update(breaker)
  BY <1>2, ApeCues, ApeHudReveals, ApeSeeks, ApeIntroOver, ApePrefers, ApeFrame
<1>3. CASE \/ \E mode \in Ape!Modes : \E rage \in 1..2 : Ape!restoreFeatureState(mode, rage)
           \/ \E mode \in Ape!Modes : \E rage \in 1..2 : Ape!PresentationFails(mode, rage)
           \/ \E clip \in Ape!Reactions : Ape!cueReaction(clip)
           \/ \E clip \in Ape!CollectClips : Ape!cueCollect(clip)
           \/ \E level \in 1..2 : Ape!setRageAuraLevel(level)
  BY <1>3, ApeRestores, ApeFails, ApeReaction, ApeCollect, ApeRage
<1>4. CASE \/ \E direction \in {"expand", "shrink"} : Ape!GridExpanded(direction)
           \/ \E mode \in Ape!Modes : Ape!completeWheelPresentation(mode)
           \/ \E rage \in 1..2 : \E shrinks \in BOOLEAN :
                Ape!beginFeatureExitAtSummaryHide(rage, shrinks)
  BY <1>4, ApeGrid, ApeWheelOver, ApeLeaves
<1>5. CASE \/ Ape!reactToWin \/ Ape!beginWheelSpinPresentation \/ Ape!onWheelSpinFinish
           \/ Ape!abortWheelPresentation \/ Ape!cueFreeSpinsStarted \/ Ape!exitFeatureMode
           \/ Ape!destroy
  BY <1>5, ApeWin, ApeWheelSpins, ApeWheelLands, ApeWheelAborts, ApeFreeSpins, ApeExits, ApeDestroys
<1>. QED BY <1>1, <1>2, <1>3, <1>4, <1>5 DEF ApeNext

\* The exit of a feature leaves nothing of it on any track.
LEMMA ApeLeavesClean == ApeInv => Ape!ExitIsClean
BY ApeExits DEF Ape!ExitIsClean

\* What is asked of the character follows from its being in order.
LEMMA ApeRight ==
  ApeInv => /\ Ape!TypeOK /\ Ape!OneCharacter /\ Ape!ShownWhole /\ Ape!BreakerWaits
            /\ Ape!PoundsForTheWheel /\ Ape!StandsInMode /\ Ape!AuraShown
<1>. SUFFICES ASSUME ApeInv
              PROVE  /\ Ape!TypeOK /\ Ape!OneCharacter /\ Ape!ShownWhole /\ Ape!BreakerWaits
                     /\ Ape!PoundsForTheWheel /\ Ape!StandsInMode /\ Ape!AuraShown
  OBVIOUS
<1>1. /\ now \in ApeRec /\ ApeLoad(now) /\ ApeLaunch(now) /\ ApeHeld(now) /\ ApePlays(now)
      /\ ApeClocks(now) /\ ApeStands(now) /\ ApeShows(now)
  BY DEF ApeInv, ApeGood
<1>2. now.persistent.body \in Ape!Bodies BY <1>1, ApeTypes DEF ApePersistent
<1>3. Ape!TypeOK
  <2>1. /\ now.load \in {"no", "pending", "aborted"}
        /\ {now.bitmap, now.authored} \subseteq {"no", "pending", "ok", "failed"}
        /\ now.views \in 0..2 /\ now.at \in 0..(IntroFrames - 1) /\ now.elapsed \in 0..IntroFrames
        /\ now.launch \in {"before", "timeline", "over", "gone"}
    BY <1>1, ApeTypes DEF ApeLoads, ApeBranches, ApeViews, ApeInstants, ApeFrames, ApeLaunches
  <2>2. {now.art, now.intro, now.controlled, now.bodyReleased, now.auraReleased, now.overlay, now.owned,
         now.reduced, now.calm, now.frozen} \subseteq BOOLEAN
    BY <1>1, ApeTypes
  <2>3. /\ now.body.left \in 0..ClipFrames \cup 0..IntroFrames /\ now.aura \in Ape!Auras
        /\ now.palette \in Ape!Palettes
    <3>1. now.body \in ApeBody /\ now.aura \in Ape!Auras /\ now.palette \in Ape!Palettes
      BY <1>1, ApeTypes
    <3>. QED BY <3>1 DEF ApeBody, ApeLefts
  <2>4. /\ now.persistent \in [body : Ape!Bodies, aura : Ape!Auras, palette : Ape!Palettes]
        /\ now.idle \in [on : BOOLEAN, elapsed : 0..(ClipFrames - 1), left : 0..ClipFrames,
                         toBase : BOOLEAN, toFeature : BOOLEAN]
    <3>1. now.persistent \in ApePersistent /\ now.idle \in ApeIdle BY <1>1, ApeTypes
    <3>. QED BY <3>1 DEF ApePersistent, ApeIdle
  <2>5. /\ now.pound \in -1..ClipFrames /\ now.mode \in Ape!Modes
        /\ now.scene \in {"no", "spinning", "landed", "starting", "leaving"}
    <3>1. now.pound \in ApePounds /\ now.mode \in Ape!Modes /\ now.scene \in ApeScenes
      BY <1>1, ApeTypes
    <3>. QED BY <3>1 DEF ApePounds, ApeScenes
  <2>. QED BY <2>1, <2>2, <2>3, <2>4, <2>5, Zenon DEF Ape!TypeOK
<1>4. Ape!OneCharacter BY <1>1 DEF ApeLoad, Ape!OneCharacter
<1>5. Ape!ShownWhole BY <1>1 DEF ApePlays, Ape!ShownWhole, Ape!Free
<1>6. Ape!BreakerWaits BY <1>1 DEF ApeClocks, Ape!BreakerWaits
<1>7. Ape!PoundsForTheWheel
  <2>1. now.pound >= 0 => now.owned /\ now.body.clip = "chest_pound" /\ ~now.reduced
    BY <1>1 DEF ApeClocks
  <2>2. (now.body.clip = "chest_pound" /\ now.body.loop /\ now.launch # "gone") => now.scene = "spinning"
    <3>1. CASE ~now.bodyReleased BY <1>1, <3>1 DEF ApeHeld
    <3>2. CASE now.bodyReleased
      <4>1. Ape!LoopOf[now.persistent.body] # "chest_pound" BY <1>2, ApeLoops
      <4>. QED BY <1>1, <3>2, <4>1 DEF ApePlays
    <3>. QED BY <3>1, <3>2
  <2>. QED BY <2>1, <2>2 DEF Ape!PoundsForTheWheel
<1>8. Ape!StandsInMode
  <2>1. /\ (Ape!Playing /\ now.mode # "EXPANSION") =>
              now.persistent.body = Ape!characterWinPresentation(now.mode)
        /\ (Ape!Playing /\ now.mode = "EXPANSION") => now.persistent.body # "base"
    BY <1>1 DEF ApeStands, Ape!Playing
  <2>2. Ape!Free =>
          /\ now.body.queue \in {"none", Ape!LoopOf[now.persistent.body]}
          /\ (now.body.loop /\ now.scene # "spinning") =>
               now.body.clip = Ape!LoopOf[now.persistent.body]
    BY <1>1 DEF ApePlays, Ape!Free
  <2>3. /\ now.art => now.palette = now.persistent.palette
        /\ now.art => now.aura = IF now.auraReleased THEN now.persistent.aura ELSE 0
    BY <1>1 DEF ApeShows
  <2>. QED BY <2>1, <2>2, <2>3, Zenon DEF Ape!StandsInMode, Ape!persistentBodyAnimation
<1>9. Ape!AuraShown BY <1>1 DEF ApeLaunch, Ape!AuraShown
<1>. QED BY <1>3, <1>4, <1>5, <1>6, <1>7, <1>8, <1>9
=============================================================================
