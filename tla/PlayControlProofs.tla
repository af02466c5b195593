-------------------------- MODULE PlayControlProofs --------------------------
(***************************************************************************)
(* Proofs about PlayControl, whatever the convar submit_after_pause says.  *)
(* The handlers are operators on the flags, so the invariant is mostly a   *)
(* predicate Good on the flags that every operator preserves: a lemma per  *)
(* operator, cited by the handlers that call it.                           *)
(***************************************************************************)
EXTENDS PlayControl, TLAPS

(* The flags as TypeOK has them, for any record and not only for p.        *)
Record(q) ==
  /\ DOMAIN q = Fields
  /\ \A f \in Flags : q[f] \in BOOLEAN
  /\ q.anim \in {"full", "running", "held", "over"}
  /\ q.music \in {"menu", "broken", "quiet", "playing", "ended"}
  /\ q.result \in {"none", "kept", "submitted", "watched"}

(* A map in play is updated, and the music is the map's and goes with it.  *)
Sounding(q) ==
  q.inPlay =>
    /\ q.playing \/ q.paused \/ q.cont
    /\ q.music # "menu"
    /\ q.music = "playing" => q.playing
    /\ q.playing /\ ~q.paused /\ ~q.waiting => q.music \in {"playing", "ended", "broken"}

(* What stop() makes of the score: stop() forgets that it was a replay, so *)
(* a second stop(), of the overlay that was shown over the ranking screen, *)
(* may only happen to a play of the user's own.                            *)
Scored(q) ==
  /\ q.inPlay => (q.own <=> ~q.watching)
  /\ q.overlay => q.own \/ q.watching
  /\ q.result \in {"kept", "submitted"} => q.own

Good(q) == Record(q) /\ Sounding(q) /\ Scored(q)

(* A map that update() ended is not brought back by the rest of the frame. *)
Over(q) == ~q.paused /\ ~q.cont /\ ~q.overlay /\ ~(q.playing /\ q.waiting)
FrameInv == at \in {"seek", "retry"} /\ ~p.inPlay => Over(p)

IInv == Good(p) /\ FrameInv /\ at \in Stages /\ downloading \in BOOLEAN

(* What an operator makes of the flags.  It may leave the score fit to be   *)
(* submitted that was not, only if it ends the play or begins an attempt;   *)
(* most do not touch that mark but to set it.                               *)
Renewed(r) == ~r.inPlay \/ r.waiting
Stays(q, r) == r.submittable => q.submittable \/ Renewed(r)
Keeps(q, r) == r.submittable => q.submittable

(* It does not end the wait of a play that the operator before it began.    *)
Follows(q, r) == Renewed(q) => Renewed(r)

-----------------------------------------------------------------------------
LEMMA StopGood ==
  ASSUME NEW q, NEW c \in Choices, Good(q), q.inPlay \/ q.overlay
  PROVE  /\ Good(Stop(q, c)) /\ Stays(q, Stop(q, c)) /\ Keeps(q, Stop(q, c))
         /\ ~Stop(q, c).inPlay /\ Over(Stop(q, c))
<1>1. Record(Stop(q, c))
  BY DEF Good, Record, Fields, Stop, Score, Choices, Flags
<1>2. Sounding(Stop(q, c)) /\ ~Stop(q, c).inPlay /\ Over(Stop(q, c))
  BY DEF Good, Record, Fields, Stop, Score, Choices, Flags, Sounding, Over
<1>3. Scored(Stop(q, c))
  BY DEF Good, Record, Fields, Stop, Score, Choices, Flags, Scored
<1>4. Stays(q, Stop(q, c)) /\ Keeps(q, Stop(q, c))
  BY DEF Good, Record, Fields, Stop, Score, Choices, Flags, Stays, Keeps
<1>5. QED
  BY <1>1, <1>2, <1>3, <1>4 DEF Good

LEMMA SetVisibleGood ==
  ASSUME NEW q, NEW v \in BOOLEAN, Good(q), v => q.own \/ q.watching
  PROVE  /\ Good(SetVisible(q, v)) /\ Keeps(q, SetVisible(q, v))
         /\ Follows(q, SetVisible(q, v)) /\ SetVisible(q, v).inPlay = q.inPlay
<1>1. Record(SetVisible(q, v))
  <2> DEFINE x == [q EXCEPT !.overlay = v, !.hide = FALSE, !.canContinue = ~q.failed]
             y == [q EXCEPT !.overlay = v]
  <2>1. Record(x)
    BY DEF Good, Record, Fields, Flags
  <2>2. Record(y)
    BY DEF Good, Record, Fields, Flags
  <2>3. SetVisible(q, v) \in {x, y}
    BY DEF SetVisible
  <2> HIDE DEF x, y
  <2>4. QED
    BY <2>1, <2>2, <2>3
<1>2. Sounding(SetVisible(q, v)) /\ Scored(SetVisible(q, v))
  BY DEF Good, Record, Fields, SetVisible, Flags, Sounding, Scored
<1>3. Keeps(q, SetVisible(q, v)) /\ Follows(q, SetVisible(q, v)) /\ SetVisible(q, v).inPlay = q.inPlay
  BY DEF Good, Record, Fields, SetVisible, Flags, Keeps, Follows, Renewed
<1>4. QED
  BY <1>1, <1>2, <1>3 DEF Good

LEMMA ResetScoreFields ==
  ASSUME NEW q, Record(q)
  PROVE  /\ Record(ResetScore(q))
         /\ ResetScore(q).submittable = q.defaults /\ ~ResetScore(q).failed
         /\ \A f \in Fields \ {"submittable", "failed", "anim"} : ResetScore(q)[f] = q[f]
<1> DEFINE z == ResetScore(q)
<1>1. z = [q EXCEPT !.submittable = q.defaults, !.failed = FALSE, !.anim = "full"]
  BY DEF ResetScore
<1> HIDE DEF z
<1>2. /\ DOMAIN z = Fields /\ z.submittable = q.defaults
      /\ z.failed = FALSE /\ z.anim = "full"
  BY <1>1 DEF Record, Fields, Flags
<1>3. \A f \in Fields \ {"submittable", "failed", "anim"} : z[f] = q[f]
  BY <1>1 DEF Record
<1>4. Record(z)
  <2>1. z.submittable \in BOOLEAN /\ z.failed \in BOOLEAN
    BY <1>2 DEF Record, Flags
  <2>2. \A f \in Flags \ {"submittable", "failed"} : z[f] \in BOOLEAN
    BY <1>3 DEF Record, Fields, Flags
  <2>3. z.music = q.music /\ z.result = q.result
    BY <1>3 DEF Fields
  <2>4. QED
    BY <1>2, <2>1, <2>2, <2>3 DEF Record
<1>5. QED
  BY <1>2, <1>3, <1>4 DEF z

(* start() is called with flags of whatever was in play before.            *)
Startable(q) ==
  /\ Record(q)
  /\ q.overlay => q.own \/ q.watching
  /\ q.result \in {"kept", "submitted"} => q.own

LEMMA StartGood ==
  ASSUME NEW q, NEW loads \in BOOLEAN, NEW sound \in BOOLEAN, Startable(q)
  PROVE  /\ Good(Start(q, loads, sound))
         /\ Renewed(Start(q, loads, sound)) /\ ~Start(q, loads, sound).failed
<1> DEFINE r == ResetScore(q)
<1>1. Record(r) /\ r.submittable = q.defaults /\ ~r.failed
  BY ResetScoreFields DEF Startable
<1>2. r.overlay = q.overlay /\ r.own = q.own /\ r.watching = q.watching /\ r.result = q.result
      /\ q.overlay \in BOOLEAN /\ q.own \in BOOLEAN /\ q.watching \in BOOLEAN /\ q.defaults \in BOOLEAN
  BY ResetScoreFields DEF Startable, Record, Fields, Flags
<1> HIDE DEF r
<1>3. CASE ~loads
  <2>1. Start(q, loads, sound) = [r EXCEPT !.inPlay = FALSE]
    BY <1>3 DEF Start, r
  <2>2. QED
    BY <1>1, <1>2, <1>3, <2>1 DEF Good, Startable, Record, Fields, Flags, Sounding, Scored, Renewed
<1>4. CASE loads
  <2> DEFINE t == Start(q, loads, sound)
  <2>1. t = [r EXCEPT !.inPlay = TRUE, !.preload = TRUE, !.playing = TRUE, !.waiting = TRUE,
                      !.paused = FALSE, !.cont = FALSE, !.overtime = FALSE,
                      !.music = IF sound THEN "quiet" ELSE "broken",
                      !.overlay = FALSE, !.hide = @ /\ ~q.overlay, !.canContinue = @ \/ q.overlay,
                      !.result = "none",
                      !.own = ~q.watching, !.retried = FALSE, !.jumped = FALSE]
    BY <1>4 DEF Start, r
  <2> HIDE DEF t
  <2>2. Record(t)
    <3>1. DOMAIN t = Fields
      BY <1>1, <2>1 DEF Record
    <3>2. \A f \in Flags : t[f] \in BOOLEAN
      <4>1. t.inPlay = TRUE /\ t.preload = TRUE /\ t.playing = TRUE /\ t.waiting = TRUE
            /\ t.paused = FALSE /\ t.cont = FALSE /\ t.overtime = FALSE /\ t.overlay = FALSE
            /\ t.own = ~q.watching /\ t.retried = FALSE /\ t.jumped = FALSE
            /\ t.hide = (r.hide /\ ~q.overlay) /\ t.canContinue = (r.canContinue \/ q.overlay)
        BY <1>1, <2>1 DEF Record, Fields, Flags
      <4>2. \A f \in Flags \ {"inPlay", "preload", "playing", "waiting", "paused", "cont", "overtime", "overlay",
                               "own", "retried", "jumped", "hide", "canContinue"} : t[f] = r[f]
        BY <1>1, <2>1 DEF Record, Fields, Flags
      <4>3. QED
        BY <1>1, <4>1, <4>2 DEF Record
    <3>3. /\ t.anim \in {"full", "running", "held", "over"}
          /\ t.music \in {"menu", "broken", "quiet", "playing", "ended"}
          /\ t.result \in {"none", "kept", "submitted", "watched"}
      BY <1>1, <2>1 DEF Record, Fields, Flags
    <3>4. QED
      BY <3>1, <3>2, <3>3 DEF Record
  <2>3. t.inPlay /\ t.playing /\ t.waiting /\ t.music \in {"quiet", "broken"} /\ ~t.overlay
        /\ t.result = "none" /\ t.own = ~q.watching /\ t.watching = q.watching
        /\ t.submittable = q.defaults /\ ~t.failed
    BY <1>1, <1>2, <2>1 DEF Record, Fields, Flags
  <2>4. Sounding(t) /\ Scored(t)
    BY <1>2, <2>3 DEF Sounding, Scored
  <2>5. QED
    BY <2>2, <2>3, <2>4 DEF Good, Renewed, t
<1>5. QED
  BY <1>3, <1>4

LEMMA CancelFailingGood ==
  ASSUME NEW q, Good(q)
  PROVE  /\ Good(CancelFailing(q)) /\ Keeps(q, CancelFailing(q))
         /\ CancelFailing(q).inPlay = q.inPlay /\ (Over(q) => Over(CancelFailing(q)))
<1>1. Record(CancelFailing(q))
  <2> DEFINE x == [q EXCEPT !.failed = FALSE, !.anim = "full"]
  <2>1. Record(x)
    BY DEF Good, Record, Fields, Flags
  <2>2. CancelFailing(q) \in {q, x}
    BY DEF CancelFailing
  <2> HIDE DEF x
  <2>3. QED
    BY <2>1, <2>2 DEF Good
<1>2. Sounding(CancelFailing(q)) /\ Scored(CancelFailing(q))
  BY DEF Good, Record, Fields, CancelFailing, Flags, Sounding, Scored
<1>3. /\ Keeps(q, CancelFailing(q)) /\ CancelFailing(q).inPlay = q.inPlay
      /\ Over(q) => Over(CancelFailing(q))
  BY DEF Good, Record, Fields, CancelFailing, Flags, Keeps, Over
<1>4. QED
  BY <1>1, <1>2, <1>3 DEF Good

LEMMA SeekGood ==
  ASSUME NEW q, Good(q)
  PROVE  /\ Good(Seek(q)) /\ Keeps(q, Seek(q)) /\ (q.failed \/ ~Seek(q).submittable)
         /\ Seek(q).inPlay = q.inPlay /\ (Over(q) => Over(Seek(q)))
<1> DEFINE r == [ResetScore(q) EXCEPT !.submittable = FALSE]
<1> DEFINE w == [r EXCEPT !.waiting = FALSE, !.playing = TRUE, !.quick = FALSE, !.music = Sounded(q.music)]
<1>1. Record(r) /\ ~r.submittable
      /\ \A f \in Fields \ {"submittable", "failed", "anim"} : r[f] = q[f]
  <2> DEFINE z == ResetScore(q)
  <2>1. Record(z) /\ \A f \in Fields \ {"submittable", "failed", "anim"} : z[f] = q[f]
    BY ResetScoreFields DEF Good
  <2> HIDE DEF z
  <2>2. r = [z EXCEPT !.submittable = FALSE]
    BY DEF z
  <2> HIDE DEF r
  <2>3. DOMAIN r = Fields /\ r.submittable = FALSE
    BY <2>1, <2>2 DEF Record, Fields, Flags
  <2>4. \A f \in Fields \ {"submittable"} : r[f] = z[f]
    BY <2>1, <2>2 DEF Record
  <2>5. Record(r)
    <3>1. \A f \in Flags \ {"submittable"} : r[f] \in BOOLEAN
      BY <2>1, <2>4 DEF Record, Fields, Flags
    <3>2. r.music = z.music /\ r.result = z.result /\ r.anim = z.anim
      BY <2>4 DEF Fields
    <3>3. r.submittable \in BOOLEAN
      BY <2>3
    <3>4. QED
      BY <2>1, <2>3, <3>1, <3>2, <3>3 DEF Record
  <2>6. QED
    BY <2>1, <2>3, <2>4, <2>5
<1> HIDE DEF r
<1>2. Record(w) /\ ~w.submittable /\ ~w.waiting /\ w.playing /\ w.music = Sounded(q.music)
      /\ \A f \in Fields \ {"submittable", "failed", "anim", "waiting", "playing", "quick", "music"} :
           w[f] = q[f]
  <2>1. w = [r EXCEPT !.waiting = FALSE, !.playing = TRUE, !.quick = FALSE, !.music = Sounded(q.music)]
    OBVIOUS
  <2> HIDE DEF w
  <2>2. /\ DOMAIN w = Fields /\ w.waiting = FALSE /\ w.playing = TRUE /\ w.quick = FALSE
        /\ w.music = Sounded(q.music)
    BY <1>1, <2>1 DEF Record, Fields, Flags
  <2>3. \A f \in Fields \ {"waiting", "playing", "quick", "music"} : w[f] = r[f]
    BY <1>1, <2>1 DEF Record
  <2>4. Record(w)
    <3>1. \A f \in Flags \ {"waiting", "playing", "quick"} : w[f] \in BOOLEAN
      BY <1>1, <2>3 DEF Record, Fields, Flags
    <3>2. w.result = r.result /\ w.anim = r.anim
      BY <2>3 DEF Fields
    <3>3. w.waiting \in BOOLEAN /\ w.playing \in BOOLEAN /\ w.quick \in BOOLEAN
      BY <2>2
    <3>4. Sounded(q.music) \in {"menu", "broken", "quiet", "playing", "ended"}
      BY DEF Sounded
    <3>5. QED
      BY <1>1, <2>2, <3>1, <3>2, <3>3, <3>4 DEF Record
  <2>5. w.submittable = r.submittable
    BY <2>3 DEF Fields, Flags
  <2>6. QED
    BY <1>1, <2>2, <2>3, <2>4, <2>5
<1> HIDE DEF w
<1>3. Good(r) /\ Keeps(q, r) /\ r.inPlay = q.inPlay /\ (Over(q) => Over(r))
  BY <1>1 DEF Good, Record, Fields, Flags, Sounding, Scored, Keeps, Over
<1>4. Good(w) /\ Keeps(q, w) /\ w.inPlay = q.inPlay /\ (Over(q) => Over(w))
  BY <1>2 DEF Good, Record, Fields, Flags, Sounding, Scored, Keeps, Over, Sounded
<1>5. Seek(q) \in {r, w} \/ (q.failed /\ Seek(q) = q)
  BY DEF Seek, r, w
<1>6. QED
  BY <1>1, <1>2, <1>3, <1>4, <1>5 DEF Keeps

LEMMA WatchGood ==
  ASSUME NEW q, NEW loads \in BOOLEAN, NEW sound \in BOOLEAN, NEW seeks \in BOOLEAN, Good(q)
  PROVE  Good(Watch(q, loads, sound, seeks)) /\ Stays(q, Watch(q, loads, sound, seeks))
<1> DEFINE r == [q EXCEPT !.playing = FALSE, !.paused = FALSE, !.cont = FALSE, !.watching = TRUE]
           w == Start(r, loads, sound)
<1>1. Startable(r)
  BY DEF Good, Scored, Record, Fields, Flags, Startable
<1>2. Watch(q, loads, sound, seeks) = IF seeks /\ loads THEN Seek(w) ELSE w
  BY DEF Watch
<1> HIDE DEF r
<1>3. Good(w) /\ Renewed(w) /\ ~w.failed
  BY <1>1, StartGood
<1> HIDE DEF w
<1>4. Good(Seek(w)) /\ ~Seek(w).submittable
  BY <1>3, SeekGood
<1>5. QED
  BY <1>2, <1>3, <1>4 DEF Stays

-----------------------------------------------------------------------------
(* What the pause makes of the flags before it is marked on the score.     *)
Paused(q, quitIfWaiting, c) ==
  IF q.playing
  THEN IF (q.waiting /\ quitIfWaiting) \/ (c.event = "over" /\ ~q.waiting)
       THEN Stop(q, c)
       ELSE [q EXCEPT !.music = Quieted(@), !.playing = FALSE, !.paused = TRUE]
  ELSE IF q.paused /\ ~q.cont
  THEN IF c.direct \/ q.watching
       THEN [q EXCEPT !.music = IF q.waiting THEN @ ELSE Sounded(@),
                      !.playing = TRUE, !.paused = FALSE]
       ELSE [q EXCEPT !.paused = FALSE, !.cont = TRUE]
  ELSE [q EXCEPT !.paused = ~@]

Marked(q, d) ==
  LET barred == d.paused /\ ~q.cont /\ ~SubmitAfterPause
  IN [d EXCEPT !.submittable = @ /\ ~barred, !.settled = @ /\ d.paused,
               !.anim = IF d.failed /\ @ = "running" THEN "held" ELSE @]

LEMMA PauseSplit ==
  ASSUME NEW q, NEW quitIfWaiting \in BOOLEAN, NEW c
  PROVE  Pause(q, quitIfWaiting, c) =
           IF q.overtime /\ c.early THEN q ELSE Marked(q, Paused(q, quitIfWaiting, c))
  BY DEF Pause, Paused, Marked

LEMMA PausedGood ==
  ASSUME NEW q, NEW quitIfWaiting \in BOOLEAN, NEW c \in Choices, Good(q), q.inPlay \/ q.overlay
  PROVE  LET d == Paused(q, quitIfWaiting, c)
         IN /\ Good(d) /\ Keeps(q, d) /\ d.own = q.own
            /\ d.inPlay = q.inPlay \/ d = Stop(q, c)
            /\ q.waiting /\ ~quitIfWaiting => d.inPlay = q.inPlay
<1> DEFINE d == Paused(q, quitIfWaiting, c)
<1> USE DEF Choices
<1>1. ASSUME q.playing, (q.waiting /\ quitIfWaiting) \/ (c.event = "over" /\ ~q.waiting)
      PROVE  /\ Good(d) /\ Keeps(q, d) /\ d.own = q.own
             /\ d = Stop(q, c) /\ ~(q.waiting /\ ~quitIfWaiting)
  <2>1. d = Stop(q, c)
    BY <1>1 DEF Paused
  <2>2. Stop(q, c).own = q.own
    BY DEF Good, Record, Fields, Flags, Stop
  <2>3. QED
    BY <1>1, <2>1, <2>2, StopGood
<1>2. ASSUME q.playing, ~((q.waiting /\ quitIfWaiting) \/ (c.event = "over" /\ ~q.waiting))
      PROVE  Good(d) /\ Keeps(q, d) /\ d.own = q.own /\ d.inPlay = q.inPlay
  <2>1. d = [q EXCEPT !.music = Quieted(q.music), !.playing = FALSE, !.paused = TRUE]
    BY <1>2 DEF Paused
  <2> HIDE DEF d
  <2>2. Record(d)
    BY <2>1 DEF Good, Record, Fields, Flags, Quieted
  <2>3. Sounding(d) /\ Scored(d)
    BY <2>1 DEF Good, Record, Fields, Flags, Quieted, Sounding, Scored
  <2>4. QED
    BY <2>1, <2>2, <2>3 DEF Good, Record, Fields, Flags, Keeps
<1>3. ASSUME ~q.playing, q.paused /\ ~q.cont, c.direct \/ q.watching
      PROVE  Good(d) /\ Keeps(q, d) /\ d.own = q.own /\ d.inPlay = q.inPlay
  <2>1. d = [q EXCEPT !.music = IF q.waiting THEN q.music ELSE Sounded(q.music),
                      !.playing = TRUE, !.paused = FALSE]
    BY <1>3 DEF Paused
  <2> HIDE DEF d
  <2>2. Record(d)
    BY <2>1 DEF Good, Record, Fields, Flags, Sounded
  <2>3. Sounding(d) /\ Scored(d)
    BY <2>1 DEF Good, Record, Fields, Flags, Sounded, Sounding, Scored
  <2>4. QED
    BY <2>1, <2>2, <2>3 DEF Good, Record, Fields, Flags, Keeps
<1>4. ASSUME ~q.playing, q.paused /\ ~q.cont, ~(c.direct \/ q.watching)
      PROVE  Good(d) /\ Keeps(q, d) /\ d.own = q.own /\ d.inPlay = q.inPlay
  <2>1. d = [q EXCEPT !.paused = FALSE, !.cont = TRUE]
    BY <1>4 DEF Paused
  <2> HIDE DEF d
  <2>2. Record(d)
    BY <2>1 DEF Good, Record, Fields, Flags
  <2>3. Sounding(d) /\ Scored(d)
    BY <1>4, <2>1 DEF Good, Record, Fields, Flags, Sounding, Scored
  <2>4. QED
    BY <2>1, <2>2, <2>3 DEF Good, Record, Fields, Flags, Keeps
<1>5. ASSUME ~q.playing, ~(q.paused /\ ~q.cont)
      PROVE  Good(d) /\ Keeps(q, d) /\ d.own = q.own /\ d.inPlay = q.inPlay
  <2>1. d = [q EXCEPT !.paused = ~q.paused]
    BY <1>5 DEF Paused
  <2> HIDE DEF d
  <2>2. Record(d)
    BY <2>1 DEF Good, Record, Fields, Flags
  <2>3. Sounding(d) /\ Scored(d)
    BY <1>5, <2>1 DEF Good, Record, Fields, Flags, Sounding, Scored
  <2>4. QED
    BY <2>1, <2>2, <2>3 DEF Good, Record, Fields, Flags, Keeps
<1> HIDE DEF d
<1>6. QED
  BY <1>1, <1>2, <1>3, <1>4, <1>5 DEF d

LEMMA MarkedGood ==
  ASSUME NEW q, NEW d, Good(d), q.cont \in BOOLEAN
  PROVE  /\ Good(Marked(q, d)) /\ Marked(q, d).own = d.own /\ Marked(q, d).inPlay = d.inPlay
         /\ Keeps(d, Marked(q, d)) /\ (Over(d) => Over(Marked(q, d)))
<1> DEFINE barred == d.paused /\ ~q.cont /\ ~SubmitAfterPause
           m == Marked(q, d)
<1>1. m = [d EXCEPT !.submittable = d.submittable /\ ~barred,
                    !.settled = d.settled /\ d.paused,
                    !.anim = IF d.failed /\ d.anim = "running" THEN "held" ELSE d.anim]
  BY DEF Marked
<1>2. barred \in BOOLEAN /\ (barred => d.paused)
  BY DEF Good, Record, Flags
<1> HIDE DEF barred, m
<1>3. /\ m.submittable = (d.submittable /\ ~barred)
      /\ m.settled = (d.settled /\ d.paused)
      /\ m.anim \in {"full", "running", "held", "over"}
      /\ DOMAIN m = Fields
  BY <1>1 DEF Good, Record, Fields, Flags
<1>4. \A f \in Fields \ {"submittable", "settled", "anim"} : m[f] = d[f]
  BY <1>1 DEF Good, Record
<1>5. Record(m)
  <2>1. m.submittable \in BOOLEAN /\ m.settled \in BOOLEAN
    BY <1>2, <1>3 DEF Good, Record, Flags
  <2>2. \A f \in Flags \ {"submittable", "settled"} : m[f] \in BOOLEAN
    BY <1>4 DEF Good, Record, Fields, Flags
  <2>3. m.music = d.music /\ m.result = d.result
    BY <1>4 DEF Fields
  <2>4. QED
    BY <1>3, <2>1, <2>2, <2>3 DEF Good, Record
<1>6. Sounding(m) /\ Scored(m)
  BY <1>2, <1>3, <1>4 DEF Good, Record, Fields, Flags, Sounding, Scored
<1>7. m.own = d.own /\ m.inPlay = d.inPlay /\ Keeps(d, m) /\ (Over(d) => Over(m))
  BY <1>2, <1>3, <1>4 DEF Good, Record, Fields, Flags, Over, Keeps
<1>8. QED
  BY <1>5, <1>6, <1>7 DEF Good, m

LEMMA PauseGood ==
  ASSUME NEW q, NEW quitIfWaiting \in BOOLEAN, NEW c \in Choices, Good(q), q.inPlay \/ q.overlay
  PROVE  LET r == Pause(q, quitIfWaiting, c)
         IN /\ Good(r) /\ Keeps(q, r) /\ r.own = q.own
            /\ r.inPlay = q.inPlay \/ (~r.inPlay /\ Over(r))
            /\ q.waiting /\ ~quitIfWaiting => r.inPlay = q.inPlay
<1> DEFINE d == Paused(q, quitIfWaiting, c)
           r == Pause(q, quitIfWaiting, c)
<1>1. CASE q.overtime /\ c.early
  BY <1>1, PauseSplit DEF Keeps
<1>2. CASE ~(q.overtime /\ c.early)
  <2>1. r = Marked(q, d)
    BY <1>2, PauseSplit
  <2>2. /\ Good(d) /\ Keeps(q, d) /\ d.own = q.own
        /\ d.inPlay = q.inPlay \/ d = Stop(q, c)
        /\ q.waiting /\ ~quitIfWaiting => d.inPlay = q.inPlay
    BY PausedGood
  <2>3. Good(r) /\ r.own = d.own /\ r.inPlay = d.inPlay /\ Keeps(d, r) /\ (Over(d) => Over(r))
    BY <2>1, <2>2, MarkedGood DEF Good, Record, Flags
  <2>4. d = Stop(q, c) => ~d.inPlay /\ Over(d)
    BY StopGood
  <2> HIDE DEF d, r
  <2>5. QED
    BY <2>2, <2>3, <2>4 DEF Keeps, d, r
<1>3. QED
  BY <1>1, <1>2

-----------------------------------------------------------------------------
LEMMA RestartGood ==
  ASSUME NEW q, NEW quick \in BOOLEAN, NEW c \in Choices, Good(q), q.inPlay \/ q.overlay \/ ~q.paused
  PROVE  LET r == Restart(q, quick, c)
         IN /\ Good(r) /\ Keeps(q, r) /\ r.inPlay = q.inPlay /\ r.own = q.own
            /\ Over(q) => r = q \/ r.restart
<1> DEFINE r == Restart(q, quick, c)
<1>1. ASSUME ~q.waiting
      PROVE  Good(r) /\ Keeps(q, r) /\ r.inPlay = q.inPlay /\ r.own = q.own /\ r.restart
  <2>1. r = [q EXCEPT !.restart = TRUE, !.quick = quick]
    BY <1>1 DEF Restart
  <2> HIDE DEF r
  <2>2. Record(r)
    BY <2>1 DEF Good, Record, Fields, Flags
  <2>3. Sounding(r) /\ Scored(r)
    BY <2>1 DEF Good, Record, Fields, Flags, Sounding, Scored
  <2>4. QED
    BY <2>1, <2>2, <2>3 DEF Good, Record, Fields, Flags, Keeps
<1>2. ASSUME q.waiting, q.paused
      PROVE  Good(r) /\ Keeps(q, r) /\ r.inPlay = q.inPlay /\ r.own = q.own
  <2>1. r = Pause(q, FALSE, c)
    BY <1>2 DEF Restart
  <2>2. q.waiting /\ ~FALSE /\ (q.inPlay \/ q.overlay)
    BY <1>2
  <2> HIDE DEF r
  <2>3. QED
    BY <2>1, <2>2, PauseGood
<1>3. ASSUME q.waiting, ~q.paused
      PROVE  r = q /\ Keeps(q, r)
  BY <1>3 DEF Restart, Keeps
<1> HIDE DEF r
<1>4. Over(q) => ~q.paused
  BY DEF Over
<1>5. QED
  BY <1>1, <1>2, <1>3, <1>4 DEF r

LEMMA ActualRestartGood ==
  ASSUME NEW q, Good(q)
  PROVE  /\ Good(ActualRestart(q)) /\ Renewed(ActualRestart(q))
         /\ ActualRestart(q).inPlay = q.inPlay
<1> DEFINE z == ResetScore(q)
           r == ActualRestart(q)
<1>1. Record(z) /\ z.submittable = q.defaults /\ q.defaults \in BOOLEAN
      /\ \A f \in Fields \ {"submittable", "failed", "anim"} : z[f] = q[f]
  BY ResetScoreFields DEF Good, Record, Flags
<1>2. r = [z EXCEPT !.waiting = TRUE, !.playing = TRUE, !.paused = FALSE, !.cont = FALSE,
                    !.music = Quieted(z.music), !.result = "none",
                    !.retried = TRUE, !.jumped = FALSE]
  BY DEF ActualRestart
<1> HIDE DEF z, r
<1>3. /\ DOMAIN r = Fields /\ r.music = Quieted(z.music) /\ r.result = "none"
      /\ r.waiting = TRUE /\ r.playing = TRUE /\ r.paused = FALSE /\ r.cont = FALSE
      /\ r.retried = TRUE /\ r.jumped = FALSE
  BY <1>1, <1>2 DEF Record, Fields, Flags
<1>4. \A f \in Fields \ {"waiting", "playing", "paused", "cont", "music", "result", "retried", "jumped"} :
        r[f] = z[f]
  BY <1>1, <1>2 DEF Record
<1>5. Record(r)
  <2>1. \A f \in Flags : r[f] \in BOOLEAN
    <3>1. r.waiting \in BOOLEAN /\ r.playing \in BOOLEAN /\ r.paused \in BOOLEAN /\ r.cont \in BOOLEAN
          /\ r.retried \in BOOLEAN /\ r.jumped \in BOOLEAN
      BY <1>3
    <3>2. \A f \in Flags \ {"waiting", "playing", "paused", "cont", "retried", "jumped"} : r[f] \in BOOLEAN
      BY <1>1, <1>4 DEF Record, Fields, Flags
    <3>3. QED
      BY <3>1, <3>2
  <2>2. r.anim = z.anim /\ r.music \in {"menu", "broken", "quiet", "playing", "ended"}
    BY <1>1, <1>3, <1>4 DEF Record, Fields, Quieted
  <2>3. QED
    BY <1>1, <1>3, <2>1, <2>2 DEF Record
<1>6. Sounding(r)
  BY <1>1, <1>3, <1>4 DEF Good, Record, Fields, Flags, Sounding, Quieted
<1>7. Scored(r)
  <2>1. /\ r.submittable = q.defaults /\ r.inPlay = q.inPlay
        /\ r.own = q.own /\ r.watching = q.watching /\ r.overlay = q.overlay
    BY <1>1, <1>4 DEF Fields, Flags
  <2>2. QED
    BY <1>1, <1>3, <2>1 DEF Good, Scored
<1>8. r.inPlay = q.inPlay /\ Renewed(r)
  BY <1>1, <1>3, <1>4 DEF Fields, Flags, Renewed
<1>9. QED
  BY <1>3, <1>5, <1>6, <1>7, <1>8 DEF Good, r

LEMMA ContinueGood ==
  ASSUME NEW q, Good(q)
  PROVE  LET r == Continue(q)
         IN Good(r) /\ Keeps(q, r) /\ r.inPlay = q.inPlay /\ r.restart = q.restart
<1> DEFINE r == Continue(q)
           early == ~q.paused /\ q.waiting
<1>1. CASE ~(q.cont /\ (q.clicked \/ early))
  BY <1>1 DEF Continue, Keeps
<1>2. CASE q.cont /\ (q.clicked \/ early)
  <2>1. r = [q EXCEPT !.clicked = FALSE, !.cont = FALSE, !.paused = FALSE, !.playing = TRUE,
                      !.music = IF early THEN q.music ELSE Sounded(q.music)]
    BY <1>2 DEF Continue
  <2> HIDE DEF r
  <2>2. Record(r)
    BY <2>1 DEF Good, Record, Fields, Flags, Sounded
  <2>3. Sounding(r)
    BY <2>1 DEF Good, Record, Fields, Flags, Sounding, Sounded
  <2>4. Scored(r)
    BY <2>1 DEF Good, Record, Fields, Flags, Scored
  <2>5. Keeps(q, r) /\ r.inPlay = q.inPlay /\ r.restart = q.restart
    BY <2>1 DEF Good, Record, Fields, Flags, Keeps
  <2>6. QED
    BY <2>2, <2>3, <2>4, <2>5 DEF Good, r
<1>3. QED
  BY <1>1, <1>2

LEMMA EndWaitGood ==
  ASSUME NEW q, NEW c \in Choices, Good(q)
  PROVE  LET r == EndWait(q, c)
         IN Good(r) /\ Keeps(q, r) /\ r.inPlay = q.inPlay /\ r.restart = q.restart
<1> DEFINE r == EndWait(q, c)
<1>1. CASE ~(q.waiting /\ ~q.preload /\ c.ready /\ ~q.paused)
  BY <1>1 DEF EndWait, Keeps
<1>2. CASE q.waiting /\ ~q.preload /\ c.ready /\ ~q.paused
  <2>1. r = [q EXCEPT !.waiting = FALSE, !.playing = TRUE, !.jumped = q.quick, !.quick = FALSE,
                      !.music = Sounded(q.music)]
    BY <1>2 DEF EndWait
  <2> HIDE DEF r
  <2>2. Record(r)
    BY <2>1 DEF Good, Record, Fields, Flags, Sounded
  <2>3. Sounding(r)
    BY <2>1 DEF Good, Record, Fields, Flags, Sounding, Sounded
  <2>4. Scored(r)
    BY <2>1 DEF Good, Record, Fields, Flags, Scored
  <2>5. Keeps(q, r) /\ r.inPlay = q.inPlay /\ r.restart = q.restart
    BY <2>1 DEF Good, Record, Fields, Flags, Keeps
  <2>6. QED
    BY <2>2, <2>3, <2>4, <2>5 DEF Good, r
<1>3. QED
  BY <1>1, <1>2

LEMMA OvertimeGood ==
  ASSUME NEW q, NEW o \in BOOLEAN, Good(q)
  PROVE  LET r == [q EXCEPT !.overtime = o]
         IN Good(r) /\ Keeps(q, r) /\ r.inPlay = q.inPlay
<1> DEFINE r == [q EXCEPT !.overtime = o]
<1>1. Record(r)
  BY DEF Good, Record, Fields, Flags
<1>2. Sounding(r) /\ Scored(r) /\ Keeps(q, r) /\ r.inPlay = q.inPlay
  BY DEF Good, Record, Fields, Flags, Sounding, Scored, Keeps
<1>3. QED
  BY <1>1, <1>2 DEF Good

LEMMA JudgeGood ==
  ASSUME NEW q, NEW c \in Choices, Good(q)
  PROVE  LET r == Judge(q, c)
         IN Good(r) /\ Keeps(q, r) /\ r.inPlay = q.inPlay
<1> DEFINE f == [q EXCEPT !.failed = TRUE, !.anim = "running"]
           d == [q EXCEPT !.submittable = FALSE]
           s == Restart(q, FALSE, c)
<1>1. Judge(q, c) \in {q, f, d} \/ (~q.paused /\ Judge(q, c) = s)
  <2>1. CASE ~q.playing \/ q.paused \/ q.waiting
    BY <2>1 DEF Judge
  <2>2. CASE ~(~q.playing \/ q.paused \/ q.waiting)
    <3>1. Judge(q, c) = CASE c.event = "restart" -> s
                          [] c.event = "fail" /\ ~q.failed /\ ~q.watching -> f
                          [] c.event = "die" /\ ~q.failed /\ ~q.watching -> d
                          [] OTHER -> q
      BY <2>2 DEF Judge
    <3> HIDE DEF s, f, d
    <3>2. QED
      BY <2>2, <3>1
  <2>3. QED
    BY <2>1, <2>2
<1>2. ~q.paused => Good(s) /\ Keeps(q, s) /\ s.inPlay = q.inPlay
  BY RestartGood
<1>3. Good(f) /\ Keeps(q, f) /\ f.inPlay = q.inPlay
  <2>1. Record(f)
    BY DEF Good, Record, Fields, Flags
  <2>2. Sounding(f) /\ Scored(f) /\ Keeps(q, f) /\ f.inPlay = q.inPlay
    BY DEF Good, Record, Fields, Flags, Sounding, Scored, Keeps
  <2>3. QED
    BY <2>1, <2>2 DEF Good
<1>4. Good(d) /\ Keeps(q, d) /\ d.inPlay = q.inPlay
  <2>1. Record(d)
    BY DEF Good, Record, Fields, Flags
  <2>2. Sounding(d) /\ Scored(d) /\ Keeps(q, d) /\ d.inPlay = q.inPlay
    BY DEF Good, Record, Fields, Flags, Sounding, Scored, Keeps
  <2>3. QED
    BY <2>1, <2>2 DEF Good
<1> HIDE DEF f, d, s
<1>5. Keeps(q, q)
  BY DEF Keeps
<1>6. QED
  BY <1>1, <1>2, <1>3, <1>4, <1>5

LEMMA ShowFailGood ==
  ASSUME NEW q, Good(q), q.inPlay
  PROVE  LET r == ShowFail(q)
         IN Good(r) /\ Keeps(q, r) /\ r.inPlay
<1> DEFINE w == [q EXCEPT !.music = Quieted(q.music), !.paused = TRUE]
<1>1. ShowFail(q) \in {q, SetVisible(w, TRUE)}
  BY DEF ShowFail
<1>2. Record(w)
  BY DEF Good, Record, Fields, Flags, Quieted
<1>3. Sounding(w) /\ Scored(w) /\ Keeps(q, w) /\ w.inPlay
  BY DEF Good, Record, Fields, Flags, Sounding, Scored, Keeps, Quieted
<1> HIDE DEF w
<1>4. Good(w)
  BY <1>2, <1>3 DEF Good
<1>5. w.own \/ w.watching
  BY <1>4, <1>3 DEF Good, Scored, Record, Flags
<1>6. Good(SetVisible(w, TRUE)) /\ Keeps(w, SetVisible(w, TRUE)) /\ SetVisible(w, TRUE).inPlay
  BY <1>3, <1>4, <1>5, SetVisibleGood
<1>7. QED
  BY <1>1, <1>3, <1>6 DEF Keeps

LEMMA Update2Good ==
  ASSUME NEW q, NEW c \in Choices, Good(q), q.inPlay \/ q.restart
  PROVE  LET r == Update2(q, c)
         IN Good(r) /\ Stays(q, r) /\ (q.inPlay => r.inPlay \/ Over(r))
<1> DEFINE r == Update2(q, c)
           a == Continue(q)
           b == EndWait(a, c)
           o == [b EXCEPT !.overtime = IF b.waiting THEN b.overtime ELSE b.music = "ended"]
           j == Judge(o, c)
           e == [a EXCEPT !.restart = FALSE]
<1>1. Good(a) /\ Keeps(q, a) /\ a.inPlay = q.inPlay /\ a.restart = q.restart
  BY ContinueGood
<1>2. r = IF a.restart THEN ActualRestart(e)
          ELSE IF b.preload THEN b
          ELSE IF b.music = "broken" THEN Stop(b, c)
          ELSE IF ~o.waiting /\ c.event = "over" /\ ~o.failed THEN Stop(o, c)
          ELSE ShowFail(j)
  BY DEF Update2
<1> HIDE DEF r, a
<1>3. CASE a.restart
  <2>1. Record(e)
    BY <1>1 DEF Good, Record, Fields, Flags
  <2>2. Sounding(e) /\ Scored(e) /\ e.inPlay = a.inPlay
    BY <1>1 DEF Good, Record, Fields, Flags, Sounding, Scored
  <2>3. Good(ActualRestart(e)) /\ Renewed(ActualRestart(e)) /\ ActualRestart(e).inPlay = e.inPlay
    BY <2>1, <2>2, ActualRestartGood DEF Good
  <2>4. r = ActualRestart(e)
    BY <1>2, <1>3
  <2>5. QED
    BY <1>1, <2>2, <2>3, <2>4 DEF Stays, r
<1>4. CASE ~a.restart
  <2>1. Good(b) /\ Keeps(a, b) /\ b.inPlay = a.inPlay
    BY <1>1, EndWaitGood
  <2>2. q.inPlay /\ b.inPlay
    BY <1>1, <1>4, <2>1 DEF Good, Record, Flags
  <2>3. (IF b.waiting THEN b.overtime ELSE b.music = "ended") \in BOOLEAN
    BY <2>1 DEF Good, Record, Flags
  <2> HIDE DEF b
  <2>4. Good(o) /\ Keeps(b, o) /\ o.inPlay
    BY <2>1, <2>2, <2>3, OvertimeGood
  <2> HIDE DEF o
  <2>5. Good(j) /\ Keeps(o, j) /\ j.inPlay
    BY <2>4, JudgeGood
  <2> HIDE DEF j
  <2>6. Good(ShowFail(j)) /\ Keeps(j, ShowFail(j)) /\ ShowFail(j).inPlay
    BY <2>5, ShowFailGood
  <2>7. Good(Stop(b, c)) /\ Stays(b, Stop(b, c)) /\ Over(Stop(b, c)) 
    BY <2>1, <2>2, StopGood
  <2>8. Good(Stop(o, c)) /\ Stays(o, Stop(o, c)) /\ Over(Stop(o, c)) 
    BY <2>4, StopGood
  <2>9. r \in {b, Stop(b, c), Stop(o, c), ShowFail(j)}
    BY <1>2, <1>4
  <2>10. Keeps(q, b) /\ Keeps(q, o) /\ Keeps(q, ShowFail(j))
    BY <1>1, <2>1, <2>4, <2>5, <2>6 DEF Keeps
  <2>11. Stays(q, b) /\ Stays(q, Stop(b, c)) /\ Stays(q, Stop(o, c)) /\ Stays(q, ShowFail(j))
    BY <2>7, <2>8, <2>10 DEF Stays, Keeps
  <2>12. QED
    BY <2>1, <2>2, <2>6, <2>7, <2>8, <2>9, <2>11 DEF r
<1>5. QED
  BY <1>3, <1>4 DEF r

LEMMA UpdateGood ==
  ASSUME NEW q, NEW c \in Choices, Good(q),
         q.inPlay \/ q.restart \/ ~(q.playing \/ q.paused \/ q.cont)
  PROVE  LET r == Update(q, c)
         IN Good(r) /\ Stays(q, r) /\ (q.inPlay => r.inPlay \/ Over(r))
<1> DEFINE u == Update2(q, c)
           r == [u EXCEPT !.preload = u.preload /\ ~c.ready]
<1>1. CASE ~q.playing /\ ~q.paused /\ ~q.cont
  BY <1>1 DEF Update, Stays
<1>2. CASE ~(~q.playing /\ ~q.paused /\ ~q.cont)
  <2>1. Good(u) /\ Stays(q, u) /\ (q.inPlay => u.inPlay \/ Over(u))
    BY <1>2, Update2Good
  <2>2. Update(q, c) = r
    BY <1>2 DEF Update
  <2>3. (u.preload /\ ~c.ready) \in BOOLEAN
    OBVIOUS
  <2> HIDE DEF u
  <2>4. Record(r)
    BY <2>1, <2>3 DEF Good, Record, Fields, Flags
  <2>5. Sounding(r) /\ Scored(r)
    BY <2>1 DEF Good, Record, Fields, Flags, Sounding, Scored
  <2>6. Keeps(u, r) /\ Follows(u, r) /\ r.inPlay = u.inPlay /\ (Over(u) => Over(r))
    BY <2>1 DEF Good, Record, Fields, Flags, Over, Keeps, Follows, Renewed
  <2> HIDE DEF r
  <2>7. QED
    BY <2>1, <2>2, <2>4, <2>5, <2>6 DEF Good, Stays, Keeps, Follows
<1>3. QED
  BY <1>1, <1>2

LEMMA HiddenGood ==
  ASSUME NEW q, Good(q)
  PROVE  Good(Hidden(q)) /\ Keeps(q, Hidden(q)) /\ Follows(q, Hidden(q))
<1> DEFINE v == [q EXCEPT !.hide = TRUE, !.canContinue = TRUE]
           w == [q EXCEPT !.canContinue = TRUE]
<1>1. Record(v) /\ Record(w)
  BY DEF Good, Record, Fields, Flags
<1>2. Sounding(v) /\ Scored(v) /\ Keeps(q, v) /\ Follows(q, v)
  BY DEF Good, Record, Fields, Flags, Sounding, Scored, Keeps, Follows, Renewed
<1>3. Sounding(w) /\ Scored(w) /\ Keeps(q, w) /\ Follows(q, w)
  BY DEF Good, Record, Fields, Flags, Sounding, Scored, Keeps, Follows, Renewed
<1>4. Hidden(q) \in {v, w}
  BY DEF Hidden
<1> HIDE DEF v, w
<1>5. QED
  BY <1>1, <1>2, <1>3, <1>4 DEF Good

-----------------------------------------------------------------------------
(* What each step has to show; the rest of the frame is only bound when    *)
(* update() has run in it.                                                 *)
Step == IInv' /\ Stays(p, p')

LEMMA InitGood == Init => IInv
<1> SUFFICES ASSUME Init PROVE IInv
  OBVIOUS
<1> DEFINE z == [f \in Fields |-> f \in {"submittable", "defaults", "canContinue"}]
<1>1. /\ DOMAIN z = Fields /\ \A f \in Flags : z[f] \in BOOLEAN
      /\ z.inPlay = FALSE /\ z.overlay = FALSE
  <2>1. \A f \in Fields : z[f] = (f \in {"submittable", "defaults", "canContinue"})
    OBVIOUS
  <2>2. \A f \in Flags : z[f] \in BOOLEAN
    BY <2>1 DEF Fields
  <2> HIDE DEF z
  <2>3. \A f \in {"inPlay", "overlay"} : ~z[f] /\ z[f] \in BOOLEAN
    BY <2>1, <2>2 DEF Fields, Flags
  <2>4. z.inPlay = FALSE /\ z.overlay = FALSE
    BY <2>3
  <2>5. QED
    BY <2>2, <2>4 DEF z
<1>2. p = [z EXCEPT !.anim = "full", !.music = "menu", !.result = "none"]
  BY DEF Init
<1> HIDE DEF z
<1>3. Good(p)
  BY <1>1, <1>2 DEF Good, Record, Fields, Flags, Sounding, Scored
<1>4. QED
  BY <1>3 DEF IInv, FrameInv, Init, Stages

(* A step of the input stage, or one that leaves the map in play, is not   *)
(* bound by FrameInv.                                                      *)
LEMMA StepIntro ==
  ASSUME Good(p'), Stays(p, p'), at' \in Stages, downloading' \in BOOLEAN,
         at' \in {"input", "map"} \/ p'.inPlay \/ Over(p')
  PROVE  Step
  BY DEF Step, IInv, FrameInv

LEMMA Chained ==
  ASSUME NEW q, NEW r, NEW t, (Keeps(q, r) /\ Stays(r, t)) \/ (Stays(q, r) /\ Keeps(r, t) /\ Follows(r, t))
  PROVE  Stays(q, t)
  BY DEF Keeps, Stays, Follows

LEMMA InOwn == ASSUME NEW q, Good(q), q.inPlay PROVE q.own \/ q.watching
  BY DEF Good, Scored, Record, Flags

LEMMA Picking == ASSUME IInv, PickMap \/ PickReplay \/ RequestReplay PROVE Step
<1>1. CASE PickMap
  <2>1. PICK loads \in BOOLEAN, sound \in BOOLEAN : p' = Start([p EXCEPT !.watching = FALSE], loads, sound)
    BY <1>1 DEF PickMap
  <2> DEFINE w == [p EXCEPT !.watching = FALSE]
  <2>2. Startable(w)
    BY <1>1 DEF IInv, Good, Scored, Record, Fields, Flags, Startable, PickMap
  <2> HIDE DEF w
  <2>3. Good(p') /\ Renewed(p')
    BY <2>1, <2>2, StartGood DEF w
  <2>4. QED
    BY <1>1, <2>3, StepIntro DEF Stays, PickMap, Stay, Input, IInv, Stages
<1>2. CASE PickReplay
  <2>1. PICK loads \in BOOLEAN, sound \in BOOLEAN : p' = Watch(p, loads, sound, FALSE)
    BY <1>2 DEF PickReplay
  <2>2. Good(p') /\ Stays(p, p')
    BY <2>1, WatchGood DEF IInv
  <2>3. QED
    BY <1>2, <2>2, StepIntro DEF Stays, PickReplay, Stay, Input, IInv, Stages
<1>3. CASE RequestReplay
  BY <1>3, StepIntro DEF Stays, RequestReplay, Input, IInv, Stages
<1>4. QED
  BY <1>1, <1>2, <1>3

LEMMA Replaying == ASSUME IInv, ReplayArrives \/ InstantReplay PROVE Step
<1>1. ASSUME p' = p PROVE Good(p') /\ Stays(p, p')
  BY <1>1 DEF IInv, Stays
<1>2. CASE ReplayArrives
  <2>1. Good(p') /\ Stays(p, p')
    <3>1. ASSUME NEW loads \in BOOLEAN, NEW sound \in BOOLEAN, p' = Watch(p, loads, sound, FALSE)
          PROVE  Good(p') /\ Stays(p, p')
      <4>1. Good(Watch(p, loads, sound, FALSE)) /\ Stays(p, Watch(p, loads, sound, FALSE))
        BY <3>1, WatchGood DEF IInv
      <4>2. QED
        BY <3>1, <4>1 DEF Stays
    <3>2. QED
      BY <1>1, <1>2, <3>1 DEF ReplayArrives
  <2>2. QED
    BY <1>2, <2>1, StepIntro DEF ReplayArrives, Input, IInv, Stages
<1>3. CASE InstantReplay
  <2> DEFINE w == CancelFailing(p)
  <2>1. Good(w) /\ Keeps(p, w)
    BY CancelFailingGood DEF IInv
  <2> HIDE DEF w
  <2>2. ASSUME NEW loads \in BOOLEAN, NEW sound \in BOOLEAN, NEW seeks \in BOOLEAN,
               p' = Watch(w, loads, sound, seeks)
        PROVE  Good(p') /\ Stays(p, p')
    <3>1. Good(Watch(w, loads, sound, seeks)) /\ Stays(w, Watch(w, loads, sound, seeks))
      BY <2>1, <2>2, WatchGood
    <3>2. QED
      BY <2>1, <2>2, <3>1 DEF Keeps, Stays
  <2>3. p' = w => Good(p') /\ Stays(p, p')
    BY <2>1 DEF Keeps, Stays
  <2>4. Good(p') /\ Stays(p, p')
    BY <1>3, <2>2, <2>3 DEF InstantReplay, w
  <2>5. QED
    BY <1>3, <2>4, StepIntro DEF InstantReplay, Stay, Input, IInv, Stages
<1>4. QED
  BY <1>2, <1>3

LEMMA Escaping == ASSUME IInv, PressEscape PROVE Step
<1>1. PICK c \in Pausing :
        p' = IF ~Pause(p, TRUE, c).inPlay THEN Pause(p, TRUE, c)
             ELSE IF Pause(p, TRUE, c).overlay /\ Pause(p, TRUE, c).failed THEN Stop(Pause(p, TRUE, c), c)
             ELSE SetVisible(Pause(p, TRUE, c), ~Pause(p, TRUE, c).overlay)
  BY DEF PressEscape
<1> DEFINE q == Pause(p, TRUE, c)
<1>2. c \in Choices
  BY DEF Pausing
<1>3. Good(q) /\ Keeps(p, q)
  BY <1>2, PauseGood DEF IInv, PressEscape
<1>4. p' = IF ~q.inPlay THEN q ELSE IF q.overlay /\ q.failed THEN Stop(q, c) ELSE SetVisible(q, ~q.overlay)
  BY <1>1
<1> HIDE DEF q
<1>5. q.inPlay => Good(Stop(q, c)) /\ Stays(p, Stop(q, c))
  BY <1>2, <1>3, StopGood, Chained
<1>6. q.inPlay => Good(SetVisible(q, ~q.overlay)) /\ Stays(p, SetVisible(q, ~q.overlay))
  BY <1>3, SetVisibleGood, InOwn DEF Keeps, Stays
<1>7. Stays(p, q)
  BY <1>3 DEF Keeps, Stays
<1>8. QED
  BY <1>3, <1>4, <1>5, <1>6, <1>7, StepIntro DEF PressEscape, Stay, Input, IInv, Stages

LEMMA Unfocused == ASSUME IInv, LoseFocus PROVE Step
<1>1. PICK c \in Pausing : p' = SetVisible(Pause(p, FALSE, c), TRUE)
  BY DEF LoseFocus
<1> DEFINE q == Pause(p, FALSE, c)
<1>2. c \in Choices
  BY DEF Pausing
<1>3. Good(q) /\ Keeps(p, q) /\ q.own = p.own
  BY <1>2, PauseGood DEF IInv, LoseFocus
<1>4. p' = SetVisible(q, TRUE)
  BY <1>1
<1>5. p.own
  BY InOwn DEF IInv, LoseFocus
<1> HIDE DEF q
<1>6. Good(p') /\ Stays(p, p')
  <2>1. q.own \/ q.watching
    BY <1>3, <1>5
  <2>2. Good(p') /\ Keeps(q, p')
    BY <1>3, <1>4, <2>1, SetVisibleGood
  <2>3. QED
    BY <1>3, <2>2 DEF Keeps, Stays
<1>7. QED
  BY <1>6, StepIntro DEF LoseFocus, Stay, Input, IInv, Stages

LEMMA Seeking == ASSUME IInv, PressSeek \/ Scrub PROVE Step
<1> DEFINE w == CancelFailing(p)
           s == Seek(w)
<1>1. Good(w) /\ Keeps(p, w) /\ w.inPlay = p.inPlay /\ (Over(p) => Over(w))
  BY CancelFailingGood DEF IInv
<1> HIDE DEF w
<1>2. Good(s) /\ Keeps(w, s) /\ s.inPlay = w.inPlay /\ (Over(w) => Over(s))
  BY <1>1, SeekGood
<1> HIDE DEF s
<1>3. Stays(p, s) /\ Stays(p, p)
  BY <1>1, <1>2 DEF Stays, Keeps
<1>4. CASE PressSeek
  BY <1>2, <1>3, <1>4, StepIntro DEF PressSeek, Stay, Input, IInv, Stages, w, s
<1>5. CASE Scrub
  <2>1. p' \in {p, s} /\ at' = "retry" /\ at = "seek" /\ downloading' = downloading
    BY <1>5 DEF Scrub, w, s
  <2>2. p.inPlay \/ Over(p)
    BY <2>1 DEF IInv, FrameInv
  <2>3. QED
    BY <1>1, <1>2, <1>3, <2>1, <2>2, StepIntro DEF IInv, Stages
<1>6. QED
  BY <1>4, <1>5

LEMMA Overlaying == ASSUME IInv, OverlayContinue \/ OverlayRetry \/ OverlayBack PROVE Step
<1>1. ASSUME NEW q, Good(q), Stays(p, q), p' = Hidden(q) PROVE Good(p') /\ Stays(p, p')
  <2>1. Good(p') /\ Keeps(q, p') /\ Follows(q, p')
    BY <1>1, HiddenGood
  <2>2. QED
    BY <1>1, <2>1, Chained
<1>2. OverlayContinue => Good(p') /\ Stays(p, p')
  <2> SUFFICES ASSUME OverlayContinue PROVE Good(p') /\ Stays(p, p')
    OBVIOUS
  <2>1. PICK c \in Pausing : p' = Hidden(Pause(p, TRUE, c))
    BY DEF OverlayContinue
  <2>2. Good(Pause(p, TRUE, c)) /\ Stays(p, Pause(p, TRUE, c))
    BY PauseGood DEF OverlayContinue, IInv, Pausing, Keeps, Stays
  <2>3. QED
    BY <1>1, <2>1, <2>2
<1>3. OverlayRetry => Good(p') /\ Stays(p, p')
  <2> SUFFICES ASSUME OverlayRetry PROVE Good(p') /\ Stays(p, p')
    OBVIOUS
  <2>1. PICK c \in Pausing : p' = Hidden(Restart(p, FALSE, c))
    BY DEF OverlayRetry
  <2>2. Good(Restart(p, FALSE, c)) /\ Keeps(p, Restart(p, FALSE, c))
    BY RestartGood DEF OverlayRetry, IInv, Pausing
  <2>3. QED
    BY <1>1, <2>1, <2>2 DEF Keeps, Stays
<1>4. OverlayBack => Good(p') /\ Stays(p, p')
  <2> SUFFICES ASSUME OverlayBack PROVE Good(p') /\ Stays(p, p')
    OBVIOUS
  <2>1. PICK c \in Ending : p' = Hidden(Stop(p, c))
    BY DEF OverlayBack
  <2>2. Good(Stop(p, c)) /\ Stays(p, Stop(p, c))
    BY StopGood DEF OverlayBack, IInv, Ending, Pausing
  <2>3. QED
    BY <1>1, <2>1, <2>2
<1>5. at' \in {"input", "map"} /\ downloading' = downloading
  BY DEF OverlayContinue, OverlayRetry, OverlayBack, Stay
<1>6. QED
  BY <1>2, <1>3, <1>4, <1>5, StepIntro DEF IInv, Stages

LEMMA Touching == ASSUME IInv, ClickContinue \/ ChangeConvar \/ MusicEnds \/ Fade PROVE Step
<1>1. at' = "input" /\ downloading' = downloading
  BY DEF ClickContinue, ChangeConvar, MusicEnds, Fade, Stay, Input
<1>2. Good(p) /\ downloading \in BOOLEAN
  BY DEF IInv
<1>3. CASE ClickContinue
  <2>1. p' = [p EXCEPT !.clicked = TRUE]
    BY <1>3 DEF ClickContinue
  <2>2. Record(p')
    BY <1>2, <2>1 DEF Good, Record, Fields, Flags
  <2>3. Sounding(p') /\ Scored(p') /\ Stays(p, p')
    BY <1>2, <2>1 DEF Good, Record, Fields, Flags, Sounding, Scored, Stays
  <2>4. QED
    BY <1>1, <1>2, <2>2, <2>3, StepIntro DEF Good, Stages
<1>4. CASE ChangeConvar
  <2>1. PICK v \in BOOLEAN : p' = [p EXCEPT !.defaults = v, !.submittable = FALSE]
    BY <1>4 DEF ChangeConvar
  <2>2. Record(p')
    BY <1>2, <2>1 DEF Good, Record, Fields, Flags
  <2>3. Sounding(p') /\ Scored(p') /\ Stays(p, p')
    BY <1>2, <2>1 DEF Good, Record, Fields, Flags, Sounding, Scored, Stays
  <2>4. QED
    BY <1>1, <1>2, <2>2, <2>3, StepIntro DEF Good, Stages
<1>5. CASE MusicEnds
  <2>1. p' = [p EXCEPT !.music = "ended"] /\ p.music = "playing"
    BY <1>5 DEF MusicEnds
  <2>2. Record(p')
    BY <1>2, <2>1 DEF Good, Record, Fields, Flags
  <2>3. Sounding(p') /\ Scored(p') /\ Stays(p, p')
    BY <1>2, <2>1 DEF Good, Record, Fields, Flags, Sounding, Scored, Stays
  <2>4. QED
    BY <1>1, <1>2, <2>2, <2>3, StepIntro DEF Good, Stages
<1>6. CASE Fade
  <2>1. p' = [p EXCEPT !.anim = "over"]
    BY <1>6 DEF Fade
  <2>2. Record(p')
    BY <1>2, <2>1 DEF Good, Record, Fields, Flags
  <2>3. Sounding(p') /\ Scored(p') /\ Stays(p, p')
    BY <1>2, <2>1 DEF Good, Record, Fields, Flags, Sounding, Scored, Stays
  <2>4. QED
    BY <1>1, <1>2, <2>2, <2>3, StepIntro DEF Good, Stages
<1>7. QED
  BY <1>3, <1>4, <1>5, <1>6

LEMMA Ticking == ASSUME IInv, Tick PROVE Step
<1> DEFINE t == [p EXCEPT !.settled = TRUE]
           v == SetVisible(t, FALSE)
           w == [v EXCEPT !.hide = FALSE]
<1>1. p' \in {t, w} /\ at' = "map" /\ downloading' = downloading
  BY DEF Tick
<1>2. Good(p) /\ downloading \in BOOLEAN
  BY DEF IInv
<1>3. Good(t) /\ Keeps(p, t)
  <2>1. Record(t)
    BY <1>2 DEF Good, Record, Fields, Flags
  <2>2. Sounding(t) /\ Scored(t) /\ Keeps(p, t)
    BY <1>2 DEF Good, Record, Fields, Flags, Sounding, Scored, Keeps
  <2>3. QED
    BY <2>1, <2>2 DEF Good
<1> HIDE DEF t
<1>4. Good(v) /\ Keeps(t, v)
  BY <1>3, SetVisibleGood
<1> HIDE DEF v
<1>5. Good(w) /\ Keeps(v, w)
  <2>1. Record(w)
    BY <1>4 DEF Good, Record, Fields, Flags
  <2>2. Sounding(w) /\ Scored(w) /\ Keeps(v, w)
    BY <1>4 DEF Good, Record, Fields, Flags, Sounding, Scored, Keeps
  <2>3. QED
    BY <2>1, <2>2 DEF Good
<1> HIDE DEF w
<1>6. Good(p') /\ Stays(p, p')
  BY <1>1, <1>3, <1>4, <1>5 DEF Keeps, Stays
<1>7. QED
  BY <1>1, <1>2, <1>6, StepIntro DEF Stages

LEMMA Updated == ASSUME IInv, UpdateMap PROVE Step
<1>1. CASE p.inPlay
  <2>1. PICK c \in Updating : p' = Update(p, c)
    BY <1>1 DEF UpdateMap
  <2>2. Good(p') /\ Stays(p, p') /\ (p'.inPlay \/ Over(p'))
    BY <1>1, <2>1, UpdateGood DEF IInv, Updating
  <2>3. QED
    BY <1>1, <2>2, StepIntro DEF UpdateMap, IInv, Stages
<1>2. CASE ~p.inPlay
  BY <1>2, StepIntro DEF UpdateMap, IInv, Stages, Stays
<1>3. QED
  BY <1>1, <1>2

LEMMA Retrying == ASSUME IInv, QuickRetry PROVE Step
<1>1. ASSUME NEW c \in Choices, p' = SetVisible(Update(Restart(p, TRUE, c), c), FALSE)
      PROVE  Good(p') /\ Stays(p, p')
  <2> DEFINE r == Restart(p, TRUE, c)
             u == Update(r, c)
  <2>1. p.inPlay \/ Over(p)
    BY DEF IInv, FrameInv, QuickRetry
  <2>2. Good(r) /\ Keeps(p, r) /\ r.inPlay = p.inPlay /\ (Over(p) => r = p \/ r.restart)
    <3>1. p.inPlay \/ p.overlay \/ ~p.paused
      BY <2>1 DEF Over
    <3>2. QED
      BY <3>1, RestartGood DEF IInv
  <2>3. r.inPlay \/ r.restart \/ ~(r.playing \/ r.paused \/ r.cont)
    <3>1. Over(p) /\ ~p.waiting => r.restart
      BY DEF Over, Restart, IInv, Good, Record, Fields, Flags
    <3>2. Over(p) /\ p.waiting => r = p /\ ~(p.playing \/ p.paused \/ p.cont)
      BY DEF Over, Restart
    <3> HIDE DEF r
    <3>3. QED
      BY <2>1, <2>2, <3>1, <3>2
  <2> HIDE DEF r
  <2>4. Good(u) /\ Stays(r, u)
    BY <2>2, <2>3, UpdateGood
  <2>5. p' = SetVisible(u, FALSE)
    BY <1>1 DEF r
  <2> HIDE DEF u
  <2>6. Good(p') /\ Keeps(u, p') /\ Follows(u, p')
    BY <2>4, <2>5, SetVisibleGood
  <2>7. QED
    BY <2>2, <2>4, <2>6 DEF Keeps, Stays, Follows
<1>2. p' = p => Good(p') /\ Stays(p, p')
  BY DEF IInv, Stays
<1>3. Good(p') /\ Stays(p, p')
  BY <1>1, <1>2 DEF QuickRetry
<1>4. QED
  BY <1>3, StepIntro DEF QuickRetry, IInv, Stages

LEMMA NextGood == IInv /\ [Next]_vars => Step
<1> SUFFICES ASSUME IInv, [Next]_vars PROVE Step
  OBVIOUS
<1>1. CASE UNCHANGED vars
  BY <1>1 DEF vars, Step, IInv, FrameInv, Stays
<1>2. CASE Users
  BY <1>2, Picking, Replaying, Escaping, Unfocused, Seeking, Overlaying, Touching DEF Users
<1>3. CASE Frame
  BY <1>3, Ticking, Updated, Seeking, Retrying DEF Frame
<1>4. CASE World
  BY <1>4, Replaying, Touching DEF World
<1>5. QED
  BY <1>1, <1>2, <1>3, <1>4 DEF Next

-----------------------------------------------------------------------------
(* The flags keep their types, and the invariant that the other results    *)
(* are read off holds whatever is pressed, hit, heard or downloaded.       *)
THEOREM PlayInvariance == Spec => []IInv
<1>1. IInv /\ [Next]_vars => IInv'
  BY NextGood DEF Step
<1>2. QED
  BY InitGood, <1>1, PTL DEF Spec

THEOREM PlayTypes == Spec => []TypeOK
<1>1. IInv => TypeOK
  BY DEF IInv, TypeOK, Good, Record, Fields
<1>2. QED
  BY PlayInvariance, <1>1, PTL

(* update() never returns at once for a map in play: no sequence of        *)
(* pauses, clicks, restarts, seeks, deaths and replays clears the three    *)
(* flags it looks at first.                                                *)
THEOREM PlayNeverStuck == Spec => []NeverStuck
<1>1. IInv => NeverStuck
  BY DEF IInv, Good, Sounding, NeverStuck
<1>2. QED
  BY PlayInvariance, <1>1, PTL

(* The music goes with the play, in both directions.                       *)
THEOREM PlayMusicFollows == Spec => []MusicFollows
<1>1. IInv => MusicFollows
  BY DEF IInv, Good, Sounding, MusicFollows
<1>2. QED
  BY PlayInvariance, <1>1, PTL

(* A score that is kept is of the user's own play, although a stop may be  *)
(* repeated after the flag that says it was a replay is cleared.           *)
THEOREM PlayKeptIsOwn == Spec => []KeptIsOwn
<1>1. IInv => KeptIsOwn
  BY DEF IInv, Good, Scored, KeptIsOwn
<1>2. QED
  BY PlayInvariance, <1>1, PTL

(* A mark that makes an attempt unfit to be submitted stays with it: the    *)
(* seek sets it anew after resetScore, and whatever else resets the score   *)
(* begins another attempt.                                                  *)
THEOREM PlayMarksStay == Spec => MarksStay
<1>1. IInv /\ [Next]_vars => [p.inPlay /\ ~p.submittable => ~p'.submittable \/ p'.waiting \/ ~p'.inPlay]_vars
  BY NextGood DEF Step, Stays, Renewed
<1>2. QED
  BY PlayInvariance, <1>1, PTL DEF Spec, MarksStay
=============================================================================
