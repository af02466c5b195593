----------------------------- MODULE PlayControl -----------------------------
(***************************************************************************)
(* One player at one map: BeatmapInterface's flags for playing, pausing,   *)
(* continuing, waiting, retrying, failing and seeking, the pause overlay   *)
(* that is kept in step with them, and replays, which use the same flags.   *)
(*                                                                         *)
(* Everything runs on the main thread.  A frame is: input, the overlay's    *)
(* tick, BeatmapInterface::update, scrubbing, quick retry; the last three   *)
(* run if the map was in play when the frame reached them, whatever update  *)
(* did to it.  The flags, p, are one record, because the handlers call one  *)
(* another: an operator takes the flags and what the world decides in it,   *)
(* a record of choices, and returns the flags its method leaves.            *)
(*                                                                         *)
(* Spectating and multiplayer, where other players end and pause the play,  *)
(* are not here, nor is the mod that forbids to pause.  What is hit, and    *)
(* where in the map the music is, are choices.                              *)
(***************************************************************************)
CONSTANT SubmitAfterPause   \* the convar submit_after_pause

ASSUME PauseAssumption == SubmitAfterPause \in BOOLEAN

VARIABLES
  p,          \* flags of BeatmapInterface and of the pause overlay
  at,         \* where the frame is
  downloading \* whether an online replay is on its way

vars == <<p, at, downloading>>

Flags == {"inPlay", "watching", "playing", "paused", "cont", "clicked", "waiting",
          "restart", "quick", "failed", "preload", "overtime", "settled",
          "submittable", "defaults", "overlay", "hide", "canContinue",
          "own", "retried", "jumped"}
Fields == Flags \cup {"anim", "music", "result"}
Stages == {"input", "map", "seek", "retry"}

(* Besides the flags: the fail animation; the music, "menu" when no map is  *)
(* in play; and what became of the last attempt (history, as are whose it   *)
(* is, and whether it began by a retry).                                    *)
TypeOK ==
  /\ DOMAIN p = Fields
  /\ \A f \in Flags : p[f] \in BOOLEAN
  /\ p.anim \in {"full", "running", "held", "over"}
  /\ p.music \in {"menu", "broken", "quiet", "playing", "ended"}
  /\ p.result \in {"none", "kept", "submitted", "watched"}
  /\ at \in Stages /\ downloading \in BOOLEAN

(* What the world decides in a step. *)
Choices == [direct : BOOLEAN,  \* auto or skippable section: continue without a click
            early : BOOLEAN,   \* less than 5 s since the music ended
            ready : BOOLEAN,   \* the slider buffers are done, and later the wait is
            online : BOOLEAN,  \* logged in, and played for 7 s
            event : {"none", "over", "fail", "die", "restart"}]

(* Calls that look at less of this are given less. *)
Updating == {c \in Choices : ~c.direct /\ ~c.early}
Pausing == {c \in Choices : ~c.ready /\ c.event \in {"none", "over"}}
Ending == Updating \cap Pausing

Sounded(m) == IF m \in {"menu", "broken"} THEN m ELSE "playing"
Quieted(m) == IF m = "playing" THEN "quiet" ELSE m

(* PauseOverlay::setVisible: out of play it does no more than show or hide. *)
SetVisible(q, v) ==
  IF q.inPlay THEN [q EXCEPT !.overlay = v, !.hide = FALSE, !.canContinue = ~q.failed]
              ELSE [q EXCEPT !.overlay = v]

(* A new attempt can be submitted if every protected convar has its default. *)
ResetScore(q) ==
  [q EXCEPT !.submittable = q.defaults, !.failed = FALSE, !.anim = "full"]

(* The score is kept, and submitted if nothing made it unsubmittable; the  *)
(* score of a replay is neither.  The screen that follows closes the        *)
(* overlay.  Requests to restart, and the wait, are left as they are.       *)
Score(q, c) ==
  IF q.watching THEN "watched"
  ELSE IF c.online /\ q.submittable THEN "submitted" ELSE "kept"

(* Bug: the replay is forgotten before the score is made. *)
StopForgetsReplay(q, c) ==
  [q EXCEPT !.inPlay = FALSE, !.playing = FALSE, !.paused = FALSE, !.cont = FALSE,
            !.result = Score([q EXCEPT !.watching = FALSE], c), !.watching = FALSE,
            !.music = "menu", !.overlay = FALSE]

Stop(q, c) ==
  [q EXCEPT !.inPlay = FALSE, !.playing = FALSE, !.paused = FALSE, !.cont = FALSE,
            !.result = Score(q, c), !.watching = FALSE, !.music = "menu", !.overlay = FALSE]

(* Loading the map may fail, after the score was reset. *)
Start(q, loads, sound) ==
  LET r == ResetScore(q)
  IN IF ~loads THEN [r EXCEPT !.inPlay = FALSE]
     ELSE [r EXCEPT !.inPlay = TRUE, !.preload = TRUE, !.playing = TRUE, !.waiting = TRUE,
                    !.paused = FALSE, !.cont = FALSE, !.overtime = FALSE,
                    !.music = IF sound THEN "quiet" ELSE "broken",
                    !.overlay = FALSE, !.hide = @ /\ ~q.overlay, !.canContinue = @ \/ q.overlay,
                    !.result = "none",
                    !.own = ~q.watching, !.retried = FALSE, !.jumped = FALSE]

CancelFailing(q) ==
  IF q.failed /\ q.anim # "over" THEN [q EXCEPT !.failed = FALSE, !.anim = "full"] ELSE q

(* Bug: what makes the attempt unsubmittable is reset with the score. *)
SeekResetsLast(q) ==
  IF q.failed THEN q
  ELSE LET r == ResetScore([q EXCEPT !.submittable = FALSE])
       IN IF q.waiting
          THEN [r EXCEPT !.waiting = FALSE, !.playing = TRUE, !.quick = FALSE,
                         !.music = Sounded(q.music)]
          ELSE r

(* A seek ends the wait, and the attempt can no longer be submitted. *)
Seek(q) ==
  IF q.failed THEN q
  ELSE LET r == [ResetScore(q) EXCEPT !.submittable = FALSE]
       IN IF q.waiting
          THEN [r EXCEPT !.waiting = FALSE, !.playing = TRUE, !.quick = FALSE,
                         !.music = Sounded(q.music)]
          ELSE r

(* A replay takes the place of whatever is in play. *)
Watch(q, loads, sound, seeks) ==
  LET w == Start([q EXCEPT !.playing = FALSE, !.paused = FALSE, !.cont = FALSE,
                           !.watching = TRUE], loads, sound)
  IN IF seeks /\ loads THEN Seek(w) ELSE w

(* Pausing, or leaving a map that has not started or is over; continuing,  *)
(* at once or after a click; or showing the menu again before that click.   *)
Pause(q, quitIfWaiting, c) ==
  LET done ==
        IF q.playing
        THEN IF (q.waiting /\ quitIfWaiting) \/ (c.event = "over" /\ ~q.waiting)
             THEN Stop(q, c)
             ELSE [q EXCEPT !.music = Quieted(@), !.playing = FALSE, !.paused = TRUE]
        ELSE IF q.paused /\ ~q.cont
        THEN IF c.direct \/ q.watching
             THEN [q EXCEPT !.music = IF q.waiting THEN @ ELSE Sounded(@),
                            !.playing = TRUE, !.paused = FALSE]
             ELSE [q EXCEPT !.paused = FALSE, !.cont = TRUE]
        ELSE [q EXCEPT !.paused = ~@]
      barred == done.paused /\ ~q.cont /\ ~SubmitAfterPause
  IN IF q.overtime /\ c.early THEN q
     ELSE [done EXCEPT !.submittable = @ /\ ~barred, !.settled = @ /\ done.paused,
                       !.anim = IF done.failed /\ @ = "running" THEN "held" ELSE @]

Restart(q, quick, c) ==
  IF ~q.waiting THEN [q EXCEPT !.restart = TRUE, !.quick = quick]
  ELSE IF q.paused THEN Pause(q, FALSE, c) ELSE q

(* Bug: a map that was paused when the retry was asked for stays still. *)
RestartKeepsPlaying(q) ==
  [ResetScore(q) EXCEPT !.waiting = TRUE, !.paused = FALSE, !.cont = FALSE,
                        !.music = Quieted(@), !.result = "none",
                        !.retried = TRUE, !.jumped = FALSE]

ActualRestart(q) ==
  [ResetScore(q) EXCEPT !.waiting = TRUE, !.playing = TRUE, !.paused = FALSE, !.cont = FALSE,
                        !.music = Quieted(@), !.result = "none",
                        !.retried = TRUE, !.jumped = FALSE]

(* Bug: the music is left to the end of the wait even if it is over. *)
ContinueForgetsMusic(q) ==
  IF q.cont /\ (q.clicked \/ (~q.paused /\ q.waiting))
  THEN [q EXCEPT !.clicked = FALSE, !.cont = FALSE, !.paused = FALSE, !.playing = TRUE]
  ELSE q

(* A click, or a wait the player had interrupted, lets the map go on. *)
Continue(q) ==
  LET early == ~q.paused /\ q.waiting
  IN IF q.cont /\ (q.clicked \/ early)
     THEN [q EXCEPT !.clicked = FALSE, !.cont = FALSE, !.paused = FALSE, !.playing = TRUE,
                    !.music = IF early THEN @ ELSE Sounded(@)]
     ELSE q

(* The wait ends with the start of the music, just before the first object *)
(* if this is a quick retry.                                               *)
EndWait(q, c) ==
  IF q.waiting /\ ~q.preload /\ c.ready /\ ~q.paused
  THEN [q EXCEPT !.waiting = FALSE, !.playing = TRUE, !.jumped = q.quick, !.quick = FALSE,
                 !.music = Sounded(@)]
  ELSE q

(* What was hit or missed. *)
Judge(q, c) ==
  IF ~q.playing \/ q.paused \/ q.waiting THEN q
  ELSE CASE c.event = "restart" -> Restart(q, FALSE, c)
         [] c.event = "fail" /\ ~q.failed /\ ~q.watching ->
              [q EXCEPT !.failed = TRUE, !.anim = "running"]
         [] c.event = "die" /\ ~q.failed /\ ~q.watching ->
              [q EXCEPT !.submittable = FALSE]
         [] OTHER -> q

(* The menu comes up when the fail animation is over. *)
ShowFail(q) ==
  IF q.failed /\ q.anim = "over" /\ (q.music = "playing" \/ ~q.overlay)
  THEN SetVisible([q EXCEPT !.music = Quieted(@), !.paused = TRUE], TRUE)
  ELSE q

Update2(q, c) ==
  LET a == Continue(q)
      b == EndWait(a, c)
      o == [b EXCEPT !.overtime = IF b.waiting THEN @ ELSE b.music = "ended"]
  IN IF a.restart THEN ActualRestart([a EXCEPT !.restart = FALSE])
     ELSE IF b.preload THEN b
     ELSE IF b.music = "broken" THEN Stop(b, c)
     ELSE IF ~o.waiting /\ c.event = "over" /\ ~o.failed THEN Stop(o, c)
     ELSE ShowFail(Judge(o, c))

(* Bug: a paused map is not updated. *)
UpdateIfPlaying(q, c) ==
  IF ~q.playing THEN q
  ELSE LET u == Update2(q, c) IN [u EXCEPT !.preload = @ /\ ~c.ready]

Update(q, c) ==
  IF ~q.playing /\ ~q.paused /\ ~q.cont THEN q
  ELSE LET u == Update2(q, c) IN [u EXCEPT !.preload = @ /\ ~c.ready]

-----------------------------------------------------------------------------
Stay == at' = at /\ downloading' = downloading
Input == at = "input"

(* A map, or a replay kept on disk, is picked; a replay kept by the server *)
(* is asked for, and arrives whatever is in play by then.                  *)
PickMap ==
  /\ Input /\ ~p.inPlay /\ ~p.overlay
  /\ \E loads, sound \in BOOLEAN : p' = Start([p EXCEPT !.watching = FALSE], loads, sound)
  /\ Stay

PickReplay ==
  /\ Input /\ ~p.inPlay /\ ~p.overlay
  /\ \E loads, sound \in BOOLEAN : p' = Watch(p, loads, sound, FALSE)
  /\ Stay

RequestReplay == Input /\ ~p.inPlay /\ ~p.overlay /\ downloading' = TRUE /\ UNCHANGED <<p, at>>

ReplayArrives ==
  /\ Input /\ downloading /\ downloading' = FALSE
  /\ \/ \E loads, sound \in BOOLEAN : p' = Watch(p, loads, sound, FALSE)
     \/ UNCHANGED p
  /\ UNCHANGED at

(* The last seconds of a paused or failed attempt, which is given up. *)
InstantReplay ==
  /\ Input /\ p.inPlay /\ (p.paused \/ p.failed) /\ ~p.watching
  /\ \/ \E loads, sound, seeks \in BOOLEAN :
          p' = Watch(CancelFailing(p), loads, sound, seeks)
     \/ p' = CancelFailing(p)
  /\ Stay

PressEscape ==
  /\ Input /\ p.inPlay
  /\ \E c \in Pausing :
       LET q == Pause(p, TRUE, c)
       IN p' = IF ~q.inPlay THEN q
               ELSE IF q.overlay /\ q.failed THEN Stop(q, c)
               ELSE SetVisible(q, ~q.overlay)
  /\ Stay

LoseFocus ==
  /\ Input /\ p.inPlay /\ ~p.paused /\ ~p.watching
  /\ \E c \in Pausing : p' = SetVisible(Pause(p, FALSE, c), TRUE)
  /\ Stay

(* A key while the map is not paused: quick load, seek back or forth. *)
PressSeek == Input /\ p.inPlay /\ ~p.paused /\ p' = Seek(CancelFailing(p)) /\ Stay

(* Not in the first moments after the menu was left (unpause_continue_delay). *)
ClickContinue ==
  /\ Input /\ p.inPlay /\ ~p.watching /\ ~p.paused /\ p.cont /\ p.settled
  /\ p' = [p EXCEPT !.clicked = TRUE]
  /\ Stay

(* A protected convar is changed, by the user or by the server. *)
ChangeConvar ==
  /\ Input
  /\ \E v \in BOOLEAN : p' = [p EXCEPT !.defaults = v, !.submittable = FALSE]
  /\ Stay

(* The overlay's buttons, by key before its tick or by mouse after it. *)
Hidden(q) == IF q.overlay THEN [q EXCEPT !.hide = TRUE, !.canContinue = TRUE]
                          ELSE [q EXCEPT !.canContinue = TRUE]

OverlayContinue ==
  /\ at \in {"input", "map"} /\ p.overlay /\ p.canContinue
  /\ \E c \in Pausing : p' = Hidden(Pause(p, TRUE, c))
  /\ Stay

OverlayRetry ==
  /\ at \in {"input", "map"} /\ p.overlay
  /\ \E c \in Pausing : p' = Hidden(Restart(p, FALSE, c))
  /\ Stay

OverlayBack ==
  /\ at \in {"input", "map"} /\ p.overlay
  /\ \E c \in Ending : p' = Hidden(Stop(p, c))
  /\ Stay

-----------------------------------------------------------------------------
Tick ==
  /\ at = "input" /\ at' = "map"
  /\ LET t == [p EXCEPT !.settled = TRUE]
     IN p' = IF p.overlay /\ p.hide THEN [SetVisible(t, FALSE) EXCEPT !.hide = FALSE] ELSE t
  /\ UNCHANGED downloading

UpdateMap ==
  /\ at = "map"
  /\ IF p.inPlay THEN at' = "seek" /\ \E c \in Updating : p' = Update(p, c)
                 ELSE at' = "input" /\ UNCHANGED p
  /\ UNCHANGED downloading

(* The seek key with the mouse, also while paused. *)
Scrub ==
  /\ at = "seek" /\ at' = "retry"
  /\ p' \in {p, Seek(CancelFailing(p))}
  /\ UNCHANGED downloading

(* The quick retry key was held for long enough: the map is updated at once. *)
QuickRetry ==
  /\ at = "retry" /\ at' = "input"
  /\ \/ \E c \in Choices : p' = SetVisible(Update(Restart(p, TRUE, c), c), FALSE)
     \/ UNCHANGED p
  /\ UNCHANGED downloading

MusicEnds == Input /\ p.music = "playing" /\ p' = [p EXCEPT !.music = "ended"] /\ Stay
Fade == Input /\ p.anim = "running" /\ p' = [p EXCEPT !.anim = "over"] /\ Stay

Users ==
  \/ PickMap \/ PickReplay \/ RequestReplay \/ InstantReplay
  \/ PressEscape \/ LoseFocus \/ PressSeek \/ ClickContinue \/ ChangeConvar
  \/ OverlayContinue \/ OverlayRetry \/ OverlayBack
Frame == Tick \/ UpdateMap \/ Scrub \/ QuickRetry
World == ReplayArrives \/ MusicEnds \/ Fade
Next == Users \/ Frame \/ World

Init ==
  /\ p = [[f \in Fields |-> f \in {"submittable", "defaults", "canContinue"}]
            EXCEPT !.anim = "full", !.music = "menu", !.result = "none"]
  /\ at = "input" /\ downloading = FALSE

Fairness == WF_vars(Frame)
Spec == Init /\ [][Next]_vars
FairSpec == Spec /\ Fairness

-----------------------------------------------------------------------------
(* A map in play is updated: whatever was pressed, one of the three flags  *)
(* without which update() returns at once (2443) is set.  Else the map     *)
(* would stay on the screen with nothing to end it.                        *)
NeverStuck == p.inPlay => p.playing \/ p.paused \/ p.cont

(* The music sounds only while the play goes on, and while it goes on,     *)
(* neither waiting to start nor paused, the music sounds or is at its end:  *)
(* no sequence of pauses, clicks, seeks, retries, failures and replays      *)
(* leaves a silent map that runs or music under a stopped one.              *)
MusicFollows ==
  p.inPlay /\ p.music # "broken" =>
    /\ p.music = "playing" => p.playing
    /\ p.playing /\ ~p.paused /\ ~p.waiting => p.music \in {"playing", "ended"}

(* Once a seek, a death, a changed convar or a forbidden pause has made an  *)
(* attempt unfit to be submitted, it is so for good.  resetScore makes a    *)
(* score fit again, and is called by seeks in the middle of an attempt and  *)
(* by replays that take its place as well as by retries: nothing but a new  *)
(* attempt, which begins with the wait, may come out of a step as fit.      *)
MarksStay == [][p.inPlay /\ ~p.submittable => ~p'.submittable \/ p'.waiting \/ ~p'.inPlay]_vars

(* What is kept as the user's score was played by the user, although a     *)
(* replay uses the same flags and may take the place of a play at any time. *)
KeptIsOwn == p.result \in {"kept", "submitted"} => p.own

(* A restart that was asked for takes place, or the play ends, even if the *)
(* map is paused, waits for a click, or has failed.                        *)
RetryHappens == p.restart /\ p.inPlay ~> ~p.restart \/ ~p.inPlay

(* The convar quick_retry_time is for quick retries: an attempt that skips *)
(* the time before the first object is not the first of its play.          *)
JumpIsRetry == p.inPlay /\ p.jumped => p.retried
==============================================================================
