----------------------------- MODULE PlayBuffer -----------------------------
(***************************************************************************)
(* The decoded data of one ArLive2Player: PlayBuffer's two queues, filled  *)
(* by the decoders and drained towards the screen on the engine thread,    *)
(* and towards the speaker on the audio device's thread.  Video follows    *)
(* the clock that the last audio packet has set; the two variables of that *)
(* clock are written and read by both threads without a lock.              *)
(*                                                                         *)
(* A packet is its presentation time, from 1: the code takes 0 for "none". *)
(***************************************************************************)
EXTENDS Naturals, Sequences, FiniteSets

CONSTANTS
  MaxAudio,   \* kMaxAudioPlaySize
  MaxPts,     \* bound on presentation times and on the time the model counts
  MaxSeeks,   \* bound on the seeks of a session
  Modes,      \* the play modes the application chooses from: "live", "vod"
  Toggles     \* what it switches: "audio", "video" (pause), "background"

ASSUME PlayBufferAssumption ==
  /\ MaxAudio \in Nat /\ MaxAudio >= 2
  /\ MaxPts \in Nat \ {0} /\ MaxSeeks \in Nat
  /\ Modes \subseteq {"live", "vod"} /\ Modes # {}
  /\ Toggles \subseteq {"audio", "video", "background"}

MaxVideo == MaxAudio \div 2      \* kMaxVedeoPlaySize
Pts == 1..MaxPts

VARIABLES     \* the player
  playing,    \* ar_player_ exists
  mode,       \* e_play_mode_
  off,        \* the toggles that are on: b_audio_paused_, b_video_paused_, background
  anext, vnext, \* the source: the next packet of each stream is this or later
  atKey,      \* ... and the next video packet is a key frame
  aleft, vleft, \* before these, packets that a tick has held over a clearing: from here on, or 0
  seeks       \* number of seeks in this session

sourceVars == <<anext, vnext, atKey, aleft, vleft, seeks>>
playerVars == <<playing, mode, off, sourceVars>>

VARIABLES     \* the decoder and the queues
  needKey,    \* FFBuffer's b_need_keyframe_
  picture,    \* the content of i420_render_frame_, which all queued frames share
  aud, vid    \* lst_audio_play_, lst_video_play_

queueVars == <<needKey, picture, aud, vid>>

VARIABLES     \* the clock and its two threads
  base,       \* n_last_render_video_pts_
  since,      \* time since n_last_render_video_time_
  eng,        \* where the engine thread stands in DoVidRender
  clk,        \* ... the elapsed time it has read
  rendered,   \* ... bRender
  dev,        \* where the device thread stands in DoAudRender
  devPts      \* ... the packet it holds

clockVars == <<base, since, eng, clk, rendered, dev, devPts>>

VARIABLES     \* history, read by no action
  intact,     \* the decoder has had every packet since a key frame
  cut,        \* a seek has cut the packets in between off, and no key frame came since
  garbled,    \* it was given a packet without having had those, and no seek had cut them off
  limit,      \* how far the presentation has come; 0 before it has begun
  torn        \* the device wrote base between the engine's two reads

histVars == <<intact, cut, garbled, limit, torn>>

vars == <<playerVars, queueVars, clockVars, histVars>>

TypeOK ==
  /\ playing \in BOOLEAN /\ mode \in Modes /\ off \subseteq Toggles
  /\ anext \in 1..(MaxPts + 1) /\ vnext \in 1..(MaxPts + 1)
  /\ aleft \in 0..MaxPts /\ vleft \in 0..MaxPts
  /\ atKey \in BOOLEAN /\ seeks \in 0..MaxSeeks
  /\ needKey \in BOOLEAN /\ picture \in 0..MaxPts
  /\ aud \in Seq(Pts) /\ vid \in Seq(Pts)
  /\ base \in 0..MaxPts /\ since \in 0..MaxPts /\ clk \in 0..MaxPts
  /\ eng \in {"idle", "look", "time", "pts", "clock", "take"}
  /\ rendered \in BOOLEAN
  /\ dev \in {"idle", "time", "pts"} /\ devPts \in 0..MaxPts
  /\ intact \in BOOLEAN /\ cut \in BOOLEAN /\ garbled \in BOOLEAN /\ torn \in BOOLEAN
  /\ limit \in 0..MaxPts

Init ==
  /\ playing = FALSE /\ mode \in Modes /\ off = {}
  /\ anext = 1 /\ vnext = 1 /\ atKey = TRUE /\ aleft = 0 /\ vleft = 0 /\ seeks = 0
  /\ needKey = TRUE /\ picture = 0 /\ aud = <<>> /\ vid = <<>>
  /\ base = 0 /\ since = MaxPts /\ clk = 0
  /\ eng = "idle" /\ rendered = FALSE /\ dev = "idle" /\ devPts = 0
  /\ intact = FALSE /\ cut = FALSE /\ garbled = FALSE /\ limit = 0 /\ torn = FALSE

Larger(m, n) == IF m > n THEN m ELSE n
Capped(n) == IF n > MaxPts THEN MaxPts ELSE n

-----------------------------------------------------------------------------
(***************************************************************************)
(* The application, and the source's position.                             *)
(***************************************************************************)

EngineFree == eng = "idle"

\* setPlayMode, which is refused during play, and startPlay: a new FFBuffer.  The clock
\* of the session before stays.
StartPlay(m, p) ==
  /\ EngineFree /\ ~playing
  /\ playing' = TRUE /\ mode' = m /\ needKey' = TRUE /\ intact' = FALSE /\ cut' = FALSE
  /\ anext' = p /\ vnext' = p /\ atKey' = TRUE /\ aleft' = 0 /\ vleft' = 0 /\ seeks' = 0
  /\ UNCHANGED <<off, picture, aud, vid, clockVars, garbled, limit, torn>>

\* stopPlay: the speaker is detached, which waits for a callback to end; then DoClear.
StopPlay ==
  /\ EngineFree /\ playing /\ dev = "idle"
  /\ playing' = FALSE /\ aud' = <<>> /\ vid' = <<>>
  /\ UNCHANGED <<mode, off, sourceVars, needKey, picture, clockVars, histVars>>

\* pauseAudio, resumeAudio, pauseVideo, resumeVideo on the engine thread, and
\* setAppInBackground on any.
Toggle(t) ==
  /\ EngineFree \/ t = "background"
  /\ off' = IF t \in off THEN off \ {t} ELSE off \cup {t}
  /\ UNCHANGED <<playing, mode, sourceVars, queueVars, clockVars, histVars>>

\* Where leftovers go on after p.
After(p) == IF p < MaxPts THEN p + 1 ELSE 0

\* FFBuffer::DoClear in the read thread, which leaves PlayBuffer's data.  What a tick holds
\* in its local lists meanwhile is decoded afterwards; what had to be decoded first is lost.
ClearBuffer ==
  /\ aleft' \in {0, aleft} \cup anext..MaxPts
  /\ vleft' \in {0, vleft} \cup ({vnext} \cap Pts)

\* A seek to p succeeds: the source goes on with a key frame.
Seek(p) ==
  /\ playing /\ seeks < MaxSeeks
  /\ seeks' = seeks + 1 /\ anext' = p /\ vnext' = p /\ atKey' = TRUE
  /\ ClearBuffer
  /\ intact' = (intact /\ vleft' = 0) /\ cut' = (cut \/ vleft' # 0)
  /\ UNCHANGED <<playing, mode, off, queueVars, clockVars, garbled, limit, torn>>

\* av_seek_frame fails, or is not called at the end of the source, and the buffer is cleared
\* all the same: the source goes on where it was, without what was read but not decoded.
SeekFailed ==
  /\ playing /\ seeks < MaxSeeks
  /\ seeks' = seeks + 1 /\ anext' \in anext..(MaxPts + 1) /\ atKey' = FALSE
  /\ ClearBuffer
  /\ intact' = FALSE /\ cut' = TRUE
  /\ UNCHANGED <<playing, mode, off, vnext, queueVars, clockVars, garbled, limit, torn>>

-----------------------------------------------------------------------------
(***************************************************************************)
(* The engine thread: RunOnce, the decoders and the queues they fill.      *)
(***************************************************************************)

NeedMoreAudioPlyData == Len(aud) <= MaxAudio
NeedMoreVideoPlyData == Len(vid) <= MaxVideo

\* Variant to be rejected: decoded frames are taken to come in order.
InsertLast(s, p) == Append(s, p)

\* PlayVideoData: a frame is queued behind the earlier ones.
Insert(s, p) ==
  LET k == Cardinality({i \in 1..Len(s) : s[i] < p})
  IN  [i \in 1..(Len(s) + 1) |-> IF i <= k THEN s[i] ELSE IF i = k + 1 THEN p ELSE s[i - 1]]

DropFirst(s, n) == SubSeq(s, n + 1, Len(s))

\* What PlayAudioData drops of the video after audio up to p was dropped: the front as
\* long as it is not later and not the last.
DropUpTo(s, p) ==
  LET k == Cardinality({i \in 1..Len(s) : s[i] <= p})
  IN  DropFirst(s, IF k < Len(s) \/ k = 0 THEN k ELSE k - 1)

\* Variant to be rejected: the queue is looked at before the packet is added.
PlayAudioDataLate(p) ==
  LET all == Append(aud, p)
      n   == Len(all) - MaxAudio \div 2
  IN  IF Len(aud) >= MaxAudio
      THEN aud' = DropFirst(all, n) /\ vid' = DropUpTo(vid, all[n])
      ELSE aud' = all /\ UNCHANGED vid

\* PlayAudioData: a queue that is full loses its older half, and the video up to there.
PlayAudioData(p) ==
  LET all == Append(aud, p)
      n   == Len(all) - MaxAudio \div 2
  IN  IF Len(all) >= MaxAudio
      THEN aud' = DropFirst(all, n) /\ vid' = DropUpTo(vid, all[n])
      ELSE aud' = all /\ UNCHANGED vid

\* RunOnce: the next audio packet is decoded.
DecodeAudio(p) ==
  /\ EngineFree /\ playing /\ NeedMoreAudioPlyData
  /\ \/ p = aleft /\ aleft' = After(p) /\ UNCHANGED anext
     \/ p = anext /\ anext' = p + 1 /\ aleft' = 0
  /\ PlayAudioData(p)
  /\ UNCHANGED <<playing, mode, off, vnext, atKey, vleft, seeks, needKey, picture,
                 clockVars, histVars>>

\* OnArPlyVideo: the frame's picture is copied into the one buffer (the size of the
\* pictures is taken to stay the same), and a reference to it is queued.
OnArPlyVideo(p) == picture' = p /\ vid' = Insert(vid, p)

\* Variant to be rejected: coming back from the background, decoding just goes on.
GateForgetful(key) == needKey' = (needKey /\ ~key)

\* DoDecodeVideo's gate: in the background nothing is decoded, and afterwards nothing
\* before a key frame.
Gate(key) == needKey' = ("background" \in off \/ (needKey /\ ~key))

\* RunOnce and DoDecodeVideo: a video packet is passed over, or decoded, which yields a
\* frame or (yet) nothing.
DecodeVideo(p, key) ==
  /\ EngineFree /\ playing /\ NeedMoreVideoPlyData
  /\ \/ vleft # 0 /\ p >= vleft /\ vleft' = After(p) /\ UNCHANGED <<vnext, atKey>>
     \/ p >= vnext /\ (atKey => key) /\ vnext' = p + 1 /\ atKey' = FALSE /\ vleft' = 0
  /\ Gate(key)
  /\ cut' = (cut /\ ~key)
  /\ IF needKey' \/ "background" \in off
     THEN intact' = FALSE /\ UNCHANGED <<garbled, picture, vid>>
     ELSE /\ intact' = (key \/ intact) /\ garbled' = (garbled \/ ~(intact' \/ cut'))
          /\ OnArPlyVideo(p) \/ UNCHANGED <<picture, vid>>
  /\ UNCHANGED <<playing, mode, off, anext, aleft, seeks, aud, clockVars, limit, torn>>

-----------------------------------------------------------------------------
(***************************************************************************)
(* The engine thread: DoVidRender.                                         *)
(***************************************************************************)

RenderBegin ==
  /\ EngineFree
  /\ eng' = "look"
  /\ UNCHANGED <<playerVars, queueVars, base, since, clk, rendered, dev, devPts, histVars>>

\* The call ends at the end of the queue (or, below, at a frame that is not due).  A clock
\* that has not begun, or is past the front frame, is to be set to it.
RenderLook ==
  /\ eng = "look"
  /\ eng' = IF vid = <<>> THEN "idle"
            ELSE IF base = 0 \/ base > Head(vid) THEN "time" ELSE "clock"
  /\ rendered' = (rendered /\ vid # <<>>)
  /\ UNCHANGED <<playerVars, queueVars, base, since, clk, dev, devPts, histVars>>

RenderTime ==
  /\ eng = "time"
  /\ eng' = "pts" /\ since' = 0 /\ limit' = Larger(limit, Head(vid))
  /\ UNCHANGED <<playerVars, queueVars, base, clk, rendered, dev, devPts,
                 intact, cut, garbled, torn>>

RenderPts ==
  /\ eng = "pts"
  /\ eng' = "clock" /\ base' = Head(vid)
  /\ UNCHANGED <<playerVars, queueVars, since, clk, rendered, dev, devPts, histVars>>

\* The clock is the sum of two reads; this is the first.
RenderClock ==
  /\ eng = "clock"
  /\ eng' = "take" /\ clk' = since
  /\ UNCHANGED <<playerVars, queueVars, base, since, rendered, dev, devPts, histVars>>

\* Variant to be rejected: a paused player keeps its frames.
RenderTakeUnlessPaused ==
  /\ eng = "take"
  /\ IF Head(vid) <= clk + base /\ off \cap {"video", "background"} = {}
     THEN eng' = "look" /\ vid' = Tail(vid) /\ rendered' = TRUE
     ELSE eng' = "idle" /\ rendered' = FALSE /\ UNCHANGED vid
  /\ clk' = 0 /\ torn' = FALSE
  /\ UNCHANGED <<playerVars, needKey, picture, aud, base, since, dev, devPts,
                 intact, cut, garbled, limit>>

\* A frame that is due leaves the queue, and is rendered if it is the first of this
\* call and the video is neither paused nor in the background.
RenderTake ==
  /\ eng = "take"
  /\ IF Head(vid) <= clk + base
     THEN /\ eng' = "look" /\ vid' = Tail(vid)
          /\ rendered' = (rendered \/ off \cap {"video", "background"} = {})
     ELSE eng' = "idle" /\ rendered' = FALSE /\ UNCHANGED vid
  /\ clk' = 0 /\ torn' = FALSE
  /\ UNCHANGED <<playerVars, needKey, picture, aud, base, since, dev, devPts,
                 intact, cut, garbled, limit>>

-----------------------------------------------------------------------------
(***************************************************************************)
(* The audio device's thread: MixAudioData and DoAudRender.                *)
(***************************************************************************)

\* A recording that is paused altogether keeps its audio.
AudPop ==
  /\ dev = "idle" /\ playing /\ aud # <<>>
  /\ {"audio", "video"} \subseteq off => mode = "live"
  /\ dev' = "time" /\ devPts' = Head(aud) /\ aud' = Tail(aud)
  /\ limit' = Larger(limit, Head(aud))
  /\ UNCHANGED <<playerVars, needKey, picture, vid, base, since, eng, clk, rendered,
                 intact, cut, garbled, torn>>

\* Variant to be rejected: the position is moved on by the time that has passed.
SetPtsAdvanced == base' = devPts + since /\ torn' = (torn \/ eng = "take") /\ UNCHANGED since

\* The two halves of a clock update.
SetTime == since' = 0 /\ UNCHANGED <<base, torn>>
SetPts == base' = devPts /\ torn' = (torn \/ eng = "take") /\ UNCHANGED since

\* Variant to be rejected: the position first.
AudClockSwapped ==
  /\ \/ dev = "time" /\ dev' = "pts" /\ SetPts /\ UNCHANGED devPts
     \/ dev = "pts" /\ dev' = "idle" /\ devPts' = 0 /\ SetTime
  /\ UNCHANGED <<playerVars, queueVars, eng, clk, rendered, intact, cut, garbled, limit>>

\* After its packet, the device sets the clock: the time first, then the position.
AudClock ==
  /\ \/ dev = "time" /\ dev' = "pts" /\ SetTime /\ UNCHANGED devPts
     \/ dev = "pts" /\ dev' = "idle" /\ devPts' = 0 /\ SetPts
  /\ UNCHANGED <<playerVars, queueVars, eng, clk, rendered, intact, cut, garbled, limit>>

\* Time passes.
Elapse ==
  /\ since' = Capped(since + 1)
  /\ limit' = IF limit = 0 THEN 0 ELSE Capped(limit + 1)
  /\ UNCHANGED <<playerVars, queueVars, base, eng, clk, rendered, dev, devPts,
                 intact, cut, garbled, torn>>

-----------------------------------------------------------------------------
Application ==
  \/ \E m \in Modes, p \in Pts : StartPlay(m, p)
  \/ StopPlay
  \/ \E t \in Toggles : Toggle(t)
  \/ \E p \in Pts : Seek(p)
  \/ SeekFailed

Render ==
  RenderBegin \/ RenderLook \/ RenderTime \/ RenderPts \/ RenderClock \/ RenderTake

Engine ==
  \/ \E p \in Pts : DecodeAudio(p)
  \/ \E p \in Pts, key \in BOOLEAN : DecodeVideo(p, key)
  \/ Render

Next == Application \/ Engine \/ AudPop \/ AudClock \/ Elapse

Spec == Init /\ [][Next]_vars

\* The engine ticks, time passes, a callback of the device ends.  Nothing obliges the
\* application, the source or the device.
Fairness ==
  /\ SF_vars(RenderBegin) /\ WF_vars(RenderLook) /\ WF_vars(RenderTime)
  /\ WF_vars(RenderPts) /\ WF_vars(RenderClock) /\ WF_vars(RenderTake)
  /\ WF_vars(AudClock) /\ WF_vars(Elapse)

LiveSpec == Spec /\ Fairness

-----------------------------------------------------------------------------
\* Neither queue outgrows its limit: an audio queue that fills up is cut, and the video
\* decoder waits for room (PlayAudioData, NeedMoreVideoPlyData).
Bounded == Len(aud) < MaxAudio /\ Len(vid) <= MaxVideo + 1

\* The video queue is in presentation order, whatever seeks did to the order in which
\* frames were decoded: DoVidRender looks at its front alone.
VideoSorted == \A i, j \in 1..Len(vid) : i < j => vid[i] <= vid[j]

\* The decoder is never given a packet that depends on one it has not had, whenever the
\* application went to the background and came back (FFBuffer::DoDecodeVideo).  Only a seek
\* can cut off what it depends on, when it fails or a tick held packets over its clearing
\* (the code does not close the gate then), and only until the next key frame.
DecodesFromKey == ~garbled

\* Video is rendered ahead of the presentation only if the device thread has set the clock
\* right between the engine thread's two reads of it: the order of the two unlocked
\* writes in DoAudRender keeps every other mixture of old and new behind.  A seek back does
\* not lower the limit: then this speaks only of what is ahead of the earlier position.
AheadOnlyIfTorn == [][~rendered /\ rendered' => Head(vid) <= limit \/ torn]_vars

\* A full video queue gets room again, paused or not and wherever the clock stood:
\* otherwise the video packets behind it would never be decoded.
RoomForVideo == Len(vid) > MaxVideo ~> Len(vid) <= MaxVideo

\* The picture that is rendered is that of the frame that is due.
OwnPicture == [][~rendered /\ rendered' => picture = Head(vid)]_vars
=============================================================================
