------------------------------ MODULE LivePlay ------------------------------
(***************************************************************************)
(* One play task of ArLive2Player: the read thread of ARFFPlayer, which    *)
(* opens the source, reads it into FFBuffer and closes it at its end, and  *)
(* the engine thread, which performs the application's calls and ticks the *)
(* buffer towards the decoders.  Both report the play status to the        *)
(* observer.                                                               *)
(*                                                                         *)
(* The packets of both streams are counted together and coarsely: the      *)
(* received list is empty, holds something, or holds all the reader may    *)
(* read ahead.  A tick takes packets off it in one step and hands them to  *)
(* the decoders in another, as it does under two locks in the code.        *)
(***************************************************************************)
EXTENDS Naturals

CONSTANTS
  Kinds,      \* the sources the application plays: "vod" (with a duration), "live"
  Toggles,    \* what it does besides playing: "pause", "seek", "replay", "cache"
  MaxCloses   \* bound on the closings counted by the history variable closes

ASSUME LivePlayAssumption ==
  /\ Kinds \subseteq {"vod", "live"}
  /\ Toggles \subseteq {"pause", "seek", "replay", "cache"}
  /\ MaxCloses \in Nat

VARIABLES    \* the engine thread, and flags of the application for the read thread
  task,      \* ar_player_ exists, with the kind of its source, else "none"
  stopping,  \* stopPlay waits for the read thread to end
  running,   \* b_running_ and, negated, b_abort_
  enA, enV,  \* user_set_.b_audio_enabled_, b_video_enabled_
  seek,      \* n_seek_to_ is not 0
  replay,    \* b_re_play_
  instant    \* ar_play_conf_.nMinCacheTime, the start threshold, is 0

callVars == <<task, stopping, running, enA, enV, seek, replay, instant>>

VARIABLES    \* the read thread
  rd,        \* where it stands, "off" when it does not run
  fmt,       \* fmt_ctx_ is open
  opened,    \* b_open_stream_success_
  eof,       \* b_got_eof_
  notified,  \* b_notify_closed_
  reconnect, \* n_reconnect_time_: "none" (0), "wait" (ahead), "due" (reached)
  heard,     \* n_last_recv_data_time_: "none" (0), "fresh", "stale" (5000 ms ago)
  again      \* needSeek, a local of ReadThreadProcess

readVars == <<rd, fmt, opened, eof, notified, reconnect, heard, again>>

VARIABLES    \* FFBuffer
  recv,      \* lst_audio_recv_, lst_video_recv_: Empty, Some or Full
  hand,      \* audList and vidList, the locals of a tick, hold packets
  drained,   \* ... which found both lists empty
  tick,      \* a tick stands between its two steps
  dec,       \* lst_audio_decode_ or lst_video_decode_ hold packets
  play,      \* play_status_
  reset      \* b_reset_time_

bufVars == <<recv, hand, drained, tick, dec, play, reset>>

VARIABLES    \* history, read by no action
  report,    \* the last status reported to the observer in this task
  closes,    \* how often Stopped was reported in it
  replays,   \* how often rePlay was called in it
  ended,     \* the source itself has ended since it was opened
  starved,   \* it has sent nothing for 5000 ms although there was room
  unsought   \* the position last asked for has not been sought yet

histVars == <<report, closes, replays, ended, starved, unsought>>

vars == <<callVars, readVars, bufVars, histVars>>

Empty == 0
Some == 1
Full == 2

Paused == ~enA /\ ~enV                        \* OnBufferGetPuased
BufferIsEmpty == recv = Empty /\ ~dec         \* a tick's locals are not looked at
NeedMoreData == recv # Full
Capped(n) == IF n < MaxCloses THEN n + 1 ELSE n

\* Both streams' fresh state: a new ARFFPlayer.
Fresh ==
  /\ seek' = FALSE /\ replay' = FALSE
  /\ fmt' = FALSE /\ opened' = FALSE /\ eof' = FALSE /\ notified' = FALSE
  /\ reconnect' = "due" /\ heard' = "none" /\ again' = FALSE
  /\ recv' = Empty /\ hand' = FALSE /\ drained' = FALSE /\ tick' = FALSE /\ dec' = FALSE
  /\ play' = "Init" /\ reset' = FALSE
  /\ report' = "None" /\ closes' = 0 /\ replays' = 0 /\ ended' = FALSE /\ starved' = FALSE
  /\ unsought' = FALSE

Init ==
  /\ task = "none" /\ stopping = FALSE /\ running = FALSE /\ enA = TRUE /\ enV = TRUE
  /\ seek = FALSE /\ replay = FALSE /\ instant = FALSE
  /\ rd = "off" /\ fmt = FALSE /\ opened = FALSE /\ eof = FALSE /\ notified = FALSE
  /\ reconnect = "none" /\ heard = "none" /\ again = FALSE
  /\ recv = Empty /\ hand = FALSE /\ drained = FALSE /\ tick = FALSE /\ dec = FALSE
  /\ play = "Init" /\ reset = FALSE
  /\ report = "None" /\ closes = 0 /\ replays = 0 /\ ended = FALSE /\ starved = FALSE
  /\ unsought = FALSE

\* FFBuffer::DoClear.  play_status_ stays: the code compares it with PS_Init.
DoClear == recv' = Empty /\ dec' = FALSE /\ reset' = TRUE

\* ARFFPlayer::CloseFFDecode
CloseFFDecode == DoClear /\ fmt' = FALSE /\ heard' = "none"

-----------------------------------------------------------------------------
(***************************************************************************)
(* The engine thread: the application's calls.                             *)
(***************************************************************************)

EngineFree == ~stopping /\ ~tick

\* startPlay creates the ARFFPlayer and starts its thread.
StartPlay(kind) ==
  /\ EngineFree /\ task = "none"
  /\ task' = kind /\ running' = TRUE /\ rd' = "loop"
  /\ Fresh
  /\ UNCHANGED <<stopping, enA, enV, instant>>

\* Variant to be rejected: stopPlay is not marshalled to the engine thread.
StopPlayMidTick ==
  /\ ~stopping /\ task # "none"
  /\ stopping' = TRUE /\ running' = FALSE /\ reconnect' = "none"
  /\ UNCHANGED <<task, enA, enV, seek, replay, instant, rd, fmt, opened, eof, notified, heard,
                 again, bufVars, histVars>>

\* Variant to be rejected: the read thread is joined without being told to end.
StopPlayNoAbort ==
  /\ EngineFree /\ task # "none"
  /\ stopping' = TRUE /\ reconnect' = "none"
  /\ UNCHANGED <<task, running, enA, enV, seek, replay, instant, rd, fmt, opened, eof, notified,
                 heard, again, bufVars, histVars>>

\* stopPlay: no tick comes any more, StopTask lowers the flags and joins the thread ...
StopPlay ==
  /\ EngineFree /\ task # "none"
  /\ stopping' = TRUE /\ running' = FALSE /\ reconnect' = "none"
  /\ UNCHANGED <<task, enA, enV, seek, replay, instant, rd, fmt, opened, eof, notified, heard,
                 again, bufVars, histVars>>

\* ... clears the buffer, and the player is deleted.
StopDone ==
  /\ stopping /\ rd = "off"
  /\ stopping' = FALSE /\ task' = "none"
  /\ DoClear
  /\ UNCHANGED <<running, enA, enV, seek, replay, instant, readVars, hand, drained, tick, play,
                 histVars>>

\* pauseAudio, resumeAudio, pauseVideo and resumeVideo.
PauseAudio ==
  /\ "pause" \in Toggles /\ EngineFree
  /\ enA' = ~enA
  /\ UNCHANGED <<task, stopping, running, enV, seek, replay, instant, readVars, bufVars, histVars>>

PauseVideo ==
  /\ "pause" \in Toggles /\ EngineFree
  /\ enV' = ~enV
  /\ UNCHANGED <<task, stopping, running, enA, seek, replay, instant, readVars, bufVars, histVars>>

\* seekTo, to a position other than 0.
SeekTo ==
  /\ "seek" \in Toggles /\ EngineFree /\ task # "none"
  /\ seek' = TRUE /\ unsought' = (unsought \/ task = "vod")
  /\ UNCHANGED <<task, stopping, running, enA, enV, replay, instant, readVars, bufVars,
                 report, closes, replays, ended, starved>>

RePlay ==
  /\ "replay" \in Toggles /\ EngineFree /\ task # "none"
  /\ replay' = TRUE /\ replays' = Capped(replays)
  /\ UNCHANGED <<task, stopping, running, enA, enV, seek, instant, readVars, bufVars,
                 report, closes, ended, starved, unsought>>

\* setCacheParams, refused during a task.  The minimum, in seconds, may be any number from
\* 0 on and is cut to an integer: below 1 the start threshold is 0 ms.  It stays 0, because
\* the limit up to which it grows is made the same number.
SetCacheParams(zero) ==
  /\ "cache" \in Toggles /\ EngineFree /\ task = "none"
  /\ instant' = zero
  /\ UNCHANGED <<task, stopping, running, enA, enV, seek, replay, readVars, bufVars, histVars>>

-----------------------------------------------------------------------------
(***************************************************************************)
(* The engine thread: OnTick, RunOnce and FFBuffer::DoTick.                *)
(***************************************************************************)

Ticks == EngineFree /\ task # "none"

\* A tick that does not play moves a front packet that has waited too long to the decoders.
TakeOld ==
  \/ UNCHANGED <<recv, dec>>
  \/ recv # Empty /\ recv' \in {recv, recv - 1} /\ dec' = TRUE

\* Variant to be rejected: the lists are not asked whether they are empty.
TickResetUnchecked ==
  /\ Ticks /\ reset
  /\ reset' = FALSE
  /\ \/ UNCHANGED <<recv, dec>>
     \/ recv' \in {recv, recv - 1} /\ dec' = TRUE
  /\ UNCHANGED <<callVars, readVars, hand, drained, tick, play, histVars>>

\* The buffer was cleared: the clock starts again at the first packet, if there is one.
TickReset ==
  /\ Ticks /\ reset
  /\ reset' = FALSE /\ TakeOld
  /\ UNCHANGED <<callVars, readVars, hand, drained, tick, play, histVars>>

\* Init or Caching, and not yet enough data to play.  Nothing is enough for a threshold of 0.
TickCaching ==
  /\ Ticks /\ ~reset /\ play # "Playing" /\ (recv = Empty => ~instant)
  /\ TakeOld
  /\ UNCHANGED <<callVars, readVars, hand, drained, tick, play, reset, histVars>>

\* Variant to be rejected: playing starts without data.
TickPlayingUnfilled ==
  /\ Ticks /\ ~reset /\ play # "Playing"
  /\ play' = "Playing" /\ TakeOld
  /\ report' = IF play = "Caching" /\ enA THEN "Playing" ELSE report
  /\ UNCHANGED <<callVars, readVars, hand, drained, tick, reset,
                 closes, replays, ended, starved, unsought>>

\* Enough: playing starts, reported (as the end of a Loading) except for the first time.
TickPlaying ==
  /\ Ticks /\ ~reset /\ play # "Playing" /\ (recv = Empty => instant)
  /\ play' = "Playing" /\ TakeOld
  /\ report' = IF play = "Caching" /\ enA THEN "Playing" ELSE report
  /\ UNCHANGED <<callVars, readVars, hand, drained, tick, reset,
                 closes, replays, ended, starved, unsought>>

\* Playing: the packets that are due are taken into the tick's own lists; a front packet
\* far ahead of the last one asks for the clock to be reset.
TickTake ==
  /\ Ticks /\ ~reset /\ play = "Playing" /\ ~Paused
  /\ tick' = TRUE /\ drained' = (recv = Empty)
  /\ \/ /\ recv # Empty /\ reset' \in BOOLEAN
        /\ \/ recv' \in {n \in Empty..Full : n <= recv} /\ hand' = TRUE
           \/ UNCHANGED <<recv, hand>>
     \/ recv = Empty /\ UNCHANGED <<recv, hand, reset>>
  /\ UNCHANGED <<callVars, readVars, dec, play, histVars>>

\* They go to the decoders; if there were none at all, caching starts and is reported.
TickPush ==
  /\ tick
  /\ tick' = FALSE /\ hand' = FALSE /\ dec' = (dec \/ hand)
  /\ play' = IF drained THEN "Caching" ELSE play
  /\ report' = IF drained /\ enA THEN "Loading" ELSE report
  /\ UNCHANGED <<callVars, readVars, recv, drained, reset,
                 closes, replays, ended, starved, unsought>>

\* RunOnce: the decoders take what PlayBuffer has room for.  It makes room as its clock
\* runs, which a pause does not stop.
Decode ==
  /\ Ticks /\ dec
  /\ dec' = FALSE
  /\ UNCHANGED <<callVars, readVars, recv, hand, drained, tick, play, reset, histVars>>

-----------------------------------------------------------------------------
(***************************************************************************)
(* The read thread: ARFFPlayer::Run.                                       *)
(***************************************************************************)

\* A pass of the loop with b_re_play_ set: everything is closed and opened anew.
RunReplay ==
  /\ rd = "loop" /\ running /\ replay
  /\ replay' = FALSE /\ seek' = FALSE
  /\ CloseFFDecode
  /\ reconnect' = "wait" /\ rd' = "open" /\ unsought' = FALSE
  /\ UNCHANGED <<task, stopping, running, enA, enV, instant, opened, eof, notified, again,
                 hand, drained, tick, play, report, closes, replays, ended, starved>>

\* A pass without a source, the time to open it being reached.
RunReconnect ==
  /\ rd = "loop" /\ running /\ ~replay /\ ~fmt /\ reconnect = "due"
  /\ reconnect' = "wait" /\ rd' = "open"
  /\ UNCHANGED <<callVars, fmt, opened, eof, notified, heard, again, bufVars, histVars>>

\* OpenFFDecode succeeds; only the first time the observer hears of it.
OpenDone ==
  /\ rd = "open"
  /\ fmt' = TRUE /\ eof' = FALSE /\ opened' = TRUE
  /\ rd' = "opened"
  /\ report' = IF opened THEN report ELSE "Playing"
  /\ ended' = FALSE /\ starved' = FALSE
  /\ UNCHANGED <<callVars, notified, reconnect, heard, again, bufVars, closes, replays,
                 unsought>>

\* Variant to be rejected: a source lost is given up like one that never opened.
OpenFailedForGood ==
  /\ rd = "open"
  /\ rd' = "loop"
  /\ IF opened THEN reconnect' = "none" /\ UNCHANGED <<fmt, heard, notified, recv, dec, reset, report, closes>>
     ELSE /\ CloseFFDecode
          /\ reconnect' = "none" /\ notified' = TRUE
          /\ report' = "Stopped" /\ closes' = Capped(closes)
  /\ UNCHANGED <<callVars, opened, eof, again, hand, drained, tick, play, replays, ended, starved,
                 unsought>>

\* It fails: given up and reported the first time, else left to the timer of 15 s.
OpenFailed ==
  /\ rd = "open"
  /\ rd' = "loop"
  /\ IF opened THEN UNCHANGED <<fmt, heard, reconnect, notified, recv, dec, reset, report, closes>>
     ELSE /\ CloseFFDecode
          /\ reconnect' = "none" /\ notified' = TRUE
          /\ report' = "Stopped" /\ closes' = Capped(closes)
  /\ UNCHANGED <<callVars, opened, eof, again, hand, drained, tick, play, replays, ended, starved,
                 unsought>>

\* A position asked for before the source was open is sought now: n_seek_to_ is read here
\* and set to 0 in a step of its own, SeekClear.
OpenedSeek ==
  /\ rd = "opened"
  /\ rd' = IF seek THEN "seekopen" ELSE "loop"
  /\ unsought' = (unsought /\ ~seek)
  /\ UNCHANGED <<callVars, fmt, opened, eof, notified, reconnect, heard, again, bufVars,
                 report, closes, replays, ended, starved>>

RunReconnectTimer ==
  /\ reconnect = "wait"
  /\ reconnect' = "due"
  /\ UNCHANGED <<callVars, rd, fmt, opened, eof, notified, heard, again, bufVars, histVars>>

\* A pass with a source is ReadThreadProcess, which starts with the position asked for.
RunRead == rd = "loop" /\ running /\ ~replay /\ fmt

NoSeek ==
  /\ RunRead /\ ~(seek /\ task = "vod")
  /\ rd' = "check" /\ again' = FALSE /\ seek' = FALSE
  /\ UNCHANGED <<task, stopping, running, enA, enV, replay, instant, fmt, opened, eof, notified,
                 reconnect, heard, bufVars, histVars>>

Seek ==
  /\ RunRead /\ seek /\ task = "vod" /\ ~eof
  /\ rd' = "seek" /\ again' = TRUE /\ unsought' = FALSE
  /\ UNCHANGED <<callVars, fmt, opened, eof, notified, reconnect, heard, bufVars,
                 report, closes, replays, ended, starved>>

SeekClear ==
  /\ rd \in {"seek", "seekopen"}
  /\ seek' = FALSE
  /\ IF rd = "seek" THEN rd' = "check" /\ DoClear
                    ELSE rd' = "loop" /\ UNCHANGED <<recv, dec, reset>>
  /\ UNCHANGED <<task, stopping, running, enA, enV, replay, instant, fmt, opened, eof, notified,
                 reconnect, heard, again, hand, drained, tick, play, histVars>>

\* At the end of the source the position is kept until the source has been opened again.
SeekAtEnd ==
  /\ RunRead /\ seek /\ task = "vod" /\ eof
  /\ rd' = "check" /\ again' = TRUE
  /\ DoClear
  /\ UNCHANGED <<callVars, fmt, opened, eof, notified, reconnect, heard,
                 hand, drained, tick, play, histVars>>

\* Then the end of the source, real or simulated after 5000 ms without data.
AtEnd == eof \/ heard = "stale"

CheckNotEnded ==
  /\ rd = "check" /\ ~AtEnd
  /\ rd' = "fill"
  /\ UNCHANGED <<callVars, fmt, opened, eof, notified, reconnect, heard, again,
                 bufVars, histVars>>

\* Everything was played: the source is closed, and opened again if a seek was asked for.
CheckClose ==
  /\ rd = "check" /\ AtEnd /\ BufferIsEmpty
  /\ rd' = "loop" /\ eof' = TRUE
  /\ CloseFFDecode
  /\ IF again THEN reconnect' = "due" /\ UNCHANGED <<notified, report, closes>>
     ELSE /\ reconnect' = "none" /\ notified' = TRUE
          /\ report' = "Stopped" /\ closes' = Capped(closes)
  /\ UNCHANGED <<callVars, opened, again, hand, drained, tick, play, replays, ended, starved,
                 unsought>>

\* Variant to be rejected: a rest too short to be played is kept.
CheckWaitKeeps ==
  /\ rd = "check" /\ AtEnd /\ ~BufferIsEmpty
  /\ rd' = "loop" /\ eof' = TRUE /\ heard' = (IF heard = "stale" THEN "none" ELSE heard)
  /\ UNCHANGED <<recv, dec, reset>>
  /\ UNCHANGED <<callVars, fmt, opened, notified, reconnect, again, hand, drained, tick, play,
                 histVars>>

\* The rest will be played, or, if it is too little to start playing, dropped.
CheckWait ==
  /\ rd = "check" /\ AtEnd /\ ~BufferIsEmpty
  /\ rd' = "loop" /\ eof' = TRUE /\ heard' = (IF heard = "stale" THEN "none" ELSE heard)
  /\ IF play = "Playing" THEN UNCHANGED <<recv, dec, reset>> ELSE DoClear
  /\ UNCHANGED <<callVars, fmt, opened, notified, reconnect, again, hand, drained, tick, play,
                 histVars>>

\* Then reading, while the buffer has room and at most six packets.
Fill ==
  /\ rd = "fill"
  /\ rd' = IF NeedMoreData THEN "read" ELSE "loop"
  /\ UNCHANGED <<callVars, fmt, opened, eof, notified, reconnect, heard, again,
                 bufVars, histVars>>

\* av_read_frame returns a packet ...
ReadPacket ==
  /\ rd = "read"
  /\ rd' \in {"fill", "loop"} /\ heard' = "fresh"
  /\ recv' \in {Some, Full} /\ recv' >= recv
  /\ UNCHANGED <<callVars, fmt, opened, eof, notified, reconnect, again,
                 hand, drained, tick, dec, play, reset, histVars>>

\* ... or the end of the source ...
ReadEof ==
  /\ rd = "read"
  /\ rd' = "loop" /\ eof' = TRUE /\ ended' = TRUE
  /\ UNCHANGED <<callVars, fmt, opened, notified, reconnect, heard, again, bufVars,
                 report, closes, replays, starved, unsought>>

\* ... or another error, or is interrupted by b_abort_.
ReadFailed ==
  /\ rd = "read"
  /\ rd' \in {"fill", "loop"}
  /\ UNCHANGED <<callVars, fmt, opened, eof, notified, reconnect, heard, again,
                 bufVars, histVars>>

\* 5000 ms pass without a packet.  A buffer without room that is being played gets room
\* sooner than that, so either the source is silent or the buffer is not played.
Silence ==
  /\ heard = "fresh" /\ (NeedMoreData \/ Paused)
  /\ heard' = "stale" /\ starved' = (starved \/ NeedMoreData)
  /\ UNCHANGED <<callVars, rd, fmt, opened, eof, notified, reconnect, again, bufVars,
                 report, closes, replays, ended, unsought>>

\* Variant to be rejected: the end is reported although it has been before.
RunEndReports ==
  /\ rd = "loop" /\ ~running
  /\ rd' = "off" /\ reconnect' = "none"
  /\ CloseFFDecode
  /\ report' = "Stopped" /\ closes' = Capped(closes)
  /\ UNCHANGED <<callVars, opened, eof, notified, again, hand, drained, tick, play,
                 replays, ended, starved, unsought>>

\* The loop ends: the source is closed, and that is reported unless it has been before.
RunEnd ==
  /\ rd = "loop" /\ ~running
  /\ rd' = "off" /\ reconnect' = "none"
  /\ CloseFFDecode
  /\ IF notified THEN UNCHANGED <<report, closes>>
     ELSE report' = "Stopped" /\ closes' = Capped(closes)
  /\ UNCHANGED <<callVars, opened, eof, notified, again, hand, drained, tick, play,
                 replays, ended, starved, unsought>>

-----------------------------------------------------------------------------
Application ==
  \/ \E kind \in Kinds : StartPlay(kind)
  \/ StopPlay \/ StopDone
  \/ PauseAudio \/ PauseVideo \/ SeekTo \/ RePlay
  \/ \E zero \in BOOLEAN : SetCacheParams(zero)

Tick == TickReset \/ TickCaching \/ TickPlaying \/ TickTake \/ TickPush \/ Decode

Run ==
  \/ RunReplay \/ RunReconnect \/ OpenDone \/ OpenFailed \/ OpenedSeek
  \/ NoSeek \/ Seek \/ SeekClear \/ SeekAtEnd
  \/ CheckNotEnded \/ CheckClose \/ CheckWait
  \/ Fill \/ ReadPacket \/ ReadEof \/ ReadFailed
  \/ RunEnd

Next == Application \/ Tick \/ Run \/ RunReconnectTimer \/ Silence

Spec == Init /\ [][Next]_vars

\* The engine ticks and the decoders are served; the clock reaches the front packet; the
\* read thread runs, and an open attempt returns within its timeout.  Nothing obliges the
\* source to send: av_read_frame has no timeout, but it returns once the task is aborted,
\* and its loop ends after six packets.
Fairness ==
  /\ WF_vars(StopDone) /\ WF_vars(TickReset) /\ WF_vars(TickPush) /\ SF_vars(Decode)
  /\ SF_vars(TickTake /\ recv' < recv)
  /\ WF_vars(RunReplay) /\ WF_vars(RunReconnect) /\ WF_vars(RunReconnectTimer)
  /\ WF_vars(OpenDone \/ OpenFailed) /\ WF_vars(OpenedSeek)
  /\ WF_vars(NoSeek) /\ WF_vars(Seek) /\ WF_vars(SeekClear) /\ WF_vars(SeekAtEnd)
  /\ WF_vars(CheckNotEnded) /\ WF_vars(CheckClose) /\ WF_vars(CheckWait) /\ WF_vars(Fill)
  /\ SF_vars(Run /\ rd = "read" /\ rd' = "loop" /\ ~running)
  /\ WF_vars(RunEnd)

\* A source that goes on sending, or fails, but is never silent for good.
SourceFairness == SF_vars(Run /\ rd = "read" /\ rd' = "loop")

LiveSpec == Spec /\ Fairness
SourceSpec == LiveSpec /\ SourceFairness
-----------------------------------------------------------------------------
CallTypes ==
  /\ task \in Kinds \cup {"none"} /\ stopping \in BOOLEAN /\ running \in BOOLEAN
  /\ enA \in BOOLEAN /\ enV \in BOOLEAN /\ seek \in BOOLEAN /\ replay \in BOOLEAN
  /\ instant \in BOOLEAN

ReadTypes ==
  /\ rd \in {"off", "loop", "open", "opened", "seekopen", "seek", "check", "fill", "read"}
  /\ fmt \in BOOLEAN /\ opened \in BOOLEAN /\ eof \in BOOLEAN /\ notified \in BOOLEAN
  /\ reconnect \in {"none", "wait", "due"} /\ heard \in {"none", "fresh", "stale"}
  /\ again \in BOOLEAN

BufferTypes ==
  /\ recv \in {Empty, Some, Full} /\ hand \in BOOLEAN /\ drained \in BOOLEAN
  /\ tick \in BOOLEAN /\ dec \in BOOLEAN
  /\ play \in {"Init", "Caching", "Playing"} /\ reset \in BOOLEAN

HistTypes ==
  /\ report \in {"None", "Playing", "Loading", "Stopped"}
  /\ closes \in 0..MaxCloses /\ replays \in 0..MaxCloses
  /\ ended \in BOOLEAN /\ starved \in BOOLEAN /\ unsought \in BOOLEAN

\* Every variable keeps its type.
TypeOK == CallTypes /\ ReadTypes /\ BufferTypes /\ HistTypes

\* The first loading of a task is not reported as Loading: that comes only after Playing.
\* This needs a start threshold; with one of 0 an empty buffer begins to play while the
\* source is being opened, is found empty by the next tick, and Loading is reported.
LoadingAfterPlaying ==
  task # "none" /\ ~instant /\ (report = "Loading" \/ play # "Init") => opened

\* The observer is told of a stop once, and once more at most for each rePlay.
OneStopPerPlay == closes <= replays + 1

\* A stopped player holds no packet, wherever the tick and the read thread stood, so the
\* next task does not start with packets of this one.
StoppedIsEmpty == task = "none" => recv = Empty /\ ~hand /\ ~dec /\ ~fmt

\* stopPlay returns, also while the source is silent or being opened.
StopReturns == stopping ~> ~stopping

\* A source that has ended is played out and closed, unless it is paused or stopped.
EndIsClosed == fmt /\ ended /\ running ~> ~fmt \/ ~ended \/ Paused \/ ~running

\* While no closing has been reported, a read thread without a source comes to an attempt
\* to open one, the first or, for a source that was open before, another: it does not rest.
\* The other outcome is that the application stops the task before that.
NeverSilentlyClosed == running /\ ~fmt /\ ~notified ~> rd = "open" \/ ~running

\* The end of a source is simulated only when it sends nothing although there is room.
EofIsReal == eof => ended \/ starved

\* When stopPlay has returned, Stopped is the last status the observer was told.
StoppedIsLast == task = "none" => report \in {"None", "Stopped"}

\* The position the application asked for last is sought.
SeekTakesEffect == unsought ~> ~unsought \/ ~running \/ ~fmt
=============================================================================
