------------------------------ MODULE LivePush ------------------------------
(***************************************************************************)
(* One push session of ArLive2Pusher: the engine thread that starts, stops *)
(* and ticks it, the writer it reconnects (ARFFPusher over ArFFWriter),    *)
(* the thread of the H264 encoder, the camera thread that feeds it, and    *)
(* the threads that deliver audio.  The steps of different threads         *)
(* interleave wherever the code reads a shared flag outside a lock.        *)
(*                                                                         *)
(* A critical section during which nothing else of the model can be        *)
(* observed is one action.  The long sections are spans of a program       *)
(* counter: the encoder's shutdown under cs_h264_encoder_ (HoldsEncoder),  *)
(* and whatever is done on the network under cs_ar_writer_ (HoldsWriter),  *)
(* which ends when the peer lets it: ArFFWriter sets no timeout.           *)
(***************************************************************************)
EXTENDS Naturals, FiniteSets

CONSTANTS
  UrlKinds,  \* the kinds of url the application passes to startPush
  Toggles    \* the groups of settings the application changes: "mic",
             \* "custom" (audio capture) and "pause"

Scheduled == {"rtmp", "rtp", "rtsp"}   \* the schemes ARFFPusher::startTask knows

ASSUME LivePushAssumption ==
  /\ UrlKinds \subseteq Scheduled \cup {"other"}
  /\ Toggles \subseteq {"mic", "custom", "pause"}

AudioThreads == {"dev", "app"}   \* microphone callback, sendCustomAudioFrame
DataThreads == AudioThreads \cup {"enc"}

VARIABLES
  main,      \* where the engine thread stands, "idle" between two operations
  live,      \* b_live_pushed_
  mic,       \* b_micro_phpone_started_
  custom,    \* b_enable_custom_audio_capture_
  pausedA,   \* b_audio_paused_
  pausedV,   \* b_video_paused_
  client,    \* b_client_connected_
  attached,  \* this pusher is in the engine's map_aud_dev_capture_
  ticking,   \* this pusher is in map_rtc_tick_
  pusher,    \* ar_pusher_ points to a live ARFFPusher
  aac,       \* aac_encoder_ exists
  h264       \* h264_encoder_ exists

pushVars == <<main, live, mic, custom, pausedA, pausedV, client, attached, ticking,
              pusher, aac, h264>>

VARIABLES
  needKey,   \* ARFFPusher::b_need_keyframe_
  tried,     \* n_retry_times_ > 0
  writer,    \* ar_writer_ exists
  wstate,    \* ArFFWriter::now_state_
  streams,   \* vid_stream_ and aud_stream_ exist
  retry      \* n_next_retry_time_: "none" (0), "wait" (ahead), "due" (reached)

writerVars == <<needKey, tried, writer, wstate, streams, retry>>

VARIABLES
  enc,       \* where the encoder thread stands, "off" when it does not run
  running,   \* V_H264Encoder::running_
  frame,     \* render_buffers_ holds a frame
  encKey,    \* need_keyframe_: the next frame is to be a key frame
  keyDue,    \* n_next_keyframe_time_ has been reached
  key,       \* the frame being delivered is a key frame
  cap,       \* the camera thread has passed OnFrame's checks
  aud        \* where each audio thread stands

threadVars == <<enc, running, frame, encKey, keyDue, key, cap, aud>>

VARIABLES    \* history, read by no action
  status,    \* the last push status reported in the session
  sentKey,   \* a key frame was written on the current connection
  early      \* packets each thread wrote on it ahead of its key frame, capped at 2

histVars == <<status, sentKey, early>>

vars == <<pushVars, writerVars, threadVars, histVars>>

\* Data thread t is inside av_interleaved_write_frame.
Sends(t) == IF t = "enc" THEN enc = "send" ELSE aud[t] = "send"

HoldsWriter ==                                             \* cs_ar_writer_
  main \in {"connect", "trailer"} \/ \E t \in DataThreads : Sends(t)
HoldsEncoder == main \in {"video", "stopping", "join"}     \* cs_h264_encoder_
HoldsAac(t) == aud[t] \in {"callback", "write", "send"}    \* cs_aac_encoder_

Init ==
  /\ main = "idle" /\ live = FALSE /\ mic = FALSE /\ custom = FALSE
  /\ pausedA = FALSE /\ pausedV = FALSE /\ client = FALSE
  /\ attached = FALSE /\ ticking = FALSE /\ pusher = FALSE /\ aac = FALSE /\ h264 = FALSE
  /\ needKey = TRUE /\ tried = FALSE
  /\ writer = FALSE /\ wstate = "Init" /\ streams = FALSE /\ retry = "none"
  /\ enc = "off" /\ running = FALSE /\ frame = FALSE /\ encKey = TRUE /\ keyDue = TRUE
  /\ key = FALSE /\ cap = FALSE /\ aud = [t \in AudioThreads |-> "idle"]
  /\ status = "None" /\ sentKey = FALSE /\ early = [t \in DataThreads |-> 0]

-----------------------------------------------------------------------------
(***************************************************************************)
(* The engine thread: operations of the application, marshalled here.      *)
(***************************************************************************)

\* ArLive2Pusher::startPush up to ar_pusher_->startTask, and ARFFPusher::startTask.
\* A url of an unknown scheme creates a writer whose StartTask is never called.
StartPush(url) ==
  /\ main = "idle" /\ ~live
  /\ main' = "init" /\ live' = TRUE /\ pusher' = TRUE
  /\ needKey' = TRUE /\ tried' = FALSE
  /\ writer' = TRUE /\ wstate' = "Init" /\ streams' = FALSE
  /\ retry' = IF url \in Scheduled THEN "due" ELSE "none"
  /\ status' = "None" /\ sentKey' = FALSE /\ early' = [t \in DataThreads |-> 0]
  /\ UNCHANGED <<mic, custom, pausedA, pausedV, client, attached, ticking, aac, h264,
                 threadVars>>

\* The rest of startPush: both encoders, RequestKeyFrame, the microphone, the tick.
\* The encoder object is new, so its queue is empty and its key frame timer expired.
InitCodecs ==
  /\ main = "init"
  /\ \A t \in AudioThreads : ~HoldsAac(t)
  /\ main' = "idle" /\ aac' = TRUE /\ h264' = TRUE
  /\ enc' = "check" /\ running' = TRUE /\ frame' = FALSE /\ encKey' = TRUE /\ keyDue' = TRUE
  /\ attached' = (attached \/ mic) /\ ticking' = TRUE
  /\ UNCHANGED <<live, mic, custom, pausedA, pausedV, client, pusher, writerVars,
                 key, cap, aud, histVars>>

\* ArLive2Pusher::stopPush: the flag falls first; what it tears down follows in order.
StopPush ==
  /\ main = "idle" /\ live
  /\ main' = "detach" /\ live' = FALSE
  /\ status' = "None"
  /\ UNCHANGED <<mic, custom, pausedA, pausedV, client, attached, ticking, pusher, aac, h264,
                 writerVars, threadVars, sentKey, early>>

\* Variant to be rejected: the ARFFPusher is deleted before the encoders are stopped.
StopDetachDeletes ==
  /\ main = "detach" /\ aud["dev"] = "idle"
  /\ main' = "task" /\ attached' = FALSE /\ ticking' = FALSE
  /\ UNCHANGED <<live, mic, custom, pausedA, pausedV, client, pusher, aac, h264,
                 writerVars, threadVars, histVars>>

\* DetachAudCapture waits for cs_aud_capture_, which a microphone callback holds
\* while it runs; UnRegisteRtcTick follows.
StopDetach ==
  /\ main = "detach" /\ aud["dev"] = "idle"
  /\ main' = "video" /\ attached' = FALSE /\ ticking' = FALSE
  /\ UNCHANGED <<live, mic, custom, pausedA, pausedV, client, pusher, aac, h264,
                 writerVars, threadVars, histVars>>

\* DestoryVideoEncoder invokes FreeVideoEncoder on the encoder thread, which drains
\* only the frames whose render time has come: one may stay.
FreeVideoEncoder ==
  /\ main = "video" /\ enc = "messages"
  /\ main' = "stopping"
  /\ frame' \in {FALSE, frame}
  /\ UNCHANGED <<live, mic, custom, pausedA, pausedV, client, attached, ticking, pusher, aac,
                 h264, writerVars, enc, running, encKey, keyDue, key, cap, aud, histVars>>

\* Variant to be rejected: the thread is joined without being told to end.
StopEncoderRunning ==
  /\ main = "stopping"
  /\ main' = "join"
  /\ UNCHANGED <<live, mic, custom, pausedA, pausedV, client, attached, ticking, pusher, aac,
                 h264, writerVars, enc, running, frame, encKey, keyDue, key, cap, aud, histVars>>

\* ... then clears running_ and joins the thread (rtc::Thread::Stop).
StopEncoder ==
  /\ main = "stopping"
  /\ main' = "join" /\ running' = FALSE
  /\ UNCHANGED <<live, mic, custom, pausedA, pausedV, client, attached, ticking, pusher, aac,
                 h264, writerVars, enc, frame, encKey, keyDue, key, cap, aud, histVars>>

JoinEncoder ==
  /\ main = "join" /\ enc = "off"
  /\ main' = "audio" /\ h264' = FALSE /\ frame' = FALSE
  /\ UNCHANGED <<live, mic, custom, pausedA, pausedV, client, attached, ticking, pusher, aac,
                 writerVars, enc, running, encKey, keyDue, key, cap, aud, histVars>>

\* Variant to be rejected: cs_aac_encoder_ is not taken.
DeinitAudioUnlocked ==
  /\ main = "audio"
  /\ main' = "task" /\ aac' = FALSE
  /\ UNCHANGED <<live, mic, custom, pausedA, pausedV, client, attached, ticking, pusher, h264,
                 writerVars, threadVars, histVars>>

\* deinitAudio, once no audio thread holds cs_aac_encoder_.
DeinitAudio ==
  /\ main = "audio" /\ \A t \in AudioThreads : ~HoldsAac(t)
  /\ main' = "task" /\ aac' = FALSE
  /\ UNCHANGED <<live, mic, custom, pausedA, pausedV, client, attached, ticking, pusher, h264,
                 writerVars, threadVars, histVars>>

\* ar_pusher_->stopTask: Release under cs_ar_writer_, which writes the trailer ...
StopTask ==
  /\ main = "task" /\ ~HoldsWriter
  /\ main' = "trailer"
  /\ UNCHANGED <<live, mic, custom, pausedA, pausedV, client, attached, ticking, pusher, aac,
                 h264, writerVars, threadVars, histVars>>

\* ... and the deletion of writer and pusher.
StopReleased ==
  /\ main = "trailer"
  /\ main' = "idle" /\ pusher' = FALSE
  /\ writer' = FALSE /\ wstate' = "Init" /\ streams' = FALSE /\ retry' = "none"
  /\ sentKey' = FALSE /\ early' = [t \in DataThreads |-> 0]
  /\ UNCHANGED <<live, mic, custom, pausedA, pausedV, client, attached, ticking, aac, h264,
                 needKey, tried, threadVars, status>>

\* ArLive2Pusher::startMicrophone, refused under custom audio capture.
StartMicrophone ==
  /\ "mic" \in Toggles /\ main = "idle" /\ ~custom /\ ~mic
  /\ live => aud["dev"] = "idle"
  /\ mic' = TRUE /\ attached' = (attached \/ live)
  /\ UNCHANGED <<main, live, custom, pausedA, pausedV, client, ticking, pusher, aac, h264,
                 writerVars, threadVars, histVars>>

\* Variant to be rejected: the pusher stays attached to the device.
StopMicrophoneOnly ==
  /\ "mic" \in Toggles /\ main = "idle" /\ mic
  /\ live => aud["dev"] = "idle"
  /\ mic' = FALSE
  /\ UNCHANGED <<main, live, custom, pausedA, pausedV, client, attached, ticking, pusher, aac, h264,
                 writerVars, threadVars, histVars>>

\* ArLive2Pusher::stopMicrophone.
StopMicrophone ==
  /\ "mic" \in Toggles /\ main = "idle" /\ mic
  /\ live => aud["dev"] = "idle"
  /\ mic' = FALSE /\ attached' = (attached /\ ~live)
  /\ UNCHANGED <<main, live, custom, pausedA, pausedV, client, ticking, pusher, aac, h264,
                 writerVars, threadVars, histVars>>

\* ArLive2Pusher::enableCustomAudioCapture, refused while pushing; it stops the microphone.
EnableCustomAudio(on) ==
  /\ "custom" \in Toggles /\ main = "idle" /\ ~live
  /\ custom' = on /\ mic' = (mic /\ ~on)
  /\ UNCHANGED <<main, live, pausedA, pausedV, client, attached, ticking, pusher, aac, h264,
                 writerVars, threadVars, histVars>>

\* pauseAudio, resumeAudio, pauseVideo and resumeVideo (ARFFPusher ignores them).
PauseAudio ==
  /\ "pause" \in Toggles /\ main = "idle"
  /\ pausedA' = ~pausedA
  /\ UNCHANGED <<main, live, mic, custom, pausedV, client, attached, ticking, pusher, aac, h264,
                 writerVars, threadVars, histVars>>

PauseVideo ==
  /\ "pause" \in Toggles /\ main = "idle"
  /\ pausedV' = ~pausedV
  /\ UNCHANGED <<main, live, mic, custom, pausedA, client, attached, ticking, pusher, aac, h264,
                 writerVars, threadVars, histVars>>

-----------------------------------------------------------------------------
(***************************************************************************)
(* The engine thread: the tick that drives the writer.                     *)
(***************************************************************************)

\* OnTick and runOnce take cs_ar_writer_ whether or not an attempt is due: a tick that
\* falls into a write keeps the engine thread waiting ...
TickWaits ==
  /\ main = "idle" /\ ticking /\ pusher /\ HoldsWriter
  /\ main' = "tick"
  /\ UNCHANGED <<live, mic, custom, pausedA, pausedV, client, attached, ticking, pusher, aac,
                 h264, writerVars, threadVars, histVars>>

\* ... for nothing, if no attempt is due when it gets the lock.
TickNothing ==
  /\ main = "tick" /\ ~HoldsWriter /\ retry # "due"
  /\ main' = "idle"
  /\ UNCHANGED <<live, mic, custom, pausedA, pausedV, client, attached, ticking, pusher, aac,
                 h264, writerVars, threadVars, histVars>>

\* The head of ArFFWriter::RunOnce: a due attempt is announced and Connect begins.
BeginConnect ==
  /\ main \in {"idle", "tick"} /\ ~HoldsWriter
  /\ ticking /\ pusher /\ writer /\ retry = "due"
  /\ main' = "connect"
  /\ retry' = "none" /\ wstate' = "Connecting"
  /\ status' = IF tried THEN "Reconnecting" ELSE "Connecting"
  /\ tried' = TRUE /\ client' = FALSE
  /\ UNCHANGED <<live, mic, custom, pausedA, pausedV, attached, ticking, pusher, aac, h264,
                 needKey, writer, streams, threadVars, sentKey, early>>

\* Connect returned true: OnArWriterStateChange asks for a key frame and reports success.
ConnectDone ==
  /\ main = "connect"
  /\ main' = "idle"
  /\ wstate' = "Connected" /\ streams' = TRUE /\ needKey' = TRUE
  /\ status' = "ConnectSuccess" /\ client' = TRUE
  /\ sentKey' = FALSE /\ early' = [t \in DataThreads |-> 0]
  /\ UNCHANGED <<live, mic, custom, pausedA, pausedV, attached, ticking, pusher, aac, h264,
                 tried, writer, retry, threadVars>>

\* Connect failed: Release and, as startTask called SetAutoRetry(true), another attempt.
ConnectFailed ==
  /\ main = "connect"
  /\ main' = "idle"
  /\ wstate' = "Failed" /\ streams' = FALSE /\ retry' = "wait"
  /\ UNCHANGED <<live, mic, custom, pausedA, pausedV, client, attached, ticking, pusher, aac,
                 h264, needKey, tried, writer, threadVars, histVars>>

\* The 1500 ms between two attempts pass.
RetryTimer ==
  /\ retry = "wait"
  /\ retry' = "due"
  /\ UNCHANGED <<pushVars, needKey, tried, writer, wstate, streams, threadVars, histVars>>

-----------------------------------------------------------------------------
(***************************************************************************)
(* Writing a packet: SetAudioEncData and SetVideoEncData, called under     *)
(* cs_ar_writer_ by a data thread.                                         *)
(***************************************************************************)

CanWrite == writer /\ streams /\ wstate = "Connected"

\* A key frame has cleared b_need_keyframe_ and is on its way to the writer.
KeyInFlight == key /\ enc \in {"gate", "write", "send"}

\* What early becomes as thread t hands a packet to av_interleaved_write_frame.
Counted(t, isKey) ==
  IF ~CanWrite \/ sentKey \/ isKey \/ KeyInFlight \/ early[t] = 2 THEN early
  ELSE [early EXCEPT ![t] = @ + 1]

\* av_interleaved_write_frame succeeded.
Written(isKey) ==
  /\ sentKey' = (sentKey \/ isKey)
  /\ UNCHANGED <<writerVars, status, early>>

\* Variant to be rejected: the writer's state is handed to the observer as it is.
WriteFailedReported ==
  /\ wstate' = "Failed" /\ streams' = FALSE /\ retry' = "wait"
  /\ status' = wstate'
  /\ UNCHANGED <<needKey, tried, writer, sentKey, early>>

\* Variant to be rejected: no further attempt is scheduled.
WriteFailedForGood ==
  /\ wstate' = "Failed" /\ streams' = FALSE /\ retry' = "none"
  /\ UNCHANGED <<needKey, tried, writer, histVars>>

\* It failed: the observer hears nothing, a new attempt is scheduled, Release.
WriteFailed ==
  /\ wstate' = "Failed" /\ streams' = FALSE /\ retry' = "wait"
  /\ UNCHANGED <<needKey, tried, writer, histVars>>

-----------------------------------------------------------------------------
(***************************************************************************)
(* The camera thread and the encoder thread.                               *)
(***************************************************************************)

\* ArLive2Pusher::OnFrame, its checks ...
OnFrame ==
  /\ ~cap /\ live /\ ~pausedV /\ client
  /\ cap' = TRUE
  /\ UNCHANGED <<pushVars, writerVars, enc, running, frame, encKey, keyDue, key, aud, histVars>>

\* ... and V_H264Encoder::Encode under cs_h264_encoder_.
EncodeFrame ==
  /\ cap /\ ~HoldsEncoder
  /\ cap' = FALSE
  /\ frame' = (frame \/ (h264 /\ running))
  /\ UNCHANGED <<pushVars, writerVars, enc, running, encKey, keyDue, key, aud, histVars>>

\* V_H264Encoder::Run: the loop's condition.
EncCheck ==
  /\ enc = "check"
  /\ enc' = IF running THEN "encode" ELSE "off"
  /\ UNCHANGED <<pushVars, writerVars, running, frame, encKey, keyDue, key, cap, aud, histVars>>

\* The loop finds no frame, or the codec yields no image for the frame it takes;
\* the request for a key frame is consumed all the same.
EncNothing ==
  /\ enc = "encode"
  /\ enc' = "messages" /\ frame' = FALSE
  /\ IF frame THEN encKey' = FALSE /\ keyDue' = FALSE ELSE UNCHANGED <<encKey, keyDue>>
  /\ UNCHANGED <<pushVars, writerVars, running, key, cap, aud, histVars>>

\* Variant to be rejected: the request for a key frame is not handed to the codec.
EncImageAny ==
  /\ enc = "encode" /\ frame
  /\ key' \in BOOLEAN
  /\ enc' = "callback" /\ frame' = FALSE
  /\ encKey' = FALSE /\ keyDue' = FALSE
  /\ UNCHANGED <<pushVars, writerVars, running, cap, aud, histVars>>

\* The codec yields an image: OnEncodedImage and OnEncodeDataCallback.
EncImage ==
  /\ enc = "encode" /\ frame
  /\ \E k \in IF encKey \/ keyDue THEN {TRUE} ELSE BOOLEAN :
       key' = k
  /\ enc' = "callback" /\ frame' = FALSE
  /\ encKey' = FALSE /\ keyDue' = FALSE
  /\ UNCHANGED <<pushVars, writerVars, running, cap, aud, histVars>>

\* Variant to be rejected: any frame clears the flag.
EncClearAny ==
  /\ enc = "callback"
  /\ enc' = "gate"
  /\ needKey' = (needKey /\ ~pusher)
  /\ UNCHANGED <<pushVars, tried, writer, wstate, streams, retry, running, frame, encKey,
                 keyDue, key, cap, aud, histVars>>

\* ARFFPusher::setVideoData: a key frame clears b_need_keyframe_, outside the lock ...
EncClear ==
  /\ enc = "callback"
  /\ enc' = "gate"
  /\ needKey' = (needKey /\ ~(pusher /\ key))
  /\ UNCHANGED <<pushVars, tried, writer, wstate, streams, retry, running, frame, encKey,
                 keyDue, key, cap, aud, histVars>>

\* ... and the flag is read again before cs_ar_writer_ is taken.
EncGate ==
  /\ enc = "gate"
  /\ enc' = IF pusher /\ ~needKey THEN "write" ELSE "messages"
  /\ UNCHANGED <<pushVars, writerVars, running, frame, encKey, keyDue, key, cap, aud, histVars>>

\* SetVideoEncData returns at once (-1, -3, no writer) or sends the packet, ...
EncWrite ==
  /\ enc = "write" /\ ~HoldsWriter
  /\ enc' = IF CanWrite THEN "send" ELSE "messages"
  /\ early' = Counted("enc", key)
  /\ UNCHANGED <<pushVars, writerVars, running, frame, encKey, keyDue, key, cap, aud,
                 status, sentKey>>

\* ... which keeps cs_ar_writer_ until the network has taken it or failed.
EncSent ==
  /\ enc = "send"
  /\ enc' = "messages"
  /\ Written(key) \/ WriteFailed
  /\ UNCHANGED <<pushVars, running, frame, encKey, keyDue, key, cap, aud>>

\* The loop's ProcessMessages, when FreeVideoEncoder is not posted.
EncMessages ==
  /\ enc = "messages" /\ main # "video"
  /\ enc' = "check"
  /\ UNCHANGED <<pushVars, writerVars, running, frame, encKey, keyDue, key, cap, aud, histVars>>

\* Three seconds have passed since the last key frame.
KeyFrameTimer ==
  /\ running /\ ~keyDue
  /\ keyDue' = TRUE
  /\ UNCHANGED <<pushVars, writerVars, enc, running, frame, encKey, key, cap, aud, histVars>>

-----------------------------------------------------------------------------
(***************************************************************************)
(* The audio threads.                                                      *)
(***************************************************************************)

\* RecordedDataIsAvailable, called by the device while attached or by
\* sendCustomAudioFrame under custom capture: the checks outside any lock.
AudRecorded(t) ==
  /\ aud[t] = "idle" /\ live /\ ~pausedA
  /\ IF t = "dev" THEN attached ELSE custom
  /\ aud' = [aud EXCEPT ![t] = "encode"]
  /\ UNCHANGED <<pushVars, writerVars, enc, running, frame, encKey, keyDue, key, cap, histVars>>

\* A_AACEncoder::Encode under cs_aac_encoder_, which may yield a packet.
AudEncode(t) ==
  /\ aud[t] = "encode" /\ \A u \in AudioThreads : ~HoldsAac(u)
  /\ \E next \in IF aac THEN {"callback", "idle"} ELSE {"idle"} :
       aud' = [aud EXCEPT ![t] = next]
  /\ UNCHANGED <<pushVars, writerVars, enc, running, frame, encKey, keyDue, key, cap, histVars>>

\* ARFFPusher::setAudioData reads b_need_keyframe_ outside the lock ...
AudGate(t) ==
  /\ aud[t] = "callback"
  /\ aud' = [aud EXCEPT ![t] = IF pusher /\ ~needKey THEN "write" ELSE "idle"]
  /\ UNCHANGED <<pushVars, writerVars, enc, running, frame, encKey, keyDue, key, cap, histVars>>

\* ... and writes under cs_ar_writer_, as the encoder thread does.
AudWrite(t) ==
  /\ aud[t] = "write" /\ ~HoldsWriter
  /\ aud' = [aud EXCEPT ![t] = IF CanWrite THEN "send" ELSE "idle"]
  /\ early' = Counted(t, FALSE)
  /\ UNCHANGED <<pushVars, writerVars, enc, running, frame, encKey, keyDue, key, cap,
                 status, sentKey>>

AudSent(t) ==
  /\ aud[t] = "send"
  /\ aud' = [aud EXCEPT ![t] = "idle"]
  /\ Written(FALSE) \/ WriteFailed
  /\ UNCHANGED <<pushVars, enc, running, frame, encKey, keyDue, key, cap>>

-----------------------------------------------------------------------------
Application ==
  \/ \E url \in UrlKinds : StartPush(url)
  \/ StopPush
  \/ StartMicrophone \/ StopMicrophone
  \/ \E on \in BOOLEAN : EnableCustomAudio(on)
  \/ PauseAudio \/ PauseVideo

Teardown ==
  StopDetach \/ FreeVideoEncoder \/ StopEncoder \/ JoinEncoder \/ DeinitAudio \/ StopTask \/ StopReleased

Connection == TickWaits \/ TickNothing \/ BeginConnect \/ ConnectDone \/ ConnectFailed

Encoder ==
  EncCheck \/ EncNothing \/ EncImage \/ EncClear \/ EncGate \/ EncWrite \/ EncSent \/ EncMessages

Audio(t) == AudRecorded(t) \/ AudEncode(t) \/ AudGate(t) \/ AudWrite(t) \/ AudSent(t)

Next ==
  \/ Application \/ InitCodecs \/ Teardown
  \/ Connection \/ RetryTimer
  \/ OnFrame \/ EncodeFrame \/ Encoder \/ KeyFrameTimer
  \/ \E t \in AudioThreads : Audio(t)

Spec == Init /\ [][Next]_vars

\* The engine thread carries its operations through and ticks; the other threads go on,
\* and one that waits for a lock obtains it if it is released again and again (SF);
\* time passes.  Nothing obliges the application to act or the network to answer: no
\* step that ends a call into the network is fair (ConnectDone, ConnectFailed, EncSent,
\* AudSent, StopReleased), see NetworkReturns.
Fairness ==
  /\ SF_vars(TickNothing \/ BeginConnect \/ StopDetach \/ DeinitAudio)
  /\ WF_vars(InitCodecs) /\ WF_vars(FreeVideoEncoder) /\ WF_vars(StopEncoder)
  /\ WF_vars(JoinEncoder) /\ WF_vars(StopTask)
  /\ WF_vars(RetryTimer) /\ WF_vars(KeyFrameTimer)
  /\ WF_vars(EncCheck) /\ WF_vars(EncNothing \/ EncImage) /\ WF_vars(EncClear)
  /\ WF_vars(EncGate) /\ SF_vars(EncWrite) /\ WF_vars(EncMessages)
  /\ \A t \in AudioThreads : SF_vars(AudEncode(t) \/ AudWrite(t)) /\ WF_vars(AudGate(t))

\* Every call into the network returns, with a result or an error.  A hypothesis of the
\* properties that need it: a peer that stops reading may keep a call for ever.
WritesReturn(t) == []<>~Sends(t)
NetworkReturns ==
  []<>(main \notin {"connect", "trailer"}) /\ \A t \in DataThreads : WritesReturn(t)

\* The camera delivers frames, and the codec does not swallow every key frame asked of it.
CameraFairness ==
  /\ SF_vars(OnFrame) /\ WF_vars(EncodeFrame)
  /\ SF_vars(EncImage /\ (encKey \/ keyDue))

LiveSpec == Spec /\ Fairness

-----------------------------------------------------------------------------
PushTypes ==
  /\ main \in {"idle", "init", "tick", "connect", "detach", "video", "stopping", "join", "audio",
              "task", "trailer"}
  /\ live \in BOOLEAN /\ mic \in BOOLEAN /\ custom \in BOOLEAN
  /\ pausedA \in BOOLEAN /\ pausedV \in BOOLEAN /\ client \in BOOLEAN
  /\ attached \in BOOLEAN /\ ticking \in BOOLEAN
  /\ pusher \in BOOLEAN /\ aac \in BOOLEAN /\ h264 \in BOOLEAN

WriterTypes ==
  /\ needKey \in BOOLEAN /\ tried \in BOOLEAN /\ writer \in BOOLEAN /\ streams \in BOOLEAN
  /\ wstate \in {"Init", "Connecting", "Connected", "Failed"}
  /\ retry \in {"none", "wait", "due"}

ThreadTypes ==
  /\ enc \in {"off", "check", "encode", "callback", "gate", "write", "send", "messages"}
  /\ running \in BOOLEAN /\ frame \in BOOLEAN /\ encKey \in BOOLEAN /\ keyDue \in BOOLEAN
  /\ key \in BOOLEAN /\ cap \in BOOLEAN
  /\ aud \in [AudioThreads -> {"idle", "encode", "callback", "write", "send"}]

HistTypes ==
  /\ status \in {"None", "Connecting", "ConnectSuccess", "Reconnecting"}
  /\ sentKey \in BOOLEAN
  /\ early \in [DataThreads -> 0..2]

\* Every variable keeps its type.
TypeOK == PushTypes /\ WriterTypes /\ ThreadTypes /\ HistTypes

\* A data thread inside OnEncodeDataCallback works on ar_pusher_ without a lock that
\* stopPush takes: stopPush must not delete it before both encoders are gone.
UsersHavePusher ==
  /\ enc \in {"callback", "gate", "write", "send"} => pusher
  /\ \A t \in AudioThreads : HoldsAac(t) => pusher

\* Whatever was toggled and however the session ended, a stopped pusher has released
\* everything it acquired: nothing is attached, ticking, encoding or connected.
StoppedIsClean ==
  main = "idle" /\ ~live =>
    /\ ~attached /\ ~ticking /\ ~pusher /\ ~writer /\ ~aac /\ ~h264
    /\ enc = "off" /\ \A t \in AudioThreads : ~HoldsAac(t)

\* The microphone feeds exactly the sessions whose application asked for it.
AttachedWhenWanted == main = "idle" => (attached <=> live /\ mic)

\* b_need_keyframe_ is read before cs_ar_writer_ is taken, so a packet that waited out
\* a reconnection is written although no key frame precedes it or is on its way; but
\* each thread gets at most one such packet onto a connection.
AtMostOneEarlyPacket == \A t \in DataThreads : early[t] < 2

Promise == INSTANCE PushStatus WITH pushing <- live

\* The statuses reported to the observer keep the promise of PushStatus.
StatusPromise == Promise!Spec

\* After a failure the writer is tried again, unless the application stops pushing;
\* whatever the network does, as no thread is inside a write on a failed connection.
FailureIsRetried == live /\ wstate = "Failed" ~> wstate = "Connecting" \/ ~live

\* What the engine thread is doing ends if the calls into the network return: stopPush,
\* startPush, and a tick that waits for a writer.  None of the threads and locks that it
\* waits for waits for it, and no stream of packets keeps it waiting.
EngineReturns == NetworkReturns => (main # "idle" ~> main = "idle")

\* A fresh connection gets its key frame while video is captured and writes return, so
\* audio and video flow.
KeyFrameComes == CameraFairness /\ NetworkReturns =>
  (wstate = "Connected" /\ ~sentKey ~> sentKey \/ wstate # "Connected" \/ pausedV \/ ~live)
=============================================================================
