# Models of the anyRTC live push and play library

The library in `src/ArLiveLite` pushes a camera and a microphone to a live server and plays live
and recorded streams. It is written in C++ on top of WebRTC (threads, audio device, codecs) and
FFmpeg (muxing, demuxing). What makes it hard to get right is not its data but its threads: an
engine thread, a camera thread, encoder threads, audio device threads and read threads share a few
flags and pointers, some of them under locks and some not, while the application starts, pauses
and stops whatever it likes. The modules in this directory model that control and leave out the
media data.

The Android binding in `src/Prj-Android` adds a state machine of its own, for the audio route.
Paths below are relative to `src/ArLiveLite`, those of Java classes to
`src/Prj-Android/liveplayer/src/main/java/io/anyrtc/live/internal`.

## 1. The system

| Component | State | Operations | Talks to |
|---|---|---|---|
| Engine, `ArLive2Engine.cpp`, `RtcTick.cpp` | the engine thread, `map_rtc_tick_`, the audio device and its two client maps | create and release pushers and players, run the ticks, attach and detach clients, retry a device that failed to open | ticks pushers and players, calls them back from the device threads |
| Push session, `ArLive2Pusher.cpp`, `pusher/ARFFPusher.cpp`, `pusher/ArFFWriter.cpp` | `b_live_pushed_`, microphone and pause flags, `b_client_connected_`, the key-frame gate `b_need_keyframe_`, `now_state_`, `n_next_retry_time_` | startPush, stopPush, startMicrophone, stopMicrophone, pause and resume, custom capture, SEI, tick | attaches to the audio device, owns the encoders and the writer, reports the push status |
| Encoders, `codec/AvCodec.cc` | the render queue, `running_`, `need_keyframe_`, the key-frame timer | Create, Destory, Encode, RequestKeyFrame, the loop of the H264 thread | call the pusher back on their own threads |
| Play task, `ArLive2Player.cpp`, `player/ARFFPlayer.cpp` | the read thread, `b_running_`, `b_abort_`, `b_re_play_`, `n_seek_to_`, `b_got_eof_`, `n_reconnect_time_`, `n_last_recv_data_time_`, `b_notify_closed_` | startPlay, stopPlay, seekTo, rePlay, pause and resume, the thread's loop | fills the receive buffer, reports the play status |
| Receive buffer, `player/FFBuffer.cpp` | received and decode-ready lists of both streams, `play_status_`, the playing clock, `b_reset_time_` | RecvAudioData, RecvVideoData, DoTick, DoDecode*, DoClear, BufferIsEmpty, NeedMoreData | filled by the read thread, ticked by the engine thread |
| Decoded data, `PlayBuffer.cpp`, and `ArLive2Player`'s callbacks | queues of decoded audio and video, the clock that video follows, the picture buffer, the background flag | PlayVideoData, PlayAudioData, DoVidRender, DoAudRender, DoClear, SetAppInBackground | filled by the decoders and drained to the screen on the engine thread, drained to the speaker on the device thread |
| SEI messages, `H264SeiPack.cpp` and `lst_sei_msg_` | a queue of messages | sendSeiMessage, insertion before a key frame | the encoder's callback |
| Android audio route, `ArAudioManager.java`, `ArBluetoothManager.java`, `ArDeviceManagerImpl.java` | `audioDevices`, `selectedAudioDevice`, `defaultAudioDevice`, saved settings; `bluetoothState`, the headset proxy, attempts and timer | start, stop, setAudioRoute, setSystemVolumeType, updateAudioDeviceState, startScoAudio, stopScoAudio, bluetoothTimeout | broadcasts and callbacks of Android, all on the main thread |
| Network clients, `ArNetClient.cpp`, `ArNetTcpClient.cpp` | socket and send buffer | connect, send, close | nothing creates one at this commit |

Rendering (`MgrRender.cpp` and the platform renderers), capture sources (`VcmCapturer.cpp`,
`PlatformImpl.cpp`), the AAC wrappers, `url.cpp` and everything vendored (`include/webrtc`,
`rtmp`, `third_lib`, `third_party`, the demo applications) hold no control of their own and are
not modelled. Neither are the bindings: `jni/LiveEngine.cpp` with the classes around it, and
`src/Prj-iOS/ARLiveKit`, convert arguments and forward calls.

What is hard, component by component:

* **Push session.** Flags are tested outside the lock under which they are used; `stopPush`
  deletes an object whose pointer two other threads use without a lock and so depends on its own
  order; a failed write happens on a data thread but is retried and announced by the engine
  thread; audio and video of a fresh connection wait for a key frame which has to be requested,
  encoded and delivered.
* **Audio device.** Callbacks walk a map that the engine thread changes; stopping the device joins
  a thread that may want the map's lock; a device that could not be opened is retried while its
  clients come and go and the engine is released.
* **Play task.** Two threads report statuses; a tick holds packets that neither the clearing nor
  the emptiness test of the buffer can see; the end of a source is partly guessed from a timeout;
  one flag each stands for "seek", "replay", "closed was reported", written by one thread and
  reset by another.
* **Receive buffer.** Its four lists have a lock each and no lock spans two of them, while packets
  travel through local lists from one to the next; the read thread clears it, and asks whether it
  is empty, in between. When the clock is reset before packets come, or their time stamps jump,
  something has to bring clock and packets together again.
* **Decoded data.** The device thread and the engine thread set one clock, two variables without a
  lock; a seek leaves the old position's frames in the queue; going to the background leaves gaps
  in what the decoder gets.
* **Android audio route.** Two objects call each other from every handler; what broadcasts tell
  may be out of date, and the headset service is asked at the same time; an attempt to bring up
  the SCO channel may be answered, time out, or both.

## 2. Modules

| Module | Models | Theorems |
|---|---|---|
| `PushStatus` | what an observer of a push session is promised | |
| `LivePush` | a push session with all its threads; implements `PushStatus` | `LivePushProofs`, `LivePushLiveness` |
| `AudioDevice` | the engine's ownership of the audio device | `AudioDeviceProofs` |
| `LivePlay` | a play task: the read thread, the buffer's tick, the application | `LivePlayProofs`, `LivePlayLiveness` |
| `PacketFlow` | what the receive buffer promises of one stream | |
| `FFBuffer` | the receive buffer, lock by lock; implements `PacketFlow` twice | `FFBufferProofs` |
| `PlayBuffer` | the decoded queues of a player and their clock | `PlayBufferProofs` |
| `AudioRoute` | the choice of an audio device on Android, with Bluetooth | `AudioRouteProofs` |

Every action has a comment naming the function it stands for. A definition whose comment says
"Variant to be rejected" is a plausible mistake in the code, kept next to the definition it would
replace; no specification uses it, and each property is known to fail for one of them.

### LivePush

`main` is where the engine thread stands inside an operation of the application (`startPush` and
`stopPush` are the long ones) or inside a connection attempt. An action is a critical section, or
a stretch of code during which no other thread can observe a difference. Where the code reads a
shared variable outside the lock, there is a step on either side:

* `EncClear`, `EncGate`, `EncWrite`, and `AudGate`, `AudWrite`: the gate `b_need_keyframe_` of
  `ARFFPusher::setVideoData` and `setAudioData` is read before `cs_ar_writer_` is taken;
* `OnFrame`, `EncodeFrame`: `OnFrame` tests three flags before `cs_h264_encoder_`;
* `AudRecorded`, `AudEncode`: `RecordedDataIsAvailable` tests two before `cs_aac_encoder_`. A
  callback with several 10 ms pieces is several such steps.

A call into the network is a stage of its own, since it holds `cs_ar_writer_` until the peer lets
it return: "send" of a data thread (`av_interleaved_write_frame`, begun by `EncWrite` and
`AudWrite` and ended by `EncSent` and `AudSent`, with or without an error), "connect" of the
engine thread (`Connect`, ended by `ConnectDone` and `ConnectFailed`) and "trailer" (the trailer
that `Release` writes, ended by `StopReleased`). The tick takes the same mutex even if no attempt
is due, so a tick that meets a write is a stage too, "tick".

`HoldsWriter`, `HoldsEncoder` and `HoldsAac` say who holds which mutex; an action that takes one
has its negation as a guard. `StopPush` ... `StopReleased` are `stopPush` in the code's order;
`StopDetach` waits for a microphone callback in progress, since that one holds `cs_aud_capture_`
(`AudioDevice` models why). The operations on the microphone need that mutex too; they are
modelled as beginning when they have it.

The abstractions: the render queue is a flag (a frame is waiting or not); the number of retries is
a flag (0 or more); a clock is "none", "wait" or "due"; the codec is free to yield an image or
nothing, and a key frame on its own account. `AutoRetry` is always true since `startTask` sets it,
so `WS_Ended` cannot occur. The build modelled is not Windows (there `DestoryVideoEncoder` frees
the encoder on the engine thread), with the software codec, whose `OnEncodedImage` runs on the
encoder's thread. Exhausted memory is left out, as is an application that calls `stopPush` from
inside a status callback, which would lock `cs_ar_writer_` a second time.

`sentKey`, `early` and `status` are history variables: a key frame was written on this connection,
how many packets each thread wrote ahead of it, and what the observer heard last.

### AudioDevice

The capture side and the playout side are symmetric (`Sides`). The engine thread attaches and
detaches clients; opening the device (`StartDone`, `StartFailed`), a retry from the engine's loop
and stopping it (`StopDone`) are steps of their own since they happen outside the side's lock.
`Samples`, `Lock`, `Call`, `Return` and `Quit` are the device's thread: it starts a callback,
obtains the lock, visits each client, and ends when the device is stopped, which `StopRecording`
waits for (this last part is WebRTC's, modelled from how the engine uses it). One asymmetry is
kept: `AttachAudSpeaker` does not clear `b_aud_ply_exception_`. `ArLive2Engine::release` does no
more than notice pushers and players that are left (`ArLive2Engine.cpp:94`); `DeInitAudDevice` has
the guard that there is none, which the application has to see to (`IArLive2Engine.h:68`).

### LivePlay

`rd` is where the read thread stands in `ARFFPlayer::Run`, `ReadThreadProcess` included; the
engine thread's operations are single steps except for a tick, which takes packets off the
received list in one (`TickTake`) and hands them to the decoders in another (`TickPush`), as it
does under different locks, and for `stopPlay`, which joins the read thread. Both streams' packets
are one level: `Empty`, `Some` or `Full` (`NeedMoreData` is false). `DoClear` and `BufferIsEmpty`
are atomic. Time is abstracted as in `LivePush`; `Silence` is the passing of 5000 ms without a
packet, and the model assumes that a buffer which is full and being played makes room sooner than
that. Repeat counts and the unbuffered mode have no caller in the repository and are left out.

Of the cache parameters `instant` is kept, whether the start threshold is 0: then
`dataCacheTime >= n_cache_to_play_time_` (`player/FFBuffer.cpp:139`) is true of empty lists, and
`TickPlaying` is enabled with them. `TakeOld` is the packet that a tick which does not play may
pass to the decoders because it has waited too long.

The history variables are the status the audio observer heard last (`report`), how often it heard
Stopped, how often `rePlay` was called, whether the source itself ended or was silent, and whether
the position last asked for has been sought.

### FFBuffer and PacketFlow

What `LivePlay` keeps coarse is modelled here in full: the received and decode-ready lists of both
streams, the tick's local lists (`hand`), the clock, `last_aud_dts_time_` and its twin, and the
start threshold. `tk` is where `DoTick` stands and `rd` where the read thread stands in
`ReadThreadProcess`, `BufferIsEmpty` and `DoClear`; a step is what happens under one lock, or a
group of unlocked assignments. Among the latter are the clear's resets of the times and the tick's
of the clock and of `b_reset_time_`; their own interleaving is not split further.

A packet is a number, counted per stream, and a time stamp in durations of a packet. A front
packet becomes "old" (received `n_cacheing_time_` ago) when the model likes. `Capped` holds the
clock at the bound of the time stamps, where everything is due. Pausing is left to `LivePlay`: a
paused tick returns before it does anything. `SetPlaySetting` is called before the buffer is used
and gives the constants; what it makes of them, `CacheToPlayMax`, includes that `setCacheParams`
sets `nCacheTime` to the minimum (`ArLive2Player.cpp:234`), so that the interface's maximum has no
effect.

`PacketFlow` is one queue: packets go in and come out in order, and only during a clearing are any
dropped. `FFBuffer` maps decode list, local list and received list, one after the other, to it.
`got`, `fresh`, `held` and `closing` are history variables: the last packet decoded, the first one
that a clearing does not concern, what a tick held when the read thread looked, and that the
clearing is that of a played-out source.

### PlayBuffer

`eng` is where the engine thread stands in `DoVidRender` and `dev` where the device thread stands
in `DoAudRender`. `n_last_render_video_time_` (as `since`, the time since then) and
`n_last_render_video_pts_` (`base`) are shared without a lock, so each of their reads and writes
is a step: `RenderTime`, `RenderPts` and the two halves of `AudClock` write, `RenderLook`,
`RenderClock` and `RenderTake` read. Reading the time first covers the other order of the two
reads, whose results are those of a read between the device's two writes. Everything else of the
engine thread is one step per packet: `DecodeAudio` and `DecodeVideo` stand for the loops of
`RunOnce`, with `PlayAudioData` and the key frame gate of `DoDecodeVideo` in full.

A packet is its presentation time, counted from 1 because the code takes 0 for "no clock" (a
source that starts at 0 has no clock until its second audio packet). The frames' common picture
buffer is `picture`. The source yields audio without gaps and video with any, at or after the last
position sought, beginning with a key frame.

What the read thread does to the receive buffer shows here in what the decoders get next. A seek
clears it (`ClearBuffer`), but the packets that a tick holds in its local lists at that moment are
handed on afterwards, as `FFBuffer` shows in detail; `aleft` and `vleft` say from which packet on
there are such leftovers, which come before those of the new position. `SeekFailed` is a seek
whose `av_seek_frame` fails, a result the code ignores (`player/ARFFPlayer.cpp:291`), or is not
called because the source is at its end: the buffer is cleared all the same, and the source goes
on where it was. Neither closes the decoder's gate.

`limit` is a history variable: how far the presentation has come, given the audio taken so far,
the first frame where video came first, and the time since. `intact` is whether the decoder has
what the next packet depends on, `cut` whether a seek is to blame if not, and `garbled` whether it
was given a packet without those it depends on and no seek was to blame.

`LivePlay` and `FFBuffer` see all of this as the actions `Decode` and `DoDecode` under strong
fairness; `RoomForVideo` is what justifies that.

### AudioRoute

A step is a handler on Android's main thread, with the call of `updateAudioDeviceState` that ends
nearly all of them as part of the action: `UpdateAudioDeviceState` takes what the handler has
changed before. The world outside, headsets and their SCO channel, changes at any time, and `mail`
holds the broadcasts not yet delivered; the headset service, by contrast, answers
`getConnectedDevices` with the present (`linked`). What this world may do is modelled from how the
library uses it: its broadcasts arrive in the order in which things happened, the channel comes up
only while it is requested, and may be lost for other reasons.

The constructor is part of `Init` and `Start`: it takes the default device from the application's
preference, loudspeaker or earpiece, and unlike `setDefaultAudioDevice` it does not ask whether
there is an earpiece; `earpiece`, chosen in `Init`, is whether there is. `setAudioDeviceInternal`
asserts that the device it switches to is available. If it is not, `thrown` becomes true and the
library does nothing more: nobody catches the error, which ends the process (`Over`).

`userSelectedAudioDevice` stays NONE and the proximity sensor off because nothing calls
`selectAudioDevice` or starts the sensor. `usable` is whether `ArBluetoothManager.start` gets to
its end. `StopThrows` is `stop` without that: it unregisters a receiver that was never registered,
which throws, and nothing after it is executed.

## 3. Runs

| Run | Configuration | Distinct states | Shows |
|---|---|---|---|
| `live_push` | known and unknown urls, all switches | 2.2 million | the safety properties and the refinement of `PushStatus` |
| `live_push_live` | rtmp, microphone | 112 thousand | the liveness properties |
| `audio_device` | two clients, both sides | 1 thousand | safety and liveness |
| `live_play` | recordings and live sources, pause, seek, replay, a start threshold or none, closings counted up to 2 | 5.9 million | the safety properties |
| `live_play_live` | a recording with seeks and replays | 108 thousand | the liveness properties |
| `live_play_eof` | a recording with pauses | up to the counterexample | `EofIsReal` fails |
| `live_play_stop` | a recording | up to the counterexample | `StoppedIsLast` fails |
| `live_play_seek` | a recording with seeks | up to the counterexample | `SeekTakesEffect` fails |
| `ff_buffer` | 2 packets of audio and video, a jump of the time stamps, one seek or reopening | 234 thousand | safety, the refinement of `PacketFlow` and liveness |
| `play_buffer` | queues of 4 and 2, times up to 2, a seek per session that may fail or leave packets, background | 664 thousand | the safety properties and `RoomForVideo` |
| `play_buffer_picture` | no seek, no pause | up to the counterexample | `OwnPicture` fails |
| `audio_route` | telephones and tablets, either default, up to 3 broadcasts outstanding, Bluetooth usable or not | 25 thousand | safety and liveness |

The models have few bounds because their state is finite by abstraction. `early` is capped at 2,
where its property already fails. `MaxCloses` caps two history counters; 2 is where
`OneStopPerPlay` can first fail, and its theorem holds for every value. Two clients of a side of
the audio device are the least with a client that is neither first nor last; a third adds no new
case because the code looks at whether the map is empty and whether the client is in it, and the
theorems hold for any set. A queue limit of 4 for audio is the least at which a frame can be put
between two others of the video queue, whose limit is half of that; with times up to 2 a frame of
an earlier position can still follow or precede one of a later, and the audio queue be cut. Larger
times (which multiply the states) are left to the theorems, which prove every safety property of
this run for all bounds. The run does not pause: a pause of the video acts on `RenderTake` as the
background does, and one of both streams, in the mode for recordings, only keeps the device from
taking audio (`AudPop`), which nothing obliges it to do. The theorems hold with all switches and
both modes.

`ff_buffer` has few packets because it has many steps per packet: two are the least with an order,
and the least for a stream to run dry while the other does not; one clearing is the least that can
meet a tick in progress, and reopening or seeking after it is within its bound. A jump of 2
durations is the least that resets the clock. Its safety properties are proved for any bounds, and
the inductive invariant was also checked with 3 packets and times up to 5. For the audio route
three outstanding broadcasts are enough for the loss of a headset in use, which sends two, and its
return. The liveness runs switch off settings whose changes only add
steps that may never be taken; what they leave out is said in section 5.

### Properties

Push session:

* `UsersHavePusher`: a thread inside `OnEncodeDataCallback` never works on a deleted `ARFFPusher`.
* `StoppedIsClean`: after `stopPush` nothing is attached, ticking, encoding or connected.
* `AttachedWhenWanted`: the microphone is attached exactly if the session runs and wants it.
* `AtMostOneEarlyPacket`: the unlocked gate lets at most one packet per thread onto a new
  connection ahead of its key frame. That it lets one is what the code does; TLC shows it when the
  bound is lowered.
* `StatusPromise`: Connecting first and once, Reconnecting for every later attempt, ConnectSuccess
  only after one of them, nothing outside a session.
* `FailureIsRetried`: a failed connection is tried again, or the session is stopped.
* `EngineReturns`: if calls into the network return, whatever the engine thread is doing ends:
  `stopPush` with its two joins and its mutexes, `startPush`, and a tick that waits for the
  writer.
* `KeyFrameComes`: a new connection gets its key frame, under the premises named below.

Audio device: `OpenIffWanted` (a side is open or retried exactly while it has a client, and never
both), `CallsOnlyAttached`, `NoUseAfterDeInit`, `DetachReturns`, `OpensAtLast`. Since the
application releases its clients first, `NoUseAfterDeInit` is mostly a consequence of
`OpenIffWanted`; it says nothing of an engine that is released with clients.

Play task: `LoadingAfterPlaying` (with a start threshold above 0; with one of 0 it is false, see
the disagreements below), `OneStopPerPlay`, `StoppedIsEmpty` (a stopped player holds no packet
wherever the tick and the read thread stood), `StopReturns`, `EndIsClosed`, `NeverSilentlyClosed`.

Receive buffer:

* `InOrder`: for each stream, the four lists and the passage of packets between them behave as the
  one queue of `PacketFlow`, whatever the read thread clears in between.
* `StaleOnlyHeld`: after a clearing, no packet from before it is left anywhere, except those a
  tick held in its local lists when the decode list was emptied. That exception is real: they are
  decoded after the seek.
* `EndLosesOnlyHeld`: a source that is closed because `BufferIsEmpty` said so loses at most what a
  tick held while it looked.
* `FullBufferPlays`: once the reader stops because the buffer is full, the buffer plays.
* `Drains`: what was received gets to the decoders or is cleared, also a rest too small to start
  playing, packets beyond a jump of the time stamps, and packets that came after the clock was
  reset to 0.

Decoded data:

* `Bounded`: the audio queue stays below its limit, the video queue at most one above its own.
  (For audio this is by cutting: `NeedMoreAudioPlyData` is always true, so audio never holds up
  the decoder.)
* `VideoSorted`: the video queue is in order whatever was sought.
* `DecodesFromKey`: however often the application goes to the background and comes back, the
  decoder gets no packet without those it depends on. The exception is real: a seek that fails, or
  whose clearing a tick held packets over, cuts packets off without closing the gate, and until
  the next key frame the decoder works without them.
* `AheadOnlyIfTorn`: of all mixtures of old and new that the unlocked clock can yield, only one
  shows a frame ahead of its time: both of the device's writes falling between the engine's two
  reads. Time is measured by how far the presentation has come, which a seek back does not undo.
* `RoomForVideo`: a full video queue gets room again.

Android audio route:

* `ScoMatchesState`: the SCO channel is requested exactly in the two SCO states, and a timer runs
  exactly in `SCO_CONNECTING`.
* `RouteIsReal`: the assertion of `setAudioDeviceInternal` (`ArAudioManager.java:338`) fails in
  one case alone, that the preference made the earpiece the default of a device without one and no
  wired headset is plugged in; otherwise what is selected is available, and the loudspeaker is on
  exactly when it is the selection.
* `AgreesWhenSettled`: with every broadcast delivered, the library agrees with the phone about
  headsets, and with a headset it is in SCO, on the way to it, or out of attempts.
* `StoppedRestores`: a stopped library has given back channel and timer, and settings and audio
  focus if Bluetooth was usable; if it was not, it has not.
* `AttemptEnds`: an attempt ends, whoever calls `updateAudioDeviceState` in between.

Every property of a passing run is about an entry of the list of hazards, type invariants
excepted.

### Fairness

*LivePush.* The engine thread carries out what it started and ticks; a thread that holds no lock
others hold goes on (weak fairness); a thread waiting for a lock that is released again and again
obtains it (strong fairness: `TickNothing`, `BeginConnect`, `StopDetach` and `DeinitAudio` of the
engine thread, `EncWrite`, `AudEncode` and `AudWrite`); timers run out. Nothing obliges the
application, the server or the network: no action that ends a call into the network is fair.
`ArFFWriter` sets neither an interrupt callback nor `rw_timeout`, so a peer that stops reading may
keep the thread that writes, which holds `cs_ar_writer_`; then the engine thread is kept by its
next tick, or `stopPush` by the join of `codec/AvCodec.cc:302`, and without a premise
`EngineReturns` is false. Its premise is `NetworkReturns`: every call into the network returns
some time, with a result or an error. `FailureIsRetried` needs no premise, since nobody is inside
a write on a connection that has failed. `KeyFrameComes` has `NetworkReturns` too, and the further
premise `CameraFairness`: frames keep coming while video is not paused, and the codec does not
swallow for ever the frames of which a key frame is asked. Without the latter the property fails,
since a request is used up even by a frame the codec yields nothing for (`AvCodec.cc:467`), and
only the timer asks again.

*AudioDevice.* The engine's loop turns, device calls return, a callback that began ends. The retry
is strongly fair because attach and detach operations may keep interrupting the engine thread.
`OpensAtLast` has the premise that one of the attempts succeeds.

*LivePlay.* The engine ticks, the clock reaches the front packet, the decoders take what
`PlayBuffer` makes room for (a pause does not stop its clock), the read thread runs, and an
attempt to open returns (the interrupt callback of FFmpeg bounds it). A read from a silent source
need not return, as the code sets no timeout for it, unless the task is aborted. Only
`SeekTakesEffect` assumes `SourceFairness`, that the source goes on sending or fails.

*FFBuffer.* The engine ticks to the end of a tick, and again (weak fairness); time passes between
ticks, a front packet that stays gets old, and the decoders go on as `PlayBuffer` makes room,
although a tick or a clearing may interrupt any of these again and again (strong fairness).
Nothing obliges the source or the read thread.

*AudioRoute.* Only the timer: a runnable posted to the main thread runs. Android owes no
broadcast.

*PlayBuffer.* The engine thread ticks, also while it decodes much (`RenderBegin` is strongly
fair), a callback of the device ends, and time passes. Whether there is audio at all, and whether
anything is paused, is left open.

### Findings

1. `EofIsReal` (`player/ARFFPlayer.cpp:301`): a recording paused for more than five seconds after
   its buffer has filled is taken to have ended; what follows the buffered part is lost. The
   interface promises that pausing a recording loses nothing (`include/IArLivePlayer.hpp:75`).
2. `StoppedIsLast` (`player/FFBuffer.cpp:69`): `play_status_ == PS_Init;` is a comparison where an
   assignment is meant, so a closed source is still "playing", and the ticks report Loading after
   Stopped.
3. `SeekTakesEffect` (`player/ARFFPlayer.cpp:289`): a seek asked for between the read and the
   reset of `n_seek_to_` is lost although `seekTo` returned success.
4. `OwnPicture` (`ArLive2Player.cpp:530`): all queued frames refer to the one buffer
   `i420_render_frame_`, so a frame is shown with the picture of the frame decoded last, early by
   up to the whole queue, and the interface's "every decoded frame"
   (`include/IArLivePlayer.hpp:211`) are not seen.

Disagreements that were met but have no run of their own; each is an entry of the list of hazards:

* `startPush` returns `ArLIVE_OK` for every url, but a scheme other than rtmp, rtp and rtsp is
  never connected (`pusher/ARFFPusher.cpp:47`), against `include/IArLivePusher.hpp:218`.
* The maximum given to `setCacheParams` has no effect (`ArLive2Player.cpp:234`), against
  `include/IArLivePlayer.hpp:177`.
* `setCacheParams(0.5, ...)` is accepted and cut to a threshold of 0 (`ArLive2Player.cpp:232`),
  with which an empty buffer begins to play and the next tick reports Loading, before Playing and
  before the source is open; against `include/ArLiveDef.hpp:754`, by which the first loading is
  not reported.
* A preference for the earpiece on a device without one makes the assertion of
  `ArAudioManager.java:338` fail in `start`, because the constructor (`ArAudioManager.java:175`)
  does not ask `hasEarpiece` as `setDefaultAudioDevice` does.
* An SCO channel lost in `SCO_CONNECTED` goes unnoticed (`ArBluetoothManager.java:186`), against
  the comment at `ArAudioManager.java:558`.
* `stop` without usable Bluetooth throws and restores nothing (`ArBluetoothManager.java:280`),
  against the comment at `ArAudioManager.java:316`.

## 4. Proofs

The theorems are checked by TLAPS for every value of the constants. Each component has one
inductive invariant, the type invariant together with what the listed properties need; its
conjuncts were checked with TLC first. Every invariant, action property and refinement that a
passing run checks is stated by a theorem, and so are its liveness properties but for two.

### Safety

* `LivePushProofs`. The invariant relates the engine thread's place in `stopPush` to what exists:
  from each stage on certain things are gone (the microphone is detached, the encoder thread is
  off, no audio thread holds the AAC lock), and while a session is open and idle everything is
  there. `UsersHavePusher` alone is not inductive: it needs that the encoder thread runs only
  while `h264_encoder_` exists, and that the AAC encoder is created after and deleted before the
  pusher. `AtMostOneEarlyPacket` needs that a thread which has written early no longer stands
  behind the gate unless a key frame has been sent or is on its way. `Implements` shows that every
  step of `LivePush` is a step of `PushStatus` or leaves its variables alone; it uses the relation
  between `tried` and `status`.
* `AudioDeviceProofs`. The invariant says what `op` implies: while the engine thread is opening a
  side, that side is closed and has a client; while it stops one, the side is open and has none.
  The theorems hold for any set of clients.
* `LivePlayProofs`. `StoppedIsEmpty` needs that a task which is being stopped has no tick in
  progress and that the read thread, once off, has closed its source. `OneStopPerPlay` needs the
  invariant that a report of Stopped without a later `rePlay` leaves the source closed, `notified`
  set and no reconnection scheduled.
* `FFBufferProofs`. The invariant has five parts: the types; `Hands` (what the tick holds depends
  on where it stands); `Order` (the concatenation of a stream's lists is ascending and within what
  was received); `Stale` (how far the clearing has come says which lists may hold packets from
  before it, and `held` names the exception); `Ends` (what the read thread has found empty, which
  stays so because it alone fills it). `ListsAreQueues` goes through the actions once per stream:
  moving packets between lists leaves the concatenation as it is, receiving appends to it,
  decoding takes its head, and emptying a list removes a contiguous part, which is a `Drop`
  because the rest is still ascending.
* `AudioRouteProofs`. Lemmas state what `UpdateAudioDeviceState` makes of any arguments that are
  consistent with each other; each handler only has to establish that consistency.
  `StoppedRestores` needs `Idle`, that a stopped library is uninitialized, and that `saved` is
  `before` while it runs; `AgreesWhenSettled` needs what outstanding broadcasts still have to say:
  where the state disagrees with the headset, one that corrects it is on its way (`Headset`), and
  the last one about the plug agrees with the plug (`Plugs`). `RouteReal` rests on what
  the choice can be: a headset that is there, or the default, which is available unless a wired
  headset, then preferred, hides it or the phone lacks an earpiece.
* `PlayBufferProofs`. Order and length of the queues rest on lemmas about what inserting and
  dropping do to any queue; `Insert` and `DropUpTo` count the packets before a place, and
  `PlaceOf` relates that count to the place. `AheadOnlyIfTorn` needs that not only the clock but
  every half-written one (`Behind`: the packet the device holds, the frame the engine is setting
  the clock to, the time it has read) is within what the presentation has reached.
  `DecodesFromKey` needs that the open gate implies `intact` or `cut` for whatever comes next.

### Liveness

The theorems have the form `Spec /\ GuardFairness => Property`. The provers' temporal logic
handles `~>`, `[]<>` and `<<A>>_vars`, but `ENABLED` means nothing to them and with it
`WF_vars(A)` and `SF_vars(A)`. `GuardFairness` therefore states the fairness of `LiveSpec` with
the guard of each action written out: `Weak(guard, A)` is `[]<>~guard \/ []<><<A>>_vars` and
`Strong(guard, A)` is `<>[]~guard \/ []<><<A>>_vars`. The guards are the conjuncts of the action
without primes, so that in reachable states they are what `ENABLED <<A>>_vars` is. That is the one
link the provers do not check; TLC evaluated it, as an invariant, in every reachable state of the
runs' instances of `LivePush`, `LivePlay`, `AudioDevice`, `AudioRoute` and `FFBuffer`. Only the
fairness that a theorem needs is stated, so `GuardFairness` assumes no more than `LiveSpec` does.

Each proof is a chain of leads-to steps. A step has three facts about single transitions: one that
stays in its stage or passes to the next, the fair action that leaves the stage, and the guard
that the stage implies.

* `LivePushLiveness`. `RetriesInTheEnd` needs `Attempts`: the writer's state says whether an
  attempt is under way, over or scheduled. That alone gives `NeverStranded` (theorem
  `AlwaysToCome`), that a session between two operations is connected or has an attempt to come,
  unless its url was of an unknown scheme. `EngineGetsThrough` follows `stopPush` from join to
  join, and a tick or a start to its end. The AAC lock is the hard stage, since a thread that held
  it may be replaced by another, and needs `OneHolder` and that no thread enters once the encoder
  is being torn down; a thread inside a write is released by `NetworkReturns`.
  `KeyFrameInTheEnd` follows the request from the gate to the encoder, its image and the writer,
  under `CameraFairness`, whose guards are written out as well (hypothesis `CameraFairness =>
  GuardCamera`).
* `AudioDeviceProofs`. `StopsEnd` runs the device's thread down through the lock it may have to
  wait for; a callback that began before the stop finds no client to visit. `OpensInTheEnd` first
  shows that the engine thread is between two operations again and again, so that the strongly
  fair retry is taken; `DeviceRecovers` too has its guard written out, as the hypothesis
  `DeviceRecovers => \A s : GuardRecovers(s)`.
* `LivePlayLiveness`. `Alive` says that the thread runs as long as its task and has something
  scheduled unless it has reported the end, `Ended` that nothing more is read from an ended
  source. `StopsInTheEnd` goes round the read thread's loop once; every stage of it leads to the
  next one, also that of a read from a silent source, which the abort ends. `OpensAgain` has the
  timer or the replay as its way out. `EndsClosed` is the longest chain: the received list goes
  down from `Full` to `Some` to `Empty`, as ticks take what is due; then the tick hands over what
  it took; then the decoders take that; then `BufferIsEmpty` holds when the read thread looks, and
  it closes the source. All three hold with every switch, also pauses, which `live_play_live`
  leaves out.
* `AudioRouteProofs`. `AttemptsEnd`: whatever calls `updateAudioDeviceState` in between, the count
  of attempts goes up with each new one unless a headset is announced anew, and each is ended by
  its timer if by nothing else.
* `FFBufferProofs`. `FullPlays`: a full list has two packets. A tick that resets the clock passes
  at most one of them to the decoder, so one is left afterwards; from then on ticks go round until
  one finds that packet old, if none has started playing before, and what it has then seen is
  enough. Its assumption is that playing does not wait for more than the reader collects,
  `CacheToPlayMax <= CachingTime`. The code sees to that by default (5 s and 10 s) and for every
  setting but a minimum between 10 s and 60 s (`player/FFBuffer.cpp:360`); without it the property
  is false.

### What is only model-checked

* `RoomForVideo` and `Drains` wait for a clock to reach a time stamp and for a list to become
  empty, one unit or packet at a time and from any number, so their proofs need an induction whose
  hypothesis is a temporal formula. The provers have none: the induction theorems of the library
  take an operator as a parameter. The chains above have a fixed number of stages; `EndsClosed`
  escapes because `LivePlay` counts packets as `Empty`, `Some` and `Full`.
* That the written-out guards are what enables the actions (see above).
* The violations of section 3, each on the instance of its run.

## 5. What is not modelled, and the plan

The liveness of a push session is checked with the microphone alone: custom audio frames are
delivered by a thread that takes the same locks, and pausing only removes audio and video frames.
That of a play task is checked without pausing: a paused recording fills up and is then taken to
have ended (finding 1), so `EndIsClosed` excuses a pause anyway. The theorems hold with all of
these switched on.

`FFBuffer` takes time stamps as scaled (the code rescales those of video with the time base of
audio, `player/ARFFPlayer.cpp:352`) and the start threshold as within the reader's limit. For
thresholds between 10 s and 60 s `FullBufferPlays` does not hold: with them a full buffer is not
played, and its packets go to the decoders one by one as each gets old.

What remains, in this order:

1. The composition of `FFBuffer` with `LivePlay` and `PlayBuffer`: what a pause and a seek leave
   behind in all of them, and the refinement of an abstract statement of the play status.
2. `Engine` and `RtcTick`: release of pushers and players with ticks in progress, composed with
   `AudioDevice`. The loop over the registry tolerates an object that is unregistered from outside
   (its mark is seen in the next round) but not an `OnTick` that unregisters its own; no tick of
   the library does.
3. `SeiQueue`: messages waiting for key frames, across sessions (`lst_sei_msg_` is shared without
   a lock).
4. The setters of quality, volume and speed, snapshots and statistics of pushers and players.

Not modelled because nothing uses them: the network clients, `V_H264Decoder`,
`PlayBuffer::DoRender`, and on Android the user's own choice of a device and the proximity sensor.
Not modelled because they are input and output or conversions without state: rendering, capture,
the codecs' data, urls, the bindings of Android and iOS, the demo applications. Most files of the
repository by number are headers of WebRTC and FFmpeg, which the library only includes.
