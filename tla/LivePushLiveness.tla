-------------------------- MODULE LivePushLiveness --------------------------
(***************************************************************************)
(* What LivePush does in the end, for every set of url kinds and toggles:  *)
(* what the engine thread does ends, a failed connection is tried again,   *)
(* and a fresh one gets its key frame.  Each is a chain of leads-to steps, *)
(* in which one thread at a time takes the step that the others wait for.  *)
(* The first and the last suppose that calls into the network return       *)
(* (NetworkReturns): while one does not, cs_ar_writer_ is not released.    *)
(*                                                                         *)
(* tlapm has no rule for ENABLED, so the fairness of LiveSpec is restated  *)
(* with each action's guard written out: an action whose guard holds from  *)
(* some point on (Weak), or again and again (Strong), is taken again and   *)
(* again.                                                                  *)
(***************************************************************************)
EXTENDS LivePushProofs

Weak(guard, A) == []<>~guard \/ []<><<A>>_vars
Strong(guard, A) == <>[]~guard \/ []<><<A>>_vars

\* cs_aac_encoder_ is free.
NoHolder == \A t \in AudioThreads : ~HoldsAac(t)

AudioGuard(t) == (aud[t] = "encode" /\ NoHolder) \/ (aud[t] = "write" /\ ~HoldsWriter)

AudioFair(t) ==
  /\ Strong(AudioGuard(t), AudEncode(t) \/ AudWrite(t))
  /\ Weak(aud[t] = "callback", AudGate(t))

EncoderFair ==
  /\ Weak(enc = "check", EncCheck)
  /\ Weak(enc = "encode", EncNothing \/ EncImage)
  /\ Weak(enc = "callback", EncClear)
  /\ Weak(enc = "gate", EncGate)
  /\ Strong(enc = "write" /\ ~HoldsWriter, EncWrite)
  /\ Weak(enc = "messages" /\ main # "video", EncMessages)
  /\ Weak(running /\ ~keyDue, KeyFrameTimer)

TickGuard ==
  /\ ~HoldsWriter
  /\ \/ main = "tick" /\ retry # "due"
     \/ main \in {"idle", "tick"} /\ ticking /\ pusher /\ writer /\ retry = "due"
DetachGuard == main = "detach" /\ aud["dev"] = "idle"
DeinitGuard == main = "audio" /\ NoHolder
EngineLocks == TickNothing \/ BeginConnect \/ StopDetach \/ DeinitAudio

EngineFair ==
  /\ Strong(TickGuard \/ DetachGuard \/ DeinitGuard, EngineLocks)
  /\ Weak(main = "init" /\ NoHolder, InitCodecs)
  /\ Weak(main = "video" /\ enc = "messages", FreeVideoEncoder)
  /\ Weak(main = "stopping", StopEncoder)
  /\ Weak(main = "join" /\ enc = "off", JoinEncoder)
  /\ Weak(main = "task" /\ ~HoldsWriter, StopTask)

GuardFairness ==
  EngineFair /\ Weak(retry = "wait", RetryTimer) /\ EncoderFair /\ \A t \in AudioThreads : AudioFair(t)

\* What CameraFairness says, with the guards written out.
GuardCamera ==
  /\ Strong(~cap /\ live /\ ~pausedV /\ client, OnFrame)
  /\ Weak(cap /\ ~HoldsEncoder, EncodeFrame)
  /\ Strong(enc = "encode" /\ frame /\ (encKey \/ keyDue), EncImage /\ (encKey \/ keyDue))

-----------------------------------------------------------------------------
\* An attempt to connect is under way, has succeeded, or is scheduled.
Attempts ==
  /\ wstate = "Connecting" <=> main = "connect"
  /\ main = "init" => wstate = "Init"
  /\ wstate = "Failed" => retry # "none"
  /\ wstate = "Init" /\ live => ~tried
  /\ wstate = "Connected" => client

\* cs_aac_encoder_ has one holder at a time.
OneHolder == ~(HoldsAac("dev") /\ HoldsAac("app"))

\* cs_ar_writer_ has one holder at a time, and who sends does so on a connection.
OneWriter ==
  /\ \A t \in DataThreads : Sends(t) => main \notin {"connect", "trailer"} /\ wstate = "Connected"
  /\ \A t, u \in DataThreads : Sends(t) /\ Sends(u) => t = u

LInv == IInv /\ Attempts /\ OneHolder /\ OneWriter

\* No failure leaves the writer without another attempt to come.
LEMMA AttemptsStep == TypeOK /\ Phase /\ Attempts /\ OneWriter /\ [Next]_vars => Attempts'
  <1> SUFFICES ASSUME TypeOK, Phase, Attempts, OneWriter, [Next]_vars PROVE Attempts'
    OBVIOUS
  <1> USE DEF TypeOK, PushTypes, WriterTypes, Attempts
  <1>1. CASE \E url \in UrlKinds : StartPush(url)
    BY <1>1 DEF StartPush
  <1>2. CASE StopPush
    BY <1>2 DEF StopPush, writerVars
  <1>3. CASE InitCodecs \/ Teardown
    <2> USE DEF InitCodecs, Teardown, StopDetach, FreeVideoEncoder, StopEncoder, JoinEncoder,
           DeinitAudio, StopTask, StopReleased
    <2>1. main \notin {"idle", "tick", "connect"}
      BY <1>3
    <2>2. main' \in {"idle", "video", "stopping", "join", "audio", "task", "trailer"}
      BY <1>3
    <2>3. UNCHANGED <<live, client, tried>>
      BY <1>3 DEF writerVars
    <2>4. UNCHANGED <<wstate, retry>> \/ (~live /\ wstate' = "Init")
      BY <1>3 DEF writerVars, Phase, TearingDown
    <2> QED
      BY <2>1, <2>2, <2>3, <2>4
  <1>4. CASE BeginConnect
    BY <1>4 DEF BeginConnect
  <1>5. CASE ConnectDone
    BY <1>5 DEF ConnectDone
  <1>6. CASE ConnectFailed
    BY <1>6 DEF ConnectFailed
  <1>7. CASE RetryTimer
    BY <1>7 DEF RetryTimer, pushVars
  <1>8. CASE EncSent \/ \E t \in AudioThreads : AudSent(t)
    <2>1. wstate = "Connected"
      BY <1>8 DEF OneWriter, Sends, EncSent, AudSent, DataThreads, AudioThreads
    <2>2. UNCHANGED <<main, live, client, tried>>
      BY <1>8 DEF EncSent, AudSent, Written, WriteFailed, pushVars, writerVars
    <2>3. UNCHANGED <<wstate, retry>> \/ (wstate' = "Failed" /\ retry' = "wait")
      BY <1>8 DEF EncSent, AudSent, Written, WriteFailed, writerVars
    <2> QED
      BY <2>1, <2>2, <2>3
  <1>10. CASE TickWaits \/ TickNothing
    BY <1>10 DEF TickWaits, TickNothing, writerVars
  <1>9. CASE UNCHANGED <<main, live, client, tried, wstate, retry>>
    BY <1>9
  <1> QED
    BY <1>1, <1>2, <1>3, <1>4, <1>5, <1>6, <1>7, <1>8, <1>9, <1>10
    DEF Next, Application, Connection, Encoder, Audio, vars, pushVars, writerVars,
       StartMicrophone, StopMicrophone, EnableCustomAudio, PauseAudio, PauseVideo, OnFrame,
       EncodeFrame, EncCheck, EncNothing, EncImage, EncClear, EncGate, EncWrite, EncMessages,
       KeyFrameTimer, AudRecorded, AudEncode, AudGate, AudWrite

\* The lock of the AAC encoder excludes.
LEMMA HolderStep == TypeOK /\ OneHolder /\ [Next]_vars => OneHolder'
  <1> SUFFICES ASSUME TypeOK, OneHolder, [Next]_vars PROVE OneHolder'
    OBVIOUS
  <1> USE DEF TypeOK, ThreadTypes, OneHolder, HoldsAac, AudioThreads
  <1>1. CASE \E t \in AudioThreads : AudRecorded(t)
    BY <1>1 DEF AudRecorded
  <1>2. CASE \E t \in AudioThreads : AudEncode(t)
    BY <1>2 DEF AudEncode
  <1>3. CASE \E t \in AudioThreads : AudGate(t)
    BY <1>3 DEF AudGate
  <1>4. CASE \E t \in AudioThreads : AudWrite(t) \/ AudSent(t)
    BY <1>4 DEF AudWrite, AudSent
  <1>5. CASE UNCHANGED aud
    BY <1>5
  <1> QED
    BY <1>1, <1>2, <1>3, <1>4, <1>5
    DEF Next, Application, Teardown, Connection, Encoder, Audio, vars, threadVars, StartPush,
       StopPush, InitCodecs, StopDetach, FreeVideoEncoder, StopEncoder, JoinEncoder,
       DeinitAudio, StopTask, StopReleased, StartMicrophone, StopMicrophone, EnableCustomAudio,
       PauseAudio, PauseVideo, TickWaits, TickNothing, BeginConnect, ConnectDone, ConnectFailed,
       RetryTimer, OnFrame, EncodeFrame, EncCheck, EncNothing, EncImage, EncClear, EncGate,
       EncWrite, EncSent, EncMessages, KeyFrameTimer

\* The lock of the writer excludes.
LEMMA WriterStep == TypeOK /\ Phase /\ Gate /\ OneWriter /\ [Next]_vars => OneWriter'
  <1> SUFFICES ASSUME TypeOK, Phase, Gate, OneWriter, [Next]_vars PROVE OneWriter'
    OBVIOUS
  <1> USE DEF TypeOK, ThreadTypes, OneWriter, Sends, DataThreads, AudioThreads
  <1>1. CASE \E url \in UrlKinds : StartPush(url)
    <2>1. enc = "off" /\ \A t \in AudioThreads : aud[t] # "send"
      BY <1>1 DEF StartPush, Phase, TearingDown, HoldsAac
    <2> QED
      BY <1>1, <2>1 DEF StartPush, threadVars
  <1>2. CASE InitCodecs
    BY <1>2 DEF InitCodecs, writerVars
  <1>3. CASE StopReleased
    <2>1. enc = "off" /\ \A t \in AudioThreads : aud[t] # "send"
      BY <1>3 DEF StopReleased, Phase, TearingDown, HoldsAac
    <2> QED
      BY <1>3, <2>1 DEF StopReleased, threadVars
  <1>4. CASE StopTask
    BY <1>4 DEF StopTask, HoldsWriter, threadVars
  <1>5. CASE BeginConnect
    BY <1>5 DEF BeginConnect, HoldsWriter, threadVars
  <1>6. CASE ConnectDone \/ ConnectFailed
    BY <1>6 DEF ConnectDone, ConnectFailed, threadVars
  <1>7. CASE EncWrite
    BY <1>7 DEF EncWrite, HoldsWriter, CanWrite, pushVars, writerVars
  <1>8. CASE EncSent
    BY <1>8 DEF EncSent, pushVars, Written, WriteFailed, writerVars
  <1>9. CASE \E t \in AudioThreads : AudWrite(t)
    BY <1>9 DEF AudWrite, HoldsWriter, CanWrite, pushVars, writerVars
  <1>10. CASE \E t \in AudioThreads : AudSent(t)
    BY <1>10 DEF AudSent, pushVars, Written, WriteFailed, writerVars
  <1>11. CASE \E t \in AudioThreads : AudRecorded(t) \/ AudEncode(t) \/ AudGate(t)
    BY <1>11 DEF AudRecorded, AudEncode, AudGate, pushVars, writerVars
  <1>12. CASE EncCheck \/ EncNothing \/ EncImage \/ EncClear \/ EncGate \/ EncMessages
    BY <1>12 DEF EncCheck, EncNothing, EncImage, EncClear, EncGate, EncMessages, pushVars, writerVars
  <1>13. CASE UNCHANGED <<enc, aud, wstate>> /\ main' \notin {"connect", "trailer"}
    BY <1>13
  <1>14. CASE UNCHANGED <<enc, aud, wstate, main>>
    BY <1>14
  <1> QED
    BY <1>1, <1>2, <1>3, <1>4, <1>5, <1>6, <1>7, <1>8, <1>9, <1>10, <1>11, <1>12, <1>13, <1>14
    DEF Next, Application, Teardown, Connection, Encoder, Audio, vars, pushVars, writerVars,
       threadVars, StopPush, StopDetach, FreeVideoEncoder, StopEncoder, JoinEncoder,
       DeinitAudio, StartMicrophone, StopMicrophone, EnableCustomAudio, PauseAudio, PauseVideo,
       TickWaits, TickNothing, RetryTimer, OnFrame, EncodeFrame, KeyFrameTimer

\* What the liveness proofs rest on holds throughout.
LEMMA LInductive == Spec => []LInv
  <1>1. Init => Attempts /\ OneHolder /\ OneWriter
    BY DEF Init, Attempts, OneHolder, HoldsAac, AudioThreads, OneWriter, Sends, DataThreads
  <1>2. IInv /\ Attempts /\ OneHolder /\ OneWriter /\ [Next]_vars
          => (Attempts /\ OneHolder /\ OneWriter)'
    BY AttemptsStep, HolderStep, WriterStep DEF IInv
  <1> QED
    BY <1>1, <1>2, Inductive, PTL DEF Spec, LInv

\* Between two operations a session is connected, or another attempt is scheduled, or its
\* url was of a scheme that startTask does not know: no path leaves it with nothing to come.
NeverStranded ==
  main = "idle" /\ live => wstate = "Connected" \/ retry # "none" \/ (wstate = "Init" /\ ~tried)

\* The timer that a failure sets is never lost to a race of the threads that detect it.
THEOREM AlwaysToCome == Spec => []NeverStranded
  <1>1. LInv => NeverStranded
    BY DEF LInv, IInv, TypeOK, WriterTypes, Attempts, NeverStranded
  <1> QED
    BY <1>1, LInductive, PTL

-----------------------------------------------------------------------------
\* After a failure the writer is tried again, unless the application stops pushing.  No
\* hypothesis on the network: a thread that is inside a write is on a connection.
THEOREM RetriesInTheEnd == Spec /\ GuardFairness => FailureIsRetried
  <1> DEFINE Lost(r) == live /\ wstate = "Failed" /\ retry = r
             Over == wstate = "Connecting" \/ ~live
  <1>a. LInv /\ live /\ wstate = "Failed" =>
          /\ main \in {"idle", "tick"} /\ ticking /\ pusher /\ writer
          /\ ~HoldsWriter
    BY DEF LInv, IInv, TypeOK, PushTypes, Attempts, Phase, TearingDown, OneWriter, HoldsWriter
  <1>b. LInv /\ live /\ wstate = "Failed" /\ [Next]_vars
          => UNCHANGED <<live, wstate, retry>> \/ RetryTimer \/ BeginConnect \/ StopPush
    <2> SUFFICES ASSUME main \in {"idle", "tick"}, live, wstate = "Failed", OneWriter, [Next]_vars
                 PROVE  UNCHANGED <<live, wstate, retry>> \/ RetryTimer \/ BeginConnect \/ StopPush
      BY <1>a DEF LInv
    <2>1. ~EncSent /\ \A t \in AudioThreads : ~AudSent(t)
      BY DEF EncSent, AudSent, OneWriter, Sends, DataThreads, AudioThreads
    <2> QED
      BY <2>1 DEF Next, Application, Teardown, Connection, Encoder, Audio, vars, pushVars,
       writerVars, threadVars, histVars, StartPush, StartMicrophone, StopMicrophone,
       EnableCustomAudio, PauseAudio, PauseVideo, InitCodecs, StopDetach, FreeVideoEncoder,
       StopEncoder, JoinEncoder, DeinitAudio, StopTask, StopReleased, TickWaits, TickNothing,
       ConnectDone, ConnectFailed, OnFrame, EncodeFrame, EncCheck, EncNothing, EncImage,
       EncClear, EncGate, EncWrite, EncMessages, KeyFrameTimer, AudRecorded, AudEncode, AudGate,
       AudWrite
  <1>1. LInv /\ Lost("wait") /\ [Next]_vars => (Lost("wait") \/ Lost("due") \/ Over)'
    BY <1>b DEF RetryTimer, BeginConnect, StopPush, pushVars
  <1>2. LInv /\ Lost("due") /\ [Next]_vars => (Lost("due") \/ Over)'
    BY <1>b DEF RetryTimer, BeginConnect, StopPush
  <1>3. Lost("wait") /\ <<RetryTimer>>_vars => ~Lost("wait")'
    BY DEF RetryTimer
  <1>4. LInv /\ Lost("due") /\ <<EngineLocks>>_vars => ~Lost("due")'
    BY <1>a DEF EngineLocks, TickNothing, BeginConnect, StopDetach, DeinitAudio
  <1>5. Lost("wait") => retry = "wait"
    OBVIOUS
  <1>6. LInv /\ Lost("due") => TickGuard \/ DetachGuard \/ DeinitGuard
    BY <1>a DEF TickGuard
  <1>7. LInv /\ live /\ wstate = "Failed" => Lost("wait") \/ Lost("due")
    BY DEF LInv, IInv, TypeOK, WriterTypes, Attempts
  <1> HIDE DEF Lost
  <1> QED
    BY <1>1, <1>2, <1>3, <1>4, <1>5, <1>6, <1>7, LInductive, PTL
    DEF Spec, GuardFairness, EngineFair, Weak, Strong, FailureIsRetried
-----------------------------------------------------------------------------
\* Threads move one at a time.
LEMMA OneMoves == LInv /\ [Next]_vars =>
                    \/ UNCHANGED <<enc, aud>>
                    \/ InitCodecs
                    \/ Encoder /\ UNCHANGED <<main, aud>>
                    \/ UNCHANGED <<main, enc>> /\ \E t \in AudioThreads : Audio(t)
  <1> SUFFICES ASSUME [Next]_vars
               PROVE  \/ UNCHANGED <<enc, aud>>
                      \/ InitCodecs
                      \/ Encoder /\ UNCHANGED <<main, aud>>
                      \/ UNCHANGED <<main, enc>> /\ \E t \in AudioThreads : Audio(t)
    OBVIOUS
  <1>1. CASE Encoder
    BY <1>1 DEF Encoder, EncCheck, EncNothing, EncImage, EncClear, EncGate, EncWrite, EncSent,
       EncMessages, pushVars
  <1>2. CASE \E t \in AudioThreads : Audio(t)
    BY <1>2 DEF Audio, AudRecorded, AudEncode, AudGate, AudWrite, AudSent, pushVars
  <1>3. CASE Application \/ Teardown
    BY <1>3 DEF Application, Teardown, StartPush, StopPush, StartMicrophone, StopMicrophone,
       EnableCustomAudio, PauseAudio, PauseVideo, StopDetach, FreeVideoEncoder, StopEncoder,
       JoinEncoder, DeinitAudio, StopTask, StopReleased, threadVars
  <1>4. CASE Connection
    BY <1>4 DEF Connection, TickWaits, TickNothing, BeginConnect, ConnectDone, ConnectFailed, threadVars
  <1>5. CASE RetryTimer \/ OnFrame \/ EncodeFrame \/ KeyFrameTimer \/ UNCHANGED vars
    BY <1>5 DEF RetryTimer, OnFrame, EncodeFrame, KeyFrameTimer, vars, threadVars
  <1> QED
    BY <1>1, <1>2, <1>3, <1>4, <1>5 DEF Next

\* ... and the engine thread when it is not idle goes on with what it does.
LEMMA EngineMoves == LInv /\ main # "idle" /\ [Next]_vars =>
                       UNCHANGED main \/ InitCodecs \/ Teardown \/ Connection
  BY DEF Next, vars, pushVars, Application, StartPush, StopPush, StartMicrophone, StopMicrophone,
     EnableCustomAudio, PauseAudio, PauseVideo, RetryTimer, OnFrame, EncodeFrame, Encoder,
     EncCheck, EncNothing, EncImage, EncClear, EncGate, EncWrite, EncSent, EncMessages,
     KeyFrameTimer, Audio, AudRecorded, AudEncode, AudGate, AudWrite, AudSent

\* A data thread that holds cs_ar_writer_ leaves it free for anyone when it lets it go, ...
LEMMA SenderKeeps ==
  ASSUME NEW t \in DataThreads, LInv, Sends(t), [Next]_vars
  PROVE  (Sends(t) \/ ~HoldsWriter)'
  <1> USE DEF LInv, IInv, TypeOK, ThreadTypes, OneWriter, Sends, DataThreads, AudioThreads
  <1>1. CASE UNCHANGED <<enc, aud>>
    BY <1>1
  <1>2. CASE InitCodecs
    BY <1>2 DEF InitCodecs, Phase
  <1>3. CASE Encoder /\ UNCHANGED <<main, aud>>
    <2>1. CASE t = "enc"
      <3>1. enc' = "messages"
        BY <1>3, <2>1 DEF Encoder, EncCheck, EncNothing, EncImage, EncClear, EncGate, EncWrite,
           EncSent, EncMessages
      <3> QED
        BY <1>3, <2>1, <3>1 DEF HoldsWriter
    <2>2. CASE t \in AudioThreads
      BY <1>3, <2>2
    <2> QED
      BY <2>1, <2>2
  <1>4. ASSUME NEW u \in AudioThreads, UNCHANGED <<main, enc>>, Audio(u)
        PROVE  (Sends(t) \/ ~HoldsWriter)'
    <2>1. t \in AudioThreads /\ u # t => aud'[t] = aud[t]
      BY <1>4 DEF Audio, AudRecorded, AudEncode, AudGate, AudWrite, AudSent
    <2>2. CASE u = t
      <3>1. aud' = [aud EXCEPT ![t] = "idle"]
        BY <1>4, <2>2 DEF Audio, AudRecorded, AudEncode, AudGate, AudWrite, AudSent
      <3> QED
        BY <1>4, <2>2, <3>1 DEF HoldsWriter
    <2> QED
      BY <1>4, <2>1, <2>2
  <1> QED
    BY <1>1, <1>2, <1>3, <1>4, OneMoves

\* ... and so does the engine thread.
LEMMA EngineKeeps ==
  LInv /\ main \in {"connect", "trailer"} /\ [Next]_vars
    => (main \in {"connect", "trailer"} \/ ~HoldsWriter)'
  <1> SUFFICES ASSUME LInv, main \in {"connect", "trailer"}, [Next]_vars, main' # main
               PROVE  ~HoldsWriter'
    OBVIOUS
  <1>1. main' = "idle" /\ UNCHANGED <<enc, aud>>
    BY EngineMoves DEF InitCodecs, Teardown, StopDetach, FreeVideoEncoder, StopEncoder, JoinEncoder,
       DeinitAudio, StopTask, StopReleased, Connection, TickWaits, TickNothing, BeginConnect,
       ConnectDone, ConnectFailed, threadVars
  <1> QED
    BY <1>1 DEF LInv, OneWriter, Sends, HoldsWriter

\* If calls into the network return, cs_ar_writer_ becomes free again and again.
LEMMA WriterReleased == Spec /\ NetworkReturns => []<>~HoldsWriter
  <1> DEFINE Engine == main \in {"connect", "trailer"}
  <1>1. NetworkReturns => []<>(main \notin {"connect", "trailer"})
    BY DEF NetworkReturns
  <1>2. NetworkReturns => WritesReturn("enc") /\ WritesReturn("dev") /\ WritesReturn("app")
    BY DEF NetworkReturns, DataThreads, AudioThreads
  <1>3. /\ LInv /\ Sends("enc") /\ [Next]_vars => (Sends("enc") \/ ~HoldsWriter)'
        /\ LInv /\ Sends("dev") /\ [Next]_vars => (Sends("dev") \/ ~HoldsWriter)'
        /\ LInv /\ Sends("app") /\ [Next]_vars => (Sends("app") \/ ~HoldsWriter)'
    BY SenderKeeps DEF DataThreads, AudioThreads
  <1>4. LInv /\ Engine /\ [Next]_vars => (Engine \/ ~HoldsWriter)'
    BY EngineKeeps
  <1>5. HoldsWriter <=> Engine \/ Sends("enc") \/ Sends("dev") \/ Sends("app")
    BY DEF HoldsWriter, DataThreads, AudioThreads
  <1>6. main \notin {"connect", "trailer"} <=> ~Engine
    OBVIOUS
  <1> HIDE DEF Engine
  <1> QED
    BY <1>1, <1>2, <1>3, <1>4, <1>5, <1>6, LInductive, PTL DEF Spec, WritesReturn

-----------------------------------------------------------------------------
\* An audio thread that holds cs_aac_encoder_ gets cs_ar_writer_ and gives both back.
LEMMA AudioGoesOn ==
  ASSUME NEW t \in AudioThreads
  PROVE  Spec /\ GuardFairness /\ NetworkReturns => (HoldsAac(t) ~> ~HoldsAac(t))
  <1> DEFINE At(x) == aud[t] = x
  <1> USE DEF LInv, IInv, TypeOK, ThreadTypes
  <1>a. LInv /\ [Next]_vars => aud'[t] = aud[t] \/ Audio(t)
    <2> SUFFICES ASSUME LInv, [Next]_vars PROVE aud'[t] = aud[t] \/ Audio(t)
      OBVIOUS
    <2>1. ASSUME NEW u \in AudioThreads, Audio(u), u # t PROVE aud'[t] = aud[t]
      BY <2>1 DEF Audio, AudRecorded, AudEncode, AudGate, AudWrite, AudSent
    <2>2. InitCodecs => aud'[t] = aud[t]
      BY DEF InitCodecs
    <2> QED
      BY OneMoves, <2>1, <2>2
  <1> USE DEF Audio, AudRecorded, AudEncode, AudGate, AudWrite, AudSent
  <1>1. LInv /\ At("callback") /\ [Next]_vars => (At("callback") \/ At("write") \/ At("idle"))'
    BY <1>a
  <1>2. LInv /\ At("write") /\ [Next]_vars => (At("write") \/ At("send") \/ At("idle"))'
    BY <1>a
  <1>3. LInv /\ At("send") /\ [Next]_vars => (At("send") \/ At("idle"))'
    BY <1>a
  <1>4. /\ LInv /\ At("callback") /\ <<AudGate(t)>>_vars => ~At("callback")'
        /\ LInv /\ At("write") /\ <<AudEncode(t) \/ AudWrite(t)>>_vars => ~At("write")'
    OBVIOUS
  <1>5. /\ At("callback") => aud[t] = "callback"
        /\ At("write") /\ ~HoldsWriter => AudioGuard(t)
        /\ At("send") <=> Sends(t)
        /\ At("idle") => ~HoldsAac(t)
        /\ HoldsAac(t) <=> At("callback") \/ At("write") \/ At("send")
    BY DEF AudioGuard, Sends, HoldsAac, AudioThreads
  <1>6. GuardFairness => AudioFair(t)
    BY DEF GuardFairness
  <1>7. NetworkReturns => WritesReturn(t)
    BY DEF NetworkReturns, DataThreads
  <1> HIDE DEF At, LInv, IInv, TypeOK, ThreadTypes, Audio, AudRecorded, AudEncode, AudGate, AudWrite, AudSent
  <1>8. Spec /\ GuardFairness /\ NetworkReturns => (At("callback") ~> At("write") \/ At("idle"))
    BY <1>1, <1>4, <1>5, <1>6, LInductive, PTL DEF Spec, AudioFair, Weak
  <1>9. Spec /\ GuardFairness /\ NetworkReturns => (At("write") ~> At("send") \/ At("idle"))
    BY <1>2, <1>4, <1>5, <1>6, WriterReleased, LInductive, PTL DEF Spec, AudioFair, Strong
  <1>10. Spec /\ NetworkReturns => (At("send") ~> At("idle"))
    BY <1>3, <1>5, <1>7, LInductive, PTL DEF Spec, WritesReturn
  <1> QED
    BY <1>5, <1>8, <1>9, <1>10, LInductive, PTL

\* cs_aac_encoder_ becomes free again and again.
LEMMA AacReleased == Spec /\ GuardFairness /\ NetworkReturns => []<>NoHolder
  <1> DEFINE Lets(t) == HoldsAac(t) ~> ~HoldsAac(t)
  <1>1. Spec /\ GuardFairness /\ NetworkReturns => \A t \in AudioThreads : Lets(t)
    BY AudioGoesOn
  <1>2. Spec /\ GuardFairness /\ NetworkReturns => Lets("dev") /\ Lets("app")
    <2> HIDE DEF Lets
    <2> QED
      BY <1>1 DEF AudioThreads
  <1>3. ASSUME NEW t \in AudioThreads, LInv, HoldsAac(t), [Next]_vars
        PROVE  (HoldsAac(t) \/ NoHolder)'
    <2> USE DEF LInv, IInv, TypeOK, ThreadTypes, OneHolder, HoldsAac, AudioThreads, NoHolder
    <2>1. CASE UNCHANGED aud
      BY <1>3, <2>1
    <2>2. ASSUME NEW u \in AudioThreads, Audio(u) PROVE (HoldsAac(t) \/ NoHolder)'
      BY <1>3, <2>2 DEF Audio, AudRecorded, AudEncode, AudGate, AudWrite, AudSent
    <2> QED
      BY <1>3, <2>1, <2>2, OneMoves DEF InitCodecs
  <1>4. /\ LInv /\ HoldsAac("dev") /\ [Next]_vars => (HoldsAac("dev") \/ NoHolder)'
        /\ LInv /\ HoldsAac("app") /\ [Next]_vars => (HoldsAac("app") \/ NoHolder)'
    BY <1>3 DEF AudioThreads
  <1>5. NoHolder <=> ~HoldsAac("dev") /\ ~HoldsAac("app")
    BY DEF NoHolder, AudioThreads
  <1> QED
    BY <1>2, <1>4, <1>5, LInductive, PTL DEF Spec

\* The encoder thread is between taking a frame and ProcessMessages.
InImage == enc \in {"encode", "callback", "gate", "write", "send"}

\* It gets there: whatever the engine thread waits for, it holds no lock that this needs,
\* and the audio threads let cs_ar_writer_ go.
LEMMA EncoderGoesOn == Spec /\ GuardFairness /\ NetworkReturns => (InImage ~> enc = "messages")
  <1> DEFINE At(x) == enc = x
  <1> USE DEF LInv, IInv, TypeOK, ThreadTypes
  <1>a. LInv /\ enc # "off" /\ [Next]_vars => enc' = enc \/ Encoder
    BY OneMoves DEF InitCodecs, Phase
  <1> USE DEF Encoder, EncCheck, EncNothing, EncImage, EncClear, EncGate, EncWrite, EncSent, EncMessages
  <1>1. LInv /\ At("encode") /\ [Next]_vars => (At("encode") \/ At("callback") \/ At("messages"))'
    BY <1>a
  <1>2. LInv /\ At("callback") /\ [Next]_vars => (At("callback") \/ At("gate"))'
    BY <1>a
  <1>3. LInv /\ At("gate") /\ [Next]_vars => (At("gate") \/ At("write") \/ At("messages"))'
    BY <1>a
  <1>4. LInv /\ At("write") /\ [Next]_vars => (At("write") \/ At("send") \/ At("messages"))'
    BY <1>a
  <1>5. LInv /\ At("send") /\ [Next]_vars => (At("send") \/ At("messages"))'
    BY <1>a
  <1>6. /\ At("encode") /\ <<EncNothing \/ EncImage>>_vars => ~At("encode")'
        /\ At("callback") /\ <<EncClear>>_vars => ~At("callback")'
        /\ At("gate") /\ <<EncGate>>_vars => ~At("gate")'
        /\ At("write") /\ <<EncWrite>>_vars => ~At("write")'
    OBVIOUS
  <1>7. /\ At("encode") => enc = "encode"
        /\ At("callback") => enc = "callback"
        /\ At("gate") => enc = "gate"
        /\ At("write") => enc = "write"
        /\ At("send") <=> Sends("enc")
        /\ At("messages") <=> enc = "messages"
        /\ InImage <=> At("encode") \/ At("callback") \/ At("gate") \/ At("write") \/ At("send")
    BY DEF InImage, Sends
  <1>8. NetworkReturns => WritesReturn("enc")
    BY DEF NetworkReturns, DataThreads
  <1> HIDE DEF At, LInv, IInv, TypeOK, ThreadTypes, Encoder, EncCheck, EncNothing, EncImage, EncClear,
           EncGate, EncWrite, EncSent, EncMessages
  <1>9. Spec /\ NetworkReturns => (At("send") ~> At("messages"))
    BY <1>5, <1>7, <1>8, LInductive, PTL DEF Spec, WritesReturn
  <1>10. Spec /\ GuardFairness /\ NetworkReturns => (At("write") ~> At("send") \/ At("messages"))
    BY <1>4, <1>6, <1>7, WriterReleased, LInductive, PTL DEF Spec, GuardFairness, EncoderFair, Strong
  <1>11. Spec /\ GuardFairness => (At("callback") \/ At("gate") ~> At("write") \/ At("messages"))
    BY <1>2, <1>3, <1>6, <1>7, LInductive, PTL DEF Spec, GuardFairness, EncoderFair, Weak
  <1>12. Spec /\ GuardFairness => (At("encode") ~> At("callback") \/ At("messages"))
    BY <1>1, <1>6, <1>7, LInductive, PTL DEF Spec, GuardFairness, EncoderFair, Weak
  <1> QED
    BY <1>7, <1>9, <1>10, <1>11, <1>12, LInductive, PTL

-----------------------------------------------------------------------------
\* The steps of stopPush, one by one: none but the next one moves the engine thread.
LEMMA StageStep ==
  LInv /\ [Next]_vars =>
    /\ main = "init" => main' \in {"init", "idle"}
    /\ main = "tick" => main' \in {"tick", "idle", "connect"}
    /\ main = "connect" => main' \in {"connect", "idle"}
    /\ main = "detach" => main' \in {"detach", "video"}
    /\ main = "video" => main' \in {"video", "stopping"}
    /\ main = "stopping" => main' \in {"stopping", "join"}
    /\ main = "join" => main' \in {"join", "audio"}
    /\ main = "audio" => main' \in {"audio", "task"}
    /\ main = "task" => main' \in {"task", "trailer"}
    /\ main = "trailer" => main' \in {"trailer", "idle"}
  BY EngineMoves DEF InitCodecs, Teardown, StopDetach, FreeVideoEncoder, StopEncoder, JoinEncoder,
     DeinitAudio, StopTask, StopReleased, Connection, TickWaits, TickNothing, BeginConnect,
     ConnectDone, ConnectFailed

\* stopPush leaves DetachAudCapture: the microphone callback that holds cs_aud_capture_
\* gets cs_aac_encoder_ and cs_ar_writer_ and gives all back, and no other one begins.
LEMMA DetachEnds == Spec /\ GuardFairness /\ NetworkReturns => (main = "detach" ~> main = "video")
  <1> DEFINE D == main = "detach"
             At(x) == aud["dev"] = x
             Holds == HoldsAac("dev")
  <1>9. Spec /\ GuardFairness /\ NetworkReturns => (Holds ~> ~Holds)
    <2> DEFINE Lets(t) == HoldsAac(t) ~> ~HoldsAac(t)
    <2>1. Spec /\ GuardFairness /\ NetworkReturns => \A t \in AudioThreads : Lets(t)
      BY AudioGoesOn
    <2>2. Spec /\ GuardFairness /\ NetworkReturns => Lets("dev")
      <3> HIDE DEF Lets
      <3> QED
        BY <2>1 DEF AudioThreads
    <2> QED
      BY <2>2
  <1> USE DEF LInv, IInv, TypeOK, ThreadTypes, AudioThreads, HoldsAac
  <1>a. LInv /\ D /\ [Next]_vars => aud'["dev"] = aud["dev"] \/ AudEncode("dev") \/ AudGate("dev")
                                      \/ AudWrite("dev") \/ AudSent("dev")
    <2> SUFFICES ASSUME LInv, D, [Next]_vars
                 PROVE  \/ aud'["dev"] = aud["dev"] \/ AudEncode("dev") \/ AudGate("dev")
                        \/ AudWrite("dev") \/ AudSent("dev")
      OBVIOUS
    <2>1. ~live
      BY DEF Phase, TearingDown
    <2>2. Audio("app") => aud'["dev"] = aud["dev"]
      BY DEF Audio, AudRecorded, AudEncode, AudGate, AudWrite, AudSent
    <2>3. ~InitCodecs
      BY DEF InitCodecs
    <2> QED
      BY OneMoves, <2>1, <2>2, <2>3 DEF Audio, AudRecorded
  <1>1. LInv /\ D /\ [Next]_vars => D' \/ (main = "video")'
    BY StageStep
  <1> USE DEF AudEncode, AudGate, AudWrite, AudSent
  <1>2. LInv /\ D /\ At("encode") /\ [Next]_vars => (At("encode") \/ Holds \/ At("idle"))'
    BY <1>a
  <1>3. LInv /\ D /\ Holds /\ [Next]_vars => (Holds \/ At("idle"))'
    BY <1>a
  <1>4. LInv /\ D /\ At("idle") /\ [Next]_vars => At("idle")'
    BY <1>a
  <1>5. /\ LInv /\ At("encode") /\ <<AudEncode("dev") \/ AudWrite("dev")>>_vars => ~At("encode")'
        /\ D /\ <<EngineLocks>>_vars => ~D'
    BY DEF EngineLocks, TickNothing, BeginConnect, StopDetach, DeinitAudio
  <1>6. /\ At("encode") /\ NoHolder => AudioGuard("dev")
        /\ D /\ At("idle") => TickGuard \/ DetachGuard \/ DeinitGuard
    BY DEF AudioGuard, DetachGuard
  <1>7. LInv => At("encode") \/ Holds \/ At("idle")
    OBVIOUS
  <1>8. GuardFairness => AudioFair("dev") /\ EngineFair
    BY DEF GuardFairness
  <1>10. At("idle") \/ At("encode") => ~Holds
    OBVIOUS
  <1> HIDE DEF D, At, Holds, LInv, IInv, TypeOK, ThreadTypes, AudioThreads, HoldsAac, AudEncode, AudGate,
           AudWrite, AudSent
  <1>11. Spec /\ GuardFairness /\ NetworkReturns => (D /\ At("encode") ~> Holds \/ At("idle") \/ ~D)
    BY <1>2, <1>5, <1>6, <1>8, AacReleased, LInductive, PTL DEF Spec, AudioFair, Strong
  <1>12. Spec /\ GuardFairness /\ NetworkReturns => (D /\ Holds ~> (D /\ At("idle")) \/ ~D)
    BY <1>3, <1>9, LInductive, PTL DEF Spec
  <1>13. Spec /\ GuardFairness /\ NetworkReturns => (D /\ At("idle") ~> ~D)
    BY <1>4, <1>5, <1>6, <1>8, LInductive, PTL DEF Spec, EngineFair, Strong
  <1>14. Spec /\ GuardFairness /\ NetworkReturns => (D ~> ~D)
    BY <1>7, <1>11, <1>12, <1>13, LInductive, PTL
  <1>15. D <=> main = "detach"
    BY DEF D
  <1> QED
    BY <1>1, <1>14, <1>15, LInductive, PTL DEF Spec

\* The encoder thread, which runs as long as it has not been told to end, reaches
\* ProcessMessages and there FreeVideoEncoder.
LEMMA VideoEnds == Spec /\ GuardFairness /\ NetworkReturns => (main = "video" ~> main = "stopping")
  <1> USE DEF LInv, IInv, TypeOK, ThreadTypes
  <1>a. LInv /\ main = "video" /\ [Next]_vars => enc' = enc \/ Encoder
    BY OneMoves DEF InitCodecs
  <1>b. LInv /\ main = "video" => running /\ enc # "off"
    BY DEF Phase, TearingDown
  <1>1. LInv /\ main = "video" /\ [Next]_vars => (main = "video")' \/ (main = "stopping")'
    BY StageStep
  <1> USE DEF Encoder, EncCheck, EncNothing, EncImage, EncClear, EncGate, EncWrite, EncSent, EncMessages
  <1>2. LInv /\ main = "video" /\ enc = "check" /\ [Next]_vars => (enc = "check" \/ InImage)'
    BY <1>a, <1>b DEF InImage
  <1>3. LInv /\ main = "video" /\ enc = "messages" /\ [Next]_vars => (enc = "messages")'
    BY <1>a
  <1>4. /\ LInv /\ main = "video" /\ enc = "check" /\ <<EncCheck>>_vars => ~(enc = "check")'
        /\ <<FreeVideoEncoder>>_vars => ~(main = "video")'
    BY <1>b DEF FreeVideoEncoder
  <1>5. LInv /\ main = "video" => enc = "check" \/ enc = "messages" \/ InImage
    BY <1>b DEF InImage
  <1> HIDE DEF LInv, IInv, TypeOK, ThreadTypes, Encoder, EncCheck, EncNothing, EncImage, EncClear,
           EncGate, EncWrite, EncSent, EncMessages
  <1>6. Spec /\ GuardFairness => (main = "video" /\ enc = "check" ~> InImage \/ ~(main = "video"))
    BY <1>2, <1>4, LInductive, PTL DEF Spec, GuardFairness, EncoderFair, Weak
  <1>7. Spec /\ GuardFairness => (main = "video" /\ enc = "messages" ~> ~(main = "video"))
    BY <1>3, <1>4, LInductive, PTL DEF Spec, GuardFairness, EngineFair, Weak
  <1> QED
    BY <1>1, <1>5, <1>6, <1>7, EncoderGoesOn, LInductive, PTL DEF Spec

\* The encoder thread, told to end, comes to the loop's condition and ends: the lock that
\* the engine thread holds, cs_h264_encoder_, is none it takes.
LEMMA JoinEnds == Spec /\ GuardFairness /\ NetworkReturns => (main = "join" ~> main = "audio")
  <1> USE DEF LInv, IInv, TypeOK, ThreadTypes
  <1>a. LInv /\ main = "join" /\ [Next]_vars => enc' = enc \/ Encoder \/ JoinEncoder
    BY OneMoves DEF InitCodecs
  <1>b. LInv /\ main = "join" => ~running
    BY DEF Phase
  <1>1. LInv /\ main = "join" /\ [Next]_vars => (main = "join")' \/ (main = "audio")'
    BY StageStep
  <1> USE DEF Encoder, EncCheck, EncNothing, EncImage, EncClear, EncGate, EncWrite, EncSent, EncMessages,
          JoinEncoder
  <1>2. LInv /\ main = "join" /\ enc = "messages" /\ [Next]_vars => (enc = "messages" \/ enc = "check")'
    BY <1>a
  <1>3. LInv /\ main = "join" /\ enc = "check" /\ [Next]_vars => (enc = "check" \/ enc = "off")'
    BY <1>a, <1>b
  <1>4. LInv /\ main = "join" /\ enc = "off" /\ [Next]_vars => (enc = "off")'
    BY <1>a
  <1>5. /\ enc = "messages" /\ <<EncMessages>>_vars => ~(enc = "messages")'
        /\ enc = "check" /\ <<EncCheck>>_vars => ~(enc = "check")'
        /\ <<JoinEncoder>>_vars => ~(main = "join")'
        /\ main = "join" => main # "video"
    OBVIOUS
  <1>6. LInv => enc = "messages" \/ enc = "check" \/ enc = "off" \/ InImage
    BY DEF InImage
  <1> HIDE DEF LInv, IInv, TypeOK, ThreadTypes, Encoder, EncCheck, EncNothing, EncImage, EncClear,
           EncGate, EncWrite, EncSent, EncMessages, JoinEncoder
  <1>7. Spec /\ GuardFairness => (main = "join" /\ enc = "messages" ~> enc = "check" \/ ~(main = "join"))
    BY <1>2, <1>5, LInductive, PTL DEF Spec, GuardFairness, EncoderFair, Weak
  <1>8. Spec /\ GuardFairness => (main = "join" /\ enc = "check" ~> enc = "off" \/ ~(main = "join"))
    BY <1>3, <1>5, LInductive, PTL DEF Spec, GuardFairness, EncoderFair, Weak
  <1>9. Spec /\ GuardFairness => (main = "join" /\ enc = "off" ~> ~(main = "join"))
    BY <1>4, <1>5, LInductive, PTL DEF Spec, GuardFairness, EngineFair, Weak
  <1> QED
    BY <1>1, <1>6, <1>7, <1>8, <1>9, EncoderGoesOn, LInductive, PTL DEF Spec

\* A tick gets the writer's lock, and ends or connects.
LEMMA TickEnds == Spec /\ GuardFairness /\ NetworkReturns => (main = "tick" ~> main = "idle")
  <1>1. LInv /\ main = "tick" /\ [Next]_vars
          => (main = "tick")' \/ (main = "idle")' \/ (main = "connect")'
    BY StageStep
  <1>2. LInv /\ main = "connect" /\ [Next]_vars => (main = "connect")' \/ (main = "idle")'
    BY StageStep
  <1>3. <<EngineLocks>>_vars => ~(main = "tick")'
    BY DEF EngineLocks, TickNothing, BeginConnect, StopDetach, DeinitAudio
  <1>4. LInv /\ main = "tick" /\ ~HoldsWriter => TickGuard \/ DetachGuard \/ DeinitGuard
    BY DEF LInv, IInv, Phase, TickGuard
  <1>5. NetworkReturns => []<>~(main = "connect")
    <2>1. main \notin {"connect", "trailer"} => ~(main = "connect")
      OBVIOUS
    <2> QED
      BY <2>1, PTL DEF NetworkReturns
  <1>6. Spec /\ GuardFairness /\ NetworkReturns => (main = "tick" ~> main = "idle" \/ main = "connect")
    BY <1>1, <1>3, <1>4, WriterReleased, LInductive, PTL DEF Spec, GuardFairness, EngineFair, Strong
  <1> QED
    BY <1>2, <1>5, <1>6, LInductive, PTL DEF Spec

\* The steps that wait for nobody, for cs_aac_encoder_ alone, or for the network.
LEMMA OtherStagesEnd == Spec /\ GuardFairness /\ NetworkReturns =>
                          /\ main = "init" ~> main = "idle"
                          /\ main = "connect" ~> main = "idle"
                          /\ main = "stopping" ~> main = "join"
                          /\ main = "audio" ~> main = "task"
                          /\ main = "task" ~> main = "trailer"
                          /\ main = "trailer" ~> main = "idle"
  <1>1. /\ LInv /\ main = "init" /\ [Next]_vars => (main = "init")' \/ (main = "idle")'
        /\ LInv /\ main = "connect" /\ [Next]_vars => (main = "connect")' \/ (main = "idle")'
        /\ LInv /\ main = "stopping" /\ [Next]_vars => (main = "stopping")' \/ (main = "join")'
        /\ LInv /\ main = "audio" /\ [Next]_vars => (main = "audio")' \/ (main = "task")'
        /\ LInv /\ main = "task" /\ [Next]_vars => (main = "task")' \/ (main = "trailer")'
        /\ LInv /\ main = "trailer" /\ [Next]_vars => (main = "trailer")' \/ (main = "idle")'
    BY StageStep
  <1>2. /\ <<InitCodecs>>_vars => ~(main = "init")'
        /\ <<StopEncoder>>_vars => ~(main = "stopping")'
        /\ main = "audio" /\ <<EngineLocks>>_vars => ~(main = "audio")'
        /\ <<StopTask>>_vars => ~(main = "task")'
    BY DEF InitCodecs, StopEncoder, EngineLocks, TickNothing, BeginConnect, StopDetach, DeinitAudio,
       StopTask
  <1>3. /\ LInv /\ main = "init" => NoHolder
        /\ LInv /\ main = "task" => ~HoldsWriter
        /\ main = "audio" /\ NoHolder => TickGuard \/ DetachGuard \/ DeinitGuard
    BY DEF LInv, IInv, Phase, TearingDown, NoHolder, HoldsWriter, HoldsAac, Sends, DataThreads, DeinitGuard
  <1>4. NetworkReturns => []<>~(main = "connect") /\ []<>~(main = "trailer")
    <2>1. main \notin {"connect", "trailer"} => ~(main = "connect") /\ ~(main = "trailer")
      OBVIOUS
    <2> QED
      BY <2>1, PTL DEF NetworkReturns
  <1> QED
    BY <1>1, <1>2, <1>3, <1>4, AacReleased, LInductive, PTL
    DEF Spec, GuardFairness, EngineFair, Weak, Strong

\* What the engine thread is doing ends, if the calls into the network return.
THEOREM EngineGetsThrough == Spec /\ GuardFairness => EngineReturns
  <1>1. LInv => \/ main = "idle" \/ main = "init" \/ main = "tick" \/ main = "connect"
                \/ main = "detach" \/ main = "video" \/ main = "stopping" \/ main = "join"
                \/ main = "audio" \/ main = "task" \/ main = "trailer"
    BY DEF LInv, IInv, TypeOK, PushTypes
  <1> QED
    BY <1>1, DetachEnds, VideoEnds, JoinEnds, TickEnds, OtherStagesEnd, LInductive, PTL
    DEF EngineReturns
-----------------------------------------------------------------------------
\* A connection that waits for its key frame while video is captured.
Waiting == wstate = "Connected" /\ ~sentKey /\ ~pausedV /\ live

\* The next frame is to be a key frame.
KeyDue == encKey \/ keyDue

\* A key frame is about to be asked of the codec.
KeyAsked == enc = "encode" /\ frame /\ KeyDue

\* Meanwhile the engine thread only ticks, all threads run, and the connection can be
\* written to.
LEMMA WaitingPhase == LInv /\ Waiting => /\ main \in {"idle", "tick"} /\ client /\ pusher /\ h264
                                         /\ running /\ CanWrite /\ ~HoldsEncoder
  BY DEF LInv, IInv, TypeOK, PushTypes, Phase, TearingDown, Attempts, Gate, Waiting, CanWrite,
     HoldsEncoder

\* ... and the camera, the encoder and its timer take their steps one at a time.
LEMMA WaitingStep ==
  LInv /\ Waiting /\ Waiting' /\ [Next]_vars =>
    \/ UNCHANGED <<enc, frame, cap, encKey, keyDue, key, needKey>>
    \/ OnFrame \/ EncodeFrame \/ Encoder \/ KeyFrameTimer
  <1> SUFFICES ASSUME main \in {"idle", "tick"}, live, wstate' = "Connected", live', [Next]_vars
               PROVE  \/ UNCHANGED <<enc, frame, cap, encKey, keyDue, key, needKey>>
                      \/ OnFrame \/ EncodeFrame \/ Encoder \/ KeyFrameTimer
    BY WaitingPhase DEF Waiting
  <1>1. CASE \E t \in AudioThreads : Audio(t)
    BY <1>1 DEF Audio, AudRecorded, AudEncode, AudGate, AudWrite, AudSent, Written, WriteFailed,
       writerVars
  <1>2. CASE Application
    BY <1>2 DEF Application, StartPush, StopPush, StartMicrophone, StopMicrophone,
       EnableCustomAudio, PauseAudio, PauseVideo, writerVars, threadVars
  <1>3. CASE Connection
    BY <1>3 DEF Connection, TickWaits, TickNothing, BeginConnect, ConnectDone, ConnectFailed,
       writerVars, threadVars
  <1>4. ~InitCodecs /\ ~Teardown
    BY DEF InitCodecs, Teardown, StopDetach, FreeVideoEncoder, StopEncoder, JoinEncoder,
       DeinitAudio, StopTask, StopReleased
  <1>5. RetryTimer \/ UNCHANGED vars => UNCHANGED <<enc, frame, cap, encKey, keyDue, key, needKey>>
    BY DEF RetryTimer, vars, writerVars, threadVars
  <1> QED
    BY <1>1, <1>2, <1>3, <1>4, <1>5 DEF Next

\* The camera keeps handing frames to the encoder.
LEMMA FramesCome == Spec /\ GuardFairness /\ GuardCamera => (<>[]Waiting => []<>frame)
  <1> USE DEF OnFrame, EncodeFrame, Encoder, EncCheck, EncNothing, EncImage, EncClear, EncGate,
          EncWrite, EncSent, EncMessages, KeyFrameTimer
  <1>1. LInv /\ Waiting /\ Waiting' /\ cap /\ [Next]_vars => (cap \/ frame)'
    BY WaitingPhase, WaitingStep
  <1>2. <<OnFrame>>_vars => cap'
    OBVIOUS
  <1>3. LInv /\ Waiting /\ <<EncodeFrame>>_vars => frame'
    BY WaitingPhase
  <1>4. LInv /\ Waiting => ~HoldsEncoder /\ live /\ ~pausedV /\ client
    BY WaitingPhase DEF Waiting
  <1> HIDE DEF OnFrame, EncodeFrame
  <1> QED
    BY <1>1, <1>2, <1>3, <1>4, LInductive, PTL DEF Spec, GuardCamera, Weak, Strong

\* The encoder thread keeps coming back to look for one.
LEMMA EncoderLoops == Spec /\ GuardFairness /\ NetworkReturns => (<>[]Waiting => []<>(enc = "encode"))
  <1> USE DEF OnFrame, EncodeFrame, Encoder, EncCheck, EncNothing, EncImage, EncClear, EncGate,
          EncWrite, EncSent, EncMessages, KeyFrameTimer
  <1>a. LInv /\ Waiting /\ Waiting' /\ [Next]_vars => enc' = enc \/ Encoder
    BY WaitingStep
  <1>1. LInv /\ Waiting /\ Waiting' /\ enc = "check" /\ [Next]_vars
          => (enc = "check" \/ enc = "encode")'
    BY <1>a, WaitingPhase
  <1>2. LInv /\ Waiting /\ Waiting' /\ enc = "messages" /\ [Next]_vars
          => (enc = "messages" \/ enc = "check")'
    BY <1>a
  <1>3. /\ enc = "check" /\ <<EncCheck>>_vars => ~(enc = "check")'
        /\ enc = "messages" /\ <<EncMessages>>_vars => ~(enc = "messages")'
    OBVIOUS
  <1>4. LInv /\ Waiting => main # "video" /\ (enc = "check" \/ enc = "messages" \/ InImage)
    BY WaitingPhase DEF LInv, IInv, TypeOK, ThreadTypes, Phase, InImage
  <1> HIDE DEF EncCheck, EncMessages
  <1>5. Spec /\ GuardFairness => (enc = "check" ~> enc = "encode" \/ ~Waiting)
    BY <1>1, <1>3, LInductive, PTL DEF Spec, GuardFairness, EncoderFair, Weak
  <1>6. Spec /\ GuardFairness => (enc = "messages" ~> enc = "check" \/ ~Waiting)
    BY <1>2, <1>3, <1>4, LInductive, PTL DEF Spec, GuardFairness, EncoderFair, Weak
  <1> QED
    BY <1>4, <1>5, <1>6, EncoderGoesOn, LInductive, PTL

\* With a frame there and a key frame due, as the timer sees to, it asks the codec for one.
LEMMA KeyIsAsked ==
  Spec /\ GuardFairness /\ GuardCamera /\ NetworkReturns => (<>[]Waiting => []<>KeyAsked)
  <1> USE DEF OnFrame, EncodeFrame, Encoder, EncCheck, EncNothing, EncImage, EncClear, EncGate,
          EncWrite, EncSent, EncMessages, KeyFrameTimer, KeyDue, KeyAsked
  <1>1. LInv /\ Waiting /\ Waiting' /\ KeyDue /\ ~KeyAsked /\ [Next]_vars => KeyDue'
    BY WaitingStep
  <1>2. LInv /\ Waiting /\ Waiting' /\ frame /\ KeyDue /\ ~KeyAsked /\ [Next]_vars => frame'
    BY WaitingStep
  <1>3. <<KeyFrameTimer>>_vars => KeyDue'
    OBVIOUS
  <1>4. LInv /\ Waiting /\ ~KeyDue => running /\ ~keyDue
    BY WaitingPhase
  <1>5. enc = "encode" /\ frame /\ KeyDue => KeyAsked
    OBVIOUS
  <1> HIDE DEF KeyDue, KeyAsked, KeyFrameTimer
  <1>6. Spec /\ GuardFairness => (<>[](Waiting /\ ~KeyAsked) => <>[]KeyDue)
    BY <1>1, <1>3, <1>4, LInductive, PTL DEF Spec, GuardFairness, EncoderFair, Weak
  <1> QED
    BY <1>2, <1>5, <1>6, FramesCome, EncoderLoops, LInductive, PTL DEF Spec

\* A key frame the codec has yielded passes the flag and is written, or the connection fails.
LEMMA KeyIsWritten ==
  Spec /\ GuardFairness /\ NetworkReturns => (enc = "callback" /\ key ~> ~Waiting)
  <1> DEFINE At(x) == enc = x /\ key /\ (x = "gate" => ~needKey)
  <1> USE DEF OnFrame, EncodeFrame, Encoder, EncCheck, EncNothing, EncImage, EncClear, EncGate,
          EncWrite, EncSent, EncMessages, KeyFrameTimer, writerVars
  <1>1. LInv /\ Waiting /\ Waiting' /\ At("callback") /\ [Next]_vars
          => (At("callback") \/ At("gate"))'
    BY WaitingStep, WaitingPhase
  <1>2. LInv /\ Waiting /\ Waiting' /\ At("gate") /\ [Next]_vars => (At("gate") \/ At("write"))'
    BY WaitingStep, WaitingPhase
  <1>3. LInv /\ Waiting /\ Waiting' /\ At("write") /\ [Next]_vars => (At("write") \/ At("send"))'
    BY WaitingStep, WaitingPhase
  <1>4. LInv /\ Waiting /\ Waiting' /\ At("send") => ~EncSent
    BY DEF Waiting, Written, WriteFailed
  <1>5. LInv /\ Waiting /\ Waiting' /\ At("send") /\ [Next]_vars => At("send")'
    BY WaitingStep, <1>4
  <1>6. /\ At("callback") /\ <<EncClear>>_vars => ~At("callback")'
        /\ At("gate") /\ <<EncGate>>_vars => ~At("gate")'
        /\ At("write") /\ <<EncWrite>>_vars => ~At("write")'
    OBVIOUS
  <1>7. /\ At("callback") => enc = "callback"
        /\ At("gate") => enc = "gate"
        /\ At("write") => enc = "write"
        /\ At("send") => Sends("enc")
        /\ enc = "callback" /\ key => At("callback")
    BY DEF Sends
  <1>8. NetworkReturns => WritesReturn("enc")
    BY DEF NetworkReturns, DataThreads
  <1> HIDE DEF At, EncClear, EncGate, EncWrite, EncSent
  <1> QED
    BY <1>1, <1>2, <1>3, <1>5, <1>6, <1>7, <1>8, WriterReleased, LInductive, PTL
    DEF Spec, GuardFairness, EncoderFair, Weak, Strong, WritesReturn

\* A fresh connection gets its key frame while video is captured; the last hypothesis says
\* that the guards written out in GuardCamera are what enables its steps.
THEOREM KeyFrameInTheEnd ==
  Spec /\ GuardFairness /\ (CameraFairness => GuardCamera) => KeyFrameComes
  <1>1. <<EncImage /\ KeyDue>>_vars => (enc = "callback" /\ key)'
    <2> SUFFICES ASSUME EncImage, encKey \/ keyDue PROVE enc' = "callback" /\ key'
      BY DEF KeyDue
    <2>1. \E k \in {TRUE} : key' = k
      BY DEF EncImage
    <2> QED
      BY <2>1 DEF EncImage
  <1>2. Waiting <=> ~(sentKey \/ wstate # "Connected" \/ pausedV \/ ~live)
    BY DEF Waiting
  <1> QED
    BY <1>1, <1>2, KeyIsAsked, KeyIsWritten, LInductive, PTL
    DEF Spec, GuardCamera, KeyAsked, KeyDue, Strong, KeyFrameComes
=============================================================================
