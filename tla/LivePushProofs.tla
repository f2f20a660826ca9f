--------------------------- MODULE LivePushProofs ---------------------------
(***************************************************************************)
(* Proofs about LivePush, for every set of url kinds and toggles.  The     *)
(* inductive invariant IInv says which resources exist at every point of   *)
(* the engine thread (Phase), how the encoder thread follows them, and     *)
(* what b_need_keyframe_ guarantees although it is read without the lock   *)
(* (Gate).                                                                 *)
(***************************************************************************)
EXTENDS LivePush, TLAPS

TearingDown == main \in {"detach", "video", "stopping", "join", "audio", "task", "trailer"}

\* What exists when the engine thread is at main.
Phase ==
  /\ main \in {"init", "tick", "connect"} => live
  /\ TearingDown => ~live
  /\ pusher <=> live \/ TearingDown
  /\ writer <=> pusher
  /\ aac <=> pusher /\ main \notin {"init", "task", "trailer"}
  /\ h264 <=> pusher /\ main \notin {"init", "audio", "task", "trailer"}
  /\ running <=> h264 /\ main # "join"
  /\ running => enc # "off"
  /\ ~h264 => enc = "off"
  /\ ticking <=> (live /\ main # "init") \/ main = "detach"
  /\ attached <=> ticking /\ mic
  /\ \A t \in AudioThreads : HoldsAac(t) => aac

\* A session's statuses start with its first attempt.
Reported ==
  /\ live => (tried <=> status # "None")
  /\ ~live => status = "None"
  /\ main = "connect" => status \in {"Connecting", "Reconnecting"}

\* Thread t has passed the check of b_need_keyframe_ with a packet that is no key frame.
PassedGate(t) == IF t = "enc" THEN enc = "write" /\ ~key ELSE aud[t] = "write"

\* On a connection that has carried no key frame the flag is up unless one is in flight,
\* and a thread that already wrote passes the check only behind that one.
Gate ==
  /\ wstate = "Connected" => streams /\ writer
  /\ wstate = "Connected" /\ ~sentKey /\ ~KeyInFlight => needKey
  /\ \A t \in DataThreads :
       wstate = "Connected" /\ ~sentKey /\ early[t] > 0 /\ PassedGate(t)
         => KeyInFlight /\ ~needKey

IInv == TypeOK /\ Phase /\ Reported /\ Gate /\ AtMostOneEarlyPacket
-----------------------------------------------------------------------------
\* The engine thread's variables keep their types.
LEMMA PushTypesStep == PushTypes /\ [Next]_vars => PushTypes'
  <1> SUFFICES ASSUME PushTypes, [Next]_vars PROVE PushTypes'
    OBVIOUS
  <1> USE DEF PushTypes, pushVars
  <1>1. CASE \E url \in UrlKinds : StartPush(url)
    BY <1>1 DEF StartPush
  <1>2. CASE StopPush
    BY <1>2 DEF StopPush
  <1>3. CASE StartMicrophone
    BY <1>3 DEF StartMicrophone
  <1>4. CASE StopMicrophone
    BY <1>4 DEF StopMicrophone
  <1>5. CASE \E on \in BOOLEAN : EnableCustomAudio(on)
    BY <1>5 DEF EnableCustomAudio
  <1>6. CASE PauseAudio
    BY <1>6 DEF PauseAudio
  <1>7. CASE PauseVideo
    BY <1>7 DEF PauseVideo
  <1>8. CASE InitCodecs
    BY <1>8 DEF InitCodecs
  <1>9. CASE StopDetach
    BY <1>9 DEF StopDetach
  <1>10. CASE FreeVideoEncoder
    BY <1>10 DEF FreeVideoEncoder
  <1>11. CASE StopEncoder
    BY <1>11 DEF StopEncoder
  <1>12. CASE JoinEncoder
    BY <1>12 DEF JoinEncoder
  <1>13. CASE DeinitAudio
    BY <1>13 DEF DeinitAudio
  <1>14. CASE StopTask
    BY <1>14 DEF StopTask
  <1>20. CASE StopReleased
    BY <1>20 DEF StopReleased
  <1>19. CASE TickWaits \/ TickNothing
    BY <1>19 DEF TickWaits, TickNothing
  <1>15. CASE BeginConnect
    BY <1>15 DEF BeginConnect
  <1>16. CASE ConnectDone
    BY <1>16 DEF ConnectDone
  <1>17. CASE ConnectFailed
    BY <1>17 DEF ConnectFailed
  <1>18. CASE UNCHANGED pushVars
    BY <1>18
  <1> QED
    BY <1>1, <1>2, <1>3, <1>4, <1>5, <1>6, <1>7, <1>8, <1>9, <1>10, <1>11, <1>12, <1>13, <1>14,
       <1>15, <1>16, <1>17, <1>18, <1>19, <1>20 DEF Application, AudEncode, AudGate, AudRecorded, AudWrite,
       AudSent, Audio, CanWrite, Connection, EncCheck, EncClear, EncGate, EncImage, EncMessages,
       EncNothing, EncWrite, EncSent, EncodeFrame, Encoder, KeyFrameTimer, Next, OnFrame,
       RetryTimer, Teardown, WriteFailed, Written, vars

\* So do the writer's ...
LEMMA WriterTypesStep == WriterTypes /\ [Next]_vars => WriterTypes'
  <1> SUFFICES ASSUME WriterTypes, [Next]_vars PROVE WriterTypes'
    OBVIOUS
  <1> USE DEF WriterTypes, writerVars
  <1>1. CASE \E url \in UrlKinds : StartPush(url)
    BY <1>1 DEF StartPush
  <1>2. CASE StopReleased
    BY <1>2 DEF StopReleased
  <1>3. CASE BeginConnect
    BY <1>3 DEF BeginConnect
  <1>4. CASE ConnectDone
    BY <1>4 DEF ConnectDone
  <1>5. CASE ConnectFailed
    BY <1>5 DEF ConnectFailed
  <1>6. CASE RetryTimer
    BY <1>6 DEF RetryTimer
  <1>7. CASE EncClear
    BY <1>7 DEF EncClear
  <1>8. CASE EncSent
    BY <1>8 DEF EncSent, Written, WriteFailed
  <1>9. CASE \E t \in AudioThreads : AudSent(t)
    BY <1>9 DEF AudSent, Written, WriteFailed
  <1>10. CASE UNCHANGED writerVars
    BY <1>10
  <1> QED
    BY <1>1, <1>2, <1>3, <1>4, <1>5, <1>6, <1>7, <1>8, <1>9, <1>10 DEF Application, AudEncode,
       AudGate, AudRecorded, AudWrite, Audio, Connection, DeinitAudio, EnableCustomAudio, EncCheck,
       EncGate, EncImage, EncMessages, EncNothing, EncWrite, EncodeFrame, Encoder, FreeVideoEncoder,
       InitCodecs, JoinEncoder, KeyFrameTimer, Next, OnFrame, PauseAudio, PauseVideo,
       StartMicrophone, StopDetach, StopEncoder, StopMicrophone, StopPush, StopTask, TickWaits,
       TickNothing, Teardown, vars

\* ... those of the encoder, the camera and the audio threads ...
LEMMA ThreadTypesStep == ThreadTypes /\ [Next]_vars => ThreadTypes'
  <1> SUFFICES ASSUME ThreadTypes, [Next]_vars PROVE ThreadTypes'
    OBVIOUS
  <1> USE DEF ThreadTypes, threadVars
  <1>1. CASE InitCodecs
    BY <1>1 DEF InitCodecs
  <1>2. CASE FreeVideoEncoder
    BY <1>2 DEF FreeVideoEncoder
  <1>3. CASE StopEncoder
    BY <1>3 DEF StopEncoder
  <1>4. CASE JoinEncoder
    BY <1>4 DEF JoinEncoder
  <1>5. CASE OnFrame \/ EncodeFrame
    BY <1>5 DEF OnFrame, EncodeFrame
  <1>6. CASE EncCheck \/ EncGate \/ EncMessages
    BY <1>6 DEF EncCheck, EncGate, EncMessages
  <1>7. CASE EncNothing
    BY <1>7 DEF EncNothing
  <1>8. CASE EncImage
    BY <1>8 DEF EncImage
  <1>9. CASE EncClear
    BY <1>9 DEF EncClear
  <1>10. CASE EncWrite \/ EncSent
    BY <1>10 DEF EncWrite, EncSent
  <1>11. CASE KeyFrameTimer
    BY <1>11 DEF KeyFrameTimer
  <1>12. CASE \E t \in AudioThreads : AudRecorded(t) \/ AudEncode(t) \/ AudGate(t)
    BY <1>12 DEF AudRecorded, AudEncode, AudGate
  <1>13. CASE \E t \in AudioThreads : AudWrite(t) \/ AudSent(t)
    BY <1>13 DEF AudWrite, AudSent
  <1>14. CASE UNCHANGED threadVars
    BY <1>14
  <1> QED
    BY <1>1, <1>2, <1>3, <1>4, <1>5, <1>6, <1>7, <1>8, <1>9, <1>10, <1>11, <1>12, <1>13,
       <1>14 DEF Application, Audio, BeginConnect, ConnectDone, ConnectFailed, Connection,
       DeinitAudio, EnableCustomAudio, Encoder, Next, PauseAudio, PauseVideo, RetryTimer,
       StartMicrophone, StartPush, StopDetach, StopMicrophone, StopPush, StopTask,
       StopReleased, TickWaits, TickNothing, Teardown,
       vars

\* ... and the history variables.
LEMMA HistTypesStep == HistTypes /\ ThreadTypes /\ [Next]_vars => HistTypes'
  <1> SUFFICES ASSUME HistTypes, ThreadTypes, [Next]_vars PROVE HistTypes'
    OBVIOUS
  <1> USE DEF HistTypes, histVars
  <1>a. [t \in DataThreads |-> 0] \in [DataThreads -> 0..2]
    OBVIOUS
  <1>b. AudioThreads \subseteq DataThreads /\ "enc" \in DataThreads
    BY DEF DataThreads
  <1>1. CASE \E url \in UrlKinds : StartPush(url)
    BY <1>1, <1>a DEF StartPush
  <1>2. CASE StopPush
    BY <1>2 DEF StopPush
  <1>3. CASE StopReleased
    BY <1>3, <1>a DEF StopReleased
  <1>4. CASE BeginConnect
    BY <1>4 DEF BeginConnect
  <1>5. CASE ConnectDone
    BY <1>5, <1>a DEF ConnectDone
  <1>6. CASE ConnectFailed
    BY <1>6 DEF ConnectFailed
  <1>7. CASE EncWrite \/ \E t \in AudioThreads : AudWrite(t)
    <2>1. PICK t \in DataThreads, k \in BOOLEAN : early' = Counted(t, k)
      BY <1>7, <1>b DEF EncWrite, AudWrite, ThreadTypes
    <2>2. UNCHANGED <<status, sentKey>>
      BY <1>7 DEF EncWrite, AudWrite
    <2> QED
      BY <2>1, <2>2 DEF Counted
  <1>8. CASE EncSent \/ \E t \in AudioThreads : AudSent(t)
    <2>1. key \in BOOLEAN
      BY DEF ThreadTypes
    <2>2. ASSUME NEW isKey \in BOOLEAN, Written(isKey) \/ WriteFailed PROVE HistTypes'
      BY <2>2 DEF Written, WriteFailed
    <2> QED
      BY <1>8, <2>1, <2>2 DEF EncSent, AudSent
  <1>9. CASE UNCHANGED histVars
    BY <1>9
  <1> QED
    BY <1>1, <1>2, <1>3, <1>4, <1>5, <1>6, <1>7, <1>8, <1>9 DEF Application, AudEncode,
       AudGate, AudRecorded, Audio, Connection, DeinitAudio, EnableCustomAudio, EncCheck,
       EncClear, EncGate, EncImage, EncMessages, EncNothing, EncodeFrame, Encoder,
       FreeVideoEncoder, InitCodecs, JoinEncoder, KeyFrameTimer, Next, OnFrame, PauseAudio,
       PauseVideo, RetryTimer, StartMicrophone, StopDetach, StopEncoder, StopMicrophone,
       StopTask, TickWaits, TickNothing, Teardown, vars

\* What exists follows the engine thread.
LEMMA PhaseStep == TypeOK /\ Phase /\ [Next]_vars => Phase'
  <1> SUFFICES ASSUME TypeOK, Phase, [Next]_vars PROVE Phase'
    OBVIOUS
  <1> USE DEF TypeOK, PushTypes, WriterTypes, ThreadTypes, Phase, TearingDown, HoldsAac,
       HoldsEncoder, AudioThreads,
              pushVars, writerVars, threadVars, histVars
  <1>1. CASE \E url \in UrlKinds : StartPush(url)
    BY <1>1 DEF StartPush
  <1>2. CASE StopPush
    BY <1>2 DEF StopPush
  <1>3. CASE StartMicrophone
    BY <1>3 DEF StartMicrophone
  <1>4. CASE StopMicrophone
    BY <1>4 DEF StopMicrophone
  <1>5. CASE \E on \in BOOLEAN : EnableCustomAudio(on)
    BY <1>5 DEF EnableCustomAudio
  <1>6. CASE PauseAudio
    BY <1>6 DEF PauseAudio
  <1>7. CASE PauseVideo
    BY <1>7 DEF PauseVideo
  <1>8. CASE InitCodecs
    BY <1>8 DEF InitCodecs
  <1>9. CASE StopDetach
    BY <1>9 DEF StopDetach
  <1>10. CASE FreeVideoEncoder
    BY <1>10 DEF FreeVideoEncoder
  <1>11. CASE StopEncoder
    BY <1>11 DEF StopEncoder
  <1>12. CASE JoinEncoder
    BY <1>12 DEF JoinEncoder
  <1>13. CASE DeinitAudio
    BY <1>13 DEF DeinitAudio
  <1>14. CASE StopTask \/ StopReleased \/ TickWaits \/ TickNothing
    BY <1>14 DEF StopTask, StopReleased, TickWaits, TickNothing
  <1>15. CASE BeginConnect
    BY <1>15 DEF BeginConnect
  <1>16. CASE ConnectDone
    BY <1>16 DEF ConnectDone
  <1>17. CASE ConnectFailed
    BY <1>17 DEF ConnectFailed
  <1>18. CASE RetryTimer
    BY <1>18 DEF RetryTimer
  <1>19. CASE OnFrame
    BY <1>19 DEF OnFrame
  <1>20. CASE EncodeFrame
    BY <1>20 DEF EncodeFrame
  <1>21. CASE EncCheck
    BY <1>21 DEF EncCheck
  <1>22. CASE EncNothing
    BY <1>22 DEF EncNothing
  <1>23. CASE EncImage
    BY <1>23 DEF EncImage
  <1>24. CASE EncClear
    BY <1>24 DEF EncClear
  <1>25. CASE EncGate
    BY <1>25 DEF EncGate
  <1>26. CASE EncWrite \/ EncSent
    BY <1>26 DEF EncWrite, EncSent, Written, WriteFailed
  <1>27. CASE EncMessages
    BY <1>27 DEF EncMessages
  <1>28. CASE KeyFrameTimer
    BY <1>28 DEF KeyFrameTimer
  <1>29. CASE \E t \in AudioThreads : AudRecorded(t)
    BY <1>29 DEF AudRecorded
  <1>30. CASE \E t \in AudioThreads : AudEncode(t)
    BY <1>30 DEF AudEncode
  <1>31. CASE \E t \in AudioThreads : AudGate(t)
    BY <1>31 DEF AudGate
  <1>32. CASE \E t \in AudioThreads : AudWrite(t)
    BY <1>32 DEF AudWrite
  <1>34. CASE \E t \in AudioThreads : AudSent(t)
    BY <1>34 DEF AudSent, Written, WriteFailed
  <1>33. CASE UNCHANGED vars
    BY <1>33 DEF vars, pushVars, writerVars, threadVars, histVars
  <1> QED
    BY <1>1, <1>2, <1>3, <1>4, <1>5, <1>6, <1>7, <1>8, <1>9, <1>10, <1>11, <1>12, <1>13, <1>14,
       <1>15, <1>16, <1>17, <1>18, <1>19, <1>20, <1>21, <1>22, <1>23, <1>24, <1>25, <1>26,
       <1>27, <1>28, <1>29, <1>30, <1>31, <1>32, <1>33, <1>34
    DEF Next, Application, Teardown, Connection, Encoder, Audio

\* The statuses reported follow the attempts.
LEMMA ReportedStep == TypeOK /\ Phase /\ Reported /\ [Next]_vars => Reported'
  <1> SUFFICES ASSUME TypeOK, Phase, Reported, [Next]_vars PROVE Reported'
    OBVIOUS
  <1> USE DEF TypeOK, PushTypes, HistTypes, Reported
  <1>1. CASE \E url \in UrlKinds : StartPush(url)
    BY <1>1 DEF StartPush
  <1>2. CASE StopPush
    BY <1>2 DEF StopPush
  <1>3. CASE BeginConnect
    BY <1>3 DEF BeginConnect, Phase
  <1>4. CASE ConnectDone
    BY <1>4 DEF ConnectDone
  <1>5. CASE UNCHANGED <<live, tried, status>> /\ main' \in {main, "idle", "tick", "video",
                 "stopping", "join", "audio", "task", "trailer"}
    BY <1>5
  <1> QED
    BY <1>1, <1>2, <1>3, <1>4, <1>5
    DEF Next, Application, Teardown, Connection, Encoder, Audio, vars, pushVars, writerVars,
       threadVars, histVars, StartMicrophone, StopMicrophone, EnableCustomAudio, PauseAudio,
       PauseVideo, InitCodecs, StopDetach, FreeVideoEncoder, StopEncoder, JoinEncoder,
       DeinitAudio, StopTask, ConnectFailed, RetryTimer, OnFrame, EncodeFrame, EncCheck,
       EncNothing, EncImage, EncClear, EncGate, EncWrite, EncMessages, KeyFrameTimer,
       AudRecorded, AudEncode, AudGate, AudWrite, AudSent, EncSent, Written, WriteFailed,
       StopReleased, TickWaits, TickNothing

\* What the key frame flag guarantees survives every interleaving.
LEMMA GateStep == TypeOK /\ Phase /\ Gate /\ AtMostOneEarlyPacket /\ [Next]_vars
                    => (Gate /\ AtMostOneEarlyPacket)'
  <1> SUFFICES ASSUME TypeOK, Phase, Gate, AtMostOneEarlyPacket, [Next]_vars
               PROVE (Gate /\ AtMostOneEarlyPacket)'
    OBVIOUS
  <1>a. ASSUME \/ StopPush \/ StartMicrophone \/ StopMicrophone
               \/ \E on \in BOOLEAN : EnableCustomAudio(on)
               \/ PauseAudio \/ PauseVideo \/ InitCodecs
               \/ StopDetach \/ FreeVideoEncoder \/ StopEncoder \/ JoinEncoder \/ DeinitAudio
               \/ StopTask \/ TickWaits \/ TickNothing
               \/ RetryTimer \/ OnFrame \/ EncodeFrame \/ KeyFrameTimer \/ UNCHANGED vars
        PROVE  /\ UNCHANGED <<wstate, streams, writer, sentKey, early, needKey, key, aud>>
               /\ enc' = enc \/ (InitCodecs /\ enc' = "check")
    BY <1>a DEF vars, pushVars, writerVars, threadVars, histVars, StopPush, StartMicrophone,
       StopMicrophone, EnableCustomAudio, PauseAudio, PauseVideo, InitCodecs, StopDetach,
       FreeVideoEncoder, StopEncoder, JoinEncoder, DeinitAudio, StopTask, TickWaits, TickNothing, RetryTimer, OnFrame,
       EncodeFrame, KeyFrameTimer
  <1> USE DEF TypeOK, PushTypes, WriterTypes, ThreadTypes, HistTypes, Gate,
       AtMostOneEarlyPacket, KeyInFlight, PassedGate, AudioThreads, DataThreads, pushVars,
       writerVars, threadVars, histVars
  <1>1. CASE \E url \in UrlKinds : StartPush(url)
    BY <1>1 DEF StartPush
  <1>2. CASE StopReleased
    BY <1>2 DEF StopReleased
  <1>3. CASE BeginConnect
    BY <1>3 DEF BeginConnect
  <1>4. CASE ConnectDone
    BY <1>4 DEF ConnectDone, Phase, TearingDown
  <1>5. CASE ConnectFailed
    BY <1>5 DEF ConnectFailed
  <1>6. CASE EncCheck
    BY <1>6 DEF EncCheck
  <1>7. CASE EncNothing
    BY <1>7 DEF EncNothing
  <1>8. CASE EncImage
    BY <1>8 DEF EncImage
  <1>9. CASE EncClear
    BY <1>9 DEF EncClear
  <1>10. CASE EncGate
    BY <1>10 DEF EncGate, Phase
  <1>11. CASE EncWrite \/ EncSent
    BY <1>11 DEF EncWrite, EncSent, Counted, Written, WriteFailed, CanWrite
  <1>12. CASE EncMessages
    BY <1>12 DEF EncMessages
  <1>13. CASE \E t \in AudioThreads : AudRecorded(t) \/ AudEncode(t)
    BY <1>13 DEF AudRecorded, AudEncode
  <1>14. CASE \E t \in AudioThreads : AudGate(t)
    BY <1>14 DEF AudGate
  <1>15. CASE \E t \in AudioThreads : AudWrite(t) \/ AudSent(t)
    BY <1>15 DEF AudWrite, AudSent, Counted, Written, WriteFailed, CanWrite
  <1>16. CASE UNCHANGED <<wstate, streams, writer, sentKey, early, needKey, key, enc, aud>>
    BY <1>16
  <1>17. CASE InitCodecs
    <2>1. enc = "off"
      BY <1>17 DEF InitCodecs, Phase
    <2> QED
      BY <1>17, <2>1 DEF InitCodecs
  <1> QED
    BY <1>a, <1>1, <1>2, <1>3, <1>4, <1>5, <1>6, <1>7, <1>8, <1>9, <1>10, <1>11, <1>12, <1>13,
       <1>14, <1>15, <1>16, <1>17
    DEF Next, Application, Teardown, Connection, Encoder, Audio

\* The initial state satisfies the invariant.
LEMMA InitIInv == Init => IInv
  <1> SUFFICES ASSUME Init PROVE IInv
    OBVIOUS
  <1> USE DEF Init
  <1>1. PushTypes /\ WriterTypes
    BY DEF PushTypes, WriterTypes
  <1>2. ThreadTypes
    BY DEF ThreadTypes
  <1>3. HistTypes
    <2>1. [t \in DataThreads |-> 0] \in [DataThreads -> 0..2]
      OBVIOUS
    <2> QED
      BY <2>1 DEF HistTypes
  <1>4. Phase /\ Reported
    BY DEF Phase, Reported, TearingDown, HoldsAac
  <1>5. Gate /\ AtMostOneEarlyPacket
    BY DEF Gate, AtMostOneEarlyPacket
  <1> QED
    BY <1>1, <1>2, <1>3, <1>4, <1>5 DEF IInv, TypeOK

\* IInv is inductive.
THEOREM Inductive == Spec => []IInv
  <1>1. IInv /\ [Next]_vars => IInv'
    BY PushTypesStep, WriterTypesStep, ThreadTypesStep, HistTypesStep, PhaseStep, ReportedStep,
       GateStep DEF IInv, TypeOK
  <1> QED
    BY <1>1, InitIInv, PTL DEF Spec
-----------------------------------------------------------------------------
\* For every set of url kinds and toggles, every variable keeps its type.
THEOREM TypeCorrect == Spec => []TypeOK
  BY Inductive, PTL DEF IInv

\* No data thread ever works on the ARFFPusher that stopPush has deleted.
THEOREM UsersSafe == Spec => []UsersHavePusher
  <1>1. IInv => UsersHavePusher
    BY DEF IInv, Phase, UsersHavePusher
  <1> QED
    BY <1>1, Inductive, PTL

\* A stopped pusher has released everything it acquired.
THEOREM StoppedClean == Spec => []StoppedIsClean
  <1>1. IInv => StoppedIsClean
    BY DEF IInv, Phase, TearingDown, StoppedIsClean
  <1> QED
    BY <1>1, Inductive, PTL

\* Between operations the microphone feeds exactly the sessions that asked for it.
THEOREM AttachedRight == Spec => []AttachedWhenWanted
  <1>1. IInv => AttachedWhenWanted
    BY DEF IInv, Phase, TearingDown, AttachedWhenWanted
  <1> QED
    BY <1>1, Inductive, PTL

\* Each thread gets at most one packet onto a connection ahead of its key frame.
THEOREM EarlyBounded == Spec => []AtMostOneEarlyPacket
  BY Inductive, PTL DEF IInv

\* LivePush implements PushStatus: every step of the system is a step of the promise
\* or leaves what the application observes unchanged.
THEOREM Implements == Spec => StatusPromise
  <1>1. Init => Promise!Init
    BY DEF Init, Promise!Init
  <1>2. IInv /\ [Next]_vars => [Promise!Next]_(Promise!vars)
    <2> SUFFICES ASSUME IInv, [Next]_vars PROVE [Promise!Next]_(Promise!vars)
      OBVIOUS
    <2> USE DEF IInv, Reported, Promise!Next, Promise!vars
    <2>1. CASE \E url \in UrlKinds : StartPush(url)
      BY <2>1 DEF StartPush, Promise!Open
    <2>2. CASE StopPush
      BY <2>2 DEF StopPush, Promise!Close
    <2>3. CASE BeginConnect
      <3>1. live /\ status \in {"None", "Connecting", "ConnectSuccess", "Reconnecting"}
        BY <2>3 DEF BeginConnect, Phase, TypeOK, PushTypes, HistTypes
      <3> QED
        BY <2>3, <3>1 DEF BeginConnect, Promise!FirstAttempt, Promise!LaterAttempt
    <2>4. CASE ConnectDone
      BY <2>4 DEF ConnectDone, Phase, Promise!Success
    <2>5. CASE UNCHANGED <<live, status>>
      BY <2>5
    <2> QED
      BY <2>1, <2>2, <2>3, <2>4, <2>5
      DEF Next, Application, Teardown, Connection, Encoder, Audio, vars, pushVars, writerVars,
       threadVars, histVars, StartMicrophone, StopMicrophone, EnableCustomAudio, PauseAudio,
       PauseVideo, InitCodecs, StopDetach, FreeVideoEncoder, StopEncoder, JoinEncoder,
       DeinitAudio, StopTask, ConnectFailed, RetryTimer, OnFrame, EncodeFrame, EncCheck,
       EncNothing, EncImage, EncClear, EncGate, EncWrite, EncMessages, KeyFrameTimer,
       AudRecorded, AudEncode, AudGate, AudWrite, AudSent, EncSent, Written, WriteFailed,
       StopReleased, TickWaits, TickNothing
  <1> QED
    BY <1>1, <1>2, Inductive, PTL DEF Spec, StatusPromise, Promise!Spec

=============================================================================
