--------------------------- MODULE LivePlayProofs ---------------------------
(***************************************************************************)
(* Proofs about LivePlay, for every set of sources and calls and every     *)
(* bound on the counters.  The inductive invariant IInv says what a task   *)
(* owns at each point of its two threads (Task), where packets and         *)
(* statuses come from (Source), and balances the closings reported against *)
(* the rePlays that allow them (Count).                                    *)
(***************************************************************************)
EXTENDS LivePlay, TLAPS

Task ==
  /\ task = "none" => rd = "off" /\ recv = Empty /\ ~dec
  /\ stopping => task # "none" /\ ~running /\ ~tick
  /\ tick => task # "none" /\ play = "Playing"
  /\ hand => tick
  /\ rd = "off" => ~fmt
  /\ rd \in {"opened", "seekopen", "seek", "check", "fill", "read"} => fmt
  /\ rd = "open" => ~fmt

Source ==
  /\ fmt => opened
  /\ recv # Empty => fmt
  /\ task # "none" /\ ~instant /\ (play # "Init" \/ report = "Loading") => opened

\* The read thread can still come to report that a source has closed.
Closable == fmt \/ rd = "open" \/ reconnect # "none"

One(b) == IF b THEN 1 ELSE 0

Count ==
  \/ replays = MaxCloses
  \/ /\ closes + One(Closable) + One(replay) <= replays + 1
     /\ ~notified /\ rd # "off" => closes = 0
     /\ replay => replays > 0

IInv == TypeOK /\ Task /\ Source /\ Count
-----------------------------------------------------------------------------
\* The types of the engine thread's variables survive every step ...
LEMMA CallTypesStep == CallTypes /\ [Next]_vars => CallTypes'
  <1> SUFFICES ASSUME CallTypes, [Next]_vars PROVE CallTypes'
    OBVIOUS
  <1> USE DEF CallTypes, callVars
  <1>1. CASE \E kind \in Kinds : StartPlay(kind)
    BY <1>1 DEF StartPlay, Fresh
  <1>2. CASE StopPlay
    BY <1>2 DEF StopPlay
  <1>3. CASE StopDone
    BY <1>3 DEF StopDone, DoClear
  <1>4. CASE PauseAudio
    BY <1>4 DEF PauseAudio
  <1>5. CASE PauseVideo
    BY <1>5 DEF PauseVideo
  <1>6. CASE SeekTo
    BY <1>6 DEF SeekTo
  <1>7. CASE RePlay
    BY <1>7 DEF RePlay, Capped
  <1>8. CASE RunReplay
    BY <1>8 DEF RunReplay, CloseFFDecode, DoClear
  <1>9. CASE NoSeek
    BY <1>9 DEF NoSeek, RunRead
  <1>10. CASE SeekClear
    BY <1>10 DEF SeekClear, DoClear
  <1>11. CASE \E zero \in BOOLEAN : SetCacheParams(zero)
    BY <1>11 DEF SetCacheParams
  <1>12. CASE UNCHANGED callVars
    BY <1>12
  <1> QED
    BY <1>1, <1>2, <1>3, <1>4, <1>5, <1>6, <1>7, <1>8, <1>9, <1>10, <1>11, <1>12 DEF Next,
       Application, Tick, Run, vars, TickReset, TickCaching, TickPlaying, TickTake, TickPush,
       Decode, RunReconnect, OpenDone, OpenFailed, OpenedSeek, Seek, RunRead, SeekAtEnd,
       CheckNotEnded, CheckClose, CheckWait, Fill, ReadPacket, ReadEof, ReadFailed, RunEnd,
       RunReconnectTimer, Silence

\* ... those of the read thread's ...
LEMMA ReadTypesStep == ReadTypes /\ [Next]_vars => ReadTypes'
  <1> SUFFICES ASSUME ReadTypes, [Next]_vars PROVE ReadTypes'
    OBVIOUS
  <1> USE DEF ReadTypes, readVars
  <1>1. CASE \E kind \in Kinds : StartPlay(kind)
    BY <1>1 DEF StartPlay, Fresh
  <1>2. CASE StopPlay
    BY <1>2 DEF StopPlay
  <1>3. CASE StopDone
    BY <1>3 DEF StopDone, DoClear
  <1>4. CASE RunReplay
    BY <1>4 DEF RunReplay, CloseFFDecode, DoClear
  <1>5. CASE RunReconnect
    BY <1>5 DEF RunReconnect
  <1>6. CASE OpenDone
    BY <1>6 DEF OpenDone
  <1>7. CASE OpenFailed
    BY <1>7 DEF OpenFailed, Capped, CloseFFDecode, DoClear
  <1>8. CASE OpenedSeek
    BY <1>8 DEF OpenedSeek
  <1>9. CASE NoSeek
    BY <1>9 DEF NoSeek, RunRead
  <1>10. CASE Seek
    BY <1>10 DEF Seek, RunRead
  <1>11. CASE SeekClear
    BY <1>11 DEF SeekClear, DoClear
  <1>12. CASE SeekAtEnd
    BY <1>12 DEF SeekAtEnd, RunRead, DoClear
  <1>13. CASE CheckNotEnded
    BY <1>13 DEF CheckNotEnded
  <1>14. CASE CheckClose
    BY <1>14 DEF CheckClose, Capped, CloseFFDecode, DoClear
  <1>15. CASE CheckWait
    BY <1>15 DEF CheckWait, DoClear
  <1>16. CASE Fill
    BY <1>16 DEF Fill
  <1>17. CASE ReadPacket
    BY <1>17 DEF ReadPacket
  <1>18. CASE ReadEof
    BY <1>18 DEF ReadEof
  <1>19. CASE ReadFailed
    BY <1>19 DEF ReadFailed
  <1>20. CASE RunEnd
    BY <1>20 DEF RunEnd, Capped, CloseFFDecode, DoClear
  <1>21. CASE RunReconnectTimer
    BY <1>21 DEF RunReconnectTimer
  <1>22. CASE Silence
    BY <1>22 DEF Silence
  <1>23. CASE UNCHANGED readVars
    BY <1>23
  <1> QED
    BY <1>1, <1>2, <1>3, <1>4, <1>5, <1>6, <1>7, <1>8, <1>9, <1>10, <1>11, <1>12, <1>13, <1>14,
       <1>15, <1>16, <1>17, <1>18, <1>19, <1>20, <1>21, <1>22, <1>23 DEF Next, Application,
       Tick, Run, vars, PauseAudio, PauseVideo, SeekTo, RePlay, SetCacheParams, TickReset,
       TickCaching, TickPlaying, TickTake, TickPush, Decode

\* ... the buffer's ...
LEMMA BufferTypesStep == BufferTypes /\ [Next]_vars => BufferTypes'
  <1> SUFFICES ASSUME BufferTypes, [Next]_vars PROVE BufferTypes'
    OBVIOUS
  <1> USE DEF BufferTypes, bufVars, Empty, Some, Full
  <1>1. CASE \E kind \in Kinds : StartPlay(kind)
    BY <1>1 DEF StartPlay, Fresh
  <1>2. CASE StopDone
    BY <1>2 DEF StopDone, DoClear
  <1> TakeOld => recv' \in {Empty, Some, Full} /\ dec' \in BOOLEAN
    <2>1. CASE UNCHANGED <<recv, dec>>
      BY <2>1
    <2>2. CASE recv # Empty /\ recv' \in {recv, recv - 1} /\ dec' = TRUE
      BY <2>2
    <2> QED
      BY <2>1, <2>2 DEF TakeOld
  <1>3. CASE TickReset
    BY <1>3 DEF TickReset
  <1>4. CASE TickCaching
    BY <1>4 DEF TickCaching
  <1>5. CASE TickPlaying
    BY <1>5 DEF TickPlaying
  <1>6. CASE TickTake
    <2>1. recv' \in {Empty, Some, Full}
      BY <1>6 DEF TickTake
    <2>2. hand' \in BOOLEAN /\ drained' \in BOOLEAN /\ tick' \in BOOLEAN
      BY <1>6 DEF TickTake
    <2>3. reset' \in BOOLEAN
      BY <1>6 DEF TickTake
    <2> QED
      BY <1>6, <2>1, <2>2, <2>3 DEF TickTake
  <1>7. CASE TickPush
    BY <1>7 DEF TickPush
  <1>8. CASE Decode
    BY <1>8 DEF Decode
  <1>9. CASE RunReplay
    BY <1>9 DEF RunReplay, CloseFFDecode, DoClear
  <1>10. CASE RunReconnect
    BY <1>10 DEF RunReconnect
  <1>11. CASE OpenDone
    BY <1>11 DEF OpenDone
  <1>12. CASE OpenFailed
    BY <1>12 DEF OpenFailed, Capped, CloseFFDecode, DoClear
  <1>13. CASE OpenedSeek
    BY <1>13 DEF OpenedSeek
  <1>14. CASE NoSeek
    BY <1>14 DEF NoSeek, RunRead
  <1>15. CASE Seek
    BY <1>15 DEF Seek, RunRead
  <1>16. CASE SeekClear
    BY <1>16 DEF SeekClear, DoClear
  <1>17. CASE SeekAtEnd
    BY <1>17 DEF SeekAtEnd, RunRead, DoClear
  <1>18. CASE CheckNotEnded
    BY <1>18 DEF CheckNotEnded
  <1>19. CASE CheckClose
    BY <1>19 DEF CheckClose, Capped, CloseFFDecode, DoClear
  <1>20. CASE CheckWait
    BY <1>20 DEF CheckWait, DoClear
  <1>21. CASE Fill
    BY <1>21 DEF Fill
  <1>22. CASE ReadPacket
    BY <1>22 DEF ReadPacket
  <1>23. CASE ReadEof
    BY <1>23 DEF ReadEof
  <1>24. CASE ReadFailed
    BY <1>24 DEF ReadFailed
  <1>25. CASE RunEnd
    BY <1>25 DEF RunEnd, Capped, CloseFFDecode, DoClear
  <1>26. CASE UNCHANGED bufVars
    BY <1>26
  <1> QED
    BY <1>1, <1>2, <1>3, <1>4, <1>5, <1>6, <1>7, <1>8, <1>9, <1>10, <1>11, <1>12, <1>13, <1>14,
       <1>15, <1>16, <1>17, <1>18, <1>19, <1>20, <1>21, <1>22, <1>23, <1>24, <1>25,
       <1>26 DEF Next, Application, Tick, Run, vars, StopPlay, PauseAudio, PauseVideo, SeekTo,
       RePlay, SetCacheParams, RunReconnectTimer, Silence

\* ... and the history variables'.
LEMMA HistTypesStep == HistTypes /\ [Next]_vars => HistTypes'
  <1> SUFFICES ASSUME HistTypes, [Next]_vars PROVE HistTypes'
    OBVIOUS
  <1> USE LivePlayAssumption DEF HistTypes, histVars
  <1>1. CASE \E kind \in Kinds : StartPlay(kind)
    <2>1. 0 \in 0..MaxCloses
      BY LivePlayAssumption
    <2> QED
      BY <1>1, <2>1 DEF StartPlay, Fresh
  <1>2. CASE SeekTo
    BY <1>2 DEF SeekTo
  <1>3. CASE RePlay
    BY <1>3 DEF RePlay, Capped
  <1>4. CASE TickPlaying
    BY <1>4 DEF TickPlaying
  <1>5. CASE TickPush
    BY <1>5 DEF TickPush
  <1>6. CASE RunReplay
    BY <1>6 DEF RunReplay, CloseFFDecode, DoClear
  <1>7. CASE RunReconnect
    BY <1>7 DEF RunReconnect
  <1>8. CASE OpenDone
    BY <1>8 DEF OpenDone
  <1>9. CASE OpenFailed
    BY <1>9 DEF OpenFailed, Capped, CloseFFDecode, DoClear
  <1>10. CASE OpenedSeek
    BY <1>10 DEF OpenedSeek
  <1>11. CASE NoSeek
    BY <1>11 DEF NoSeek, RunRead
  <1>12. CASE Seek
    BY <1>12 DEF Seek, RunRead
  <1>13. CASE SeekClear
    BY <1>13 DEF SeekClear, DoClear
  <1>14. CASE SeekAtEnd
    BY <1>14 DEF SeekAtEnd, RunRead, DoClear
  <1>15. CASE CheckNotEnded
    BY <1>15 DEF CheckNotEnded
  <1>16. CASE CheckClose
    BY <1>16 DEF CheckClose, Capped, CloseFFDecode, DoClear
  <1>17. CASE CheckWait
    BY <1>17 DEF CheckWait, DoClear
  <1>18. CASE Fill
    BY <1>18 DEF Fill
  <1>19. CASE ReadPacket
    BY <1>19 DEF ReadPacket
  <1>20. CASE ReadEof
    BY <1>20 DEF ReadEof
  <1>21. CASE ReadFailed
    BY <1>21 DEF ReadFailed
  <1>22. CASE RunEnd
    BY <1>22 DEF RunEnd, Capped, CloseFFDecode, DoClear
  <1>23. CASE Silence
    BY <1>23 DEF Silence
  <1>24. CASE UNCHANGED histVars
    BY <1>24
  <1> QED
    BY <1>1, <1>2, <1>3, <1>4, <1>5, <1>6, <1>7, <1>8, <1>9, <1>10, <1>11, <1>12, <1>13, <1>14,
       <1>15, <1>16, <1>17, <1>18, <1>19, <1>20, <1>21, <1>22, <1>23, <1>24 DEF Next,
       Application, Tick, Run, vars, StopPlay, StopDone, PauseAudio, PauseVideo, SetCacheParams,
       TickReset, TickCaching, TickTake, Decode, RunReconnectTimer

\* What a task owns follows the two threads.
LEMMA TaskStep == TypeOK /\ Task /\ [Next]_vars => Task'
  <1> SUFFICES ASSUME TypeOK, Task, [Next]_vars PROVE Task'
    OBVIOUS
  <1> USE LivePlayAssumption DEF Task, EngineFree, Ticks, TypeOK, CallTypes, ReadTypes,
       BufferTypes, Empty, Some, Full, callVars, readVars, bufVars, histVars
  <1>1. CASE \E kind \in Kinds : StartPlay(kind)
    BY <1>1 DEF StartPlay, Fresh
  <1>2. CASE StopPlay
    BY <1>2 DEF StopPlay
  <1>3. CASE StopDone
    BY <1>3 DEF StopDone, DoClear
  <1>4. CASE PauseAudio
    BY <1>4 DEF PauseAudio
  <1>5. CASE PauseVideo
    BY <1>5 DEF PauseVideo
  <1>6. CASE SeekTo
    BY <1>6 DEF SeekTo
  <1>7. CASE RePlay
    BY <1>7 DEF RePlay, Capped
  <1>8. CASE TickReset
    BY <1>8 DEF TickReset, TakeOld
  <1>9. CASE TickCaching
    BY <1>9 DEF TickCaching, TakeOld
  <1>10. CASE TickPlaying
    BY <1>10 DEF TickPlaying, TakeOld
  <1>11. CASE TickTake
    BY <1>11 DEF TickTake
  <1>12. CASE TickPush
    BY <1>12 DEF TickPush
  <1>13. CASE Decode
    BY <1>13 DEF Decode
  <1>14. CASE RunReplay
    BY <1>14 DEF RunReplay, CloseFFDecode, DoClear
  <1>15. CASE RunReconnect
    BY <1>15 DEF RunReconnect
  <1>16. CASE OpenDone
    BY <1>16 DEF OpenDone
  <1>17. CASE OpenFailed
    BY <1>17 DEF OpenFailed, Capped, CloseFFDecode, DoClear
  <1>18. CASE OpenedSeek
    BY <1>18 DEF OpenedSeek
  <1>19. CASE NoSeek
    BY <1>19 DEF NoSeek, RunRead
  <1>20. CASE Seek
    BY <1>20 DEF Seek, RunRead
  <1>21. CASE SeekClear
    BY <1>21 DEF SeekClear, DoClear
  <1>22. CASE SeekAtEnd
    BY <1>22 DEF SeekAtEnd, RunRead, DoClear
  <1>23. CASE CheckNotEnded
    BY <1>23 DEF CheckNotEnded
  <1>24. CASE CheckClose
    BY <1>24 DEF CheckClose, Capped, CloseFFDecode, DoClear
  <1>25. CASE CheckWait
    BY <1>25 DEF CheckWait, DoClear
  <1>26. CASE Fill
    BY <1>26 DEF Fill
  <1>27. CASE ReadPacket
    BY <1>27 DEF ReadPacket
  <1>28. CASE ReadEof
    BY <1>28 DEF ReadEof
  <1>29. CASE ReadFailed
    BY <1>29 DEF ReadFailed
  <1>30. CASE RunEnd
    BY <1>30 DEF RunEnd, Capped, CloseFFDecode, DoClear
  <1>31. CASE RunReconnectTimer
    BY <1>31 DEF RunReconnectTimer
  <1>32. CASE Silence
    BY <1>32 DEF Silence
  <1>33. CASE \E zero \in BOOLEAN : SetCacheParams(zero)
    BY <1>33 DEF SetCacheParams
  <1>34. CASE UNCHANGED vars
    BY <1>34 DEF vars
  <1> QED
    BY <1>1, <1>2, <1>3, <1>4, <1>5, <1>6, <1>7, <1>8, <1>9, <1>10, <1>11, <1>12, <1>13, <1>14,
       <1>15, <1>16, <1>17, <1>18, <1>19, <1>20, <1>21, <1>22, <1>23, <1>24, <1>25, <1>26,
       <1>27, <1>28, <1>29, <1>30, <1>31, <1>32, <1>33, <1>34 DEF Next, Application,
       Tick, Run

\* What was received comes from a source that is or was open.
LEMMA SourceStep == TypeOK /\ Task /\ Source /\ [Next]_vars => Source'
  <1> SUFFICES ASSUME TypeOK, Task, Source, [Next]_vars PROVE Source'
    OBVIOUS
  <1> USE DEF Task, Source, EngineFree, Ticks, TypeOK, CallTypes, ReadTypes, BufferTypes,
       Empty, Some, Full, callVars, readVars, bufVars, histVars
  <1>1. CASE \E kind \in Kinds : StartPlay(kind)
    BY <1>1 DEF StartPlay, Fresh
  <1>2. CASE StopPlay
    BY <1>2 DEF StopPlay
  <1>3. CASE StopDone
    BY <1>3 DEF StopDone, DoClear
  <1>4. CASE PauseAudio
    BY <1>4 DEF PauseAudio
  <1>5. CASE PauseVideo
    BY <1>5 DEF PauseVideo
  <1>6. CASE SeekTo
    BY <1>6 DEF SeekTo
  <1>7. CASE RePlay
    BY <1>7 DEF RePlay, Capped
  <1>8. CASE TickReset
    BY <1>8 DEF TickReset, TakeOld
  <1>9. CASE TickCaching
    BY <1>9 DEF TickCaching, TakeOld
  <1>10. CASE TickPlaying
    BY <1>10 DEF TickPlaying, TakeOld
  <1>11. CASE TickTake
    BY <1>11 DEF TickTake
  <1>12. CASE TickPush
    BY <1>12 DEF TickPush
  <1>13. CASE Decode
    BY <1>13 DEF Decode
  <1>14. CASE RunReplay
    BY <1>14 DEF RunReplay, CloseFFDecode, DoClear
  <1>15. CASE RunReconnect
    BY <1>15 DEF RunReconnect
  <1>16. CASE OpenDone
    BY <1>16 DEF OpenDone
  <1>17. CASE OpenFailed
    BY <1>17 DEF OpenFailed, Capped, CloseFFDecode, DoClear
  <1>18. CASE OpenedSeek
    BY <1>18 DEF OpenedSeek
  <1>19. CASE NoSeek
    BY <1>19 DEF NoSeek, RunRead
  <1>20. CASE Seek
    BY <1>20 DEF Seek, RunRead
  <1>21. CASE SeekClear
    BY <1>21 DEF SeekClear, DoClear
  <1>22. CASE SeekAtEnd
    BY <1>22 DEF SeekAtEnd, RunRead, DoClear
  <1>23. CASE CheckNotEnded
    BY <1>23 DEF CheckNotEnded
  <1>24. CASE CheckClose
    BY <1>24 DEF CheckClose, Capped, CloseFFDecode, DoClear
  <1>25. CASE CheckWait
    BY <1>25 DEF CheckWait, DoClear
  <1>26. CASE Fill
    BY <1>26 DEF Fill
  <1>27. CASE ReadPacket
    BY <1>27 DEF ReadPacket
  <1>28. CASE ReadEof
    BY <1>28 DEF ReadEof
  <1>29. CASE ReadFailed
    BY <1>29 DEF ReadFailed
  <1>30. CASE RunEnd
    BY <1>30 DEF RunEnd, Capped, CloseFFDecode, DoClear
  <1>31. CASE RunReconnectTimer
    BY <1>31 DEF RunReconnectTimer
  <1>32. CASE Silence
    BY <1>32 DEF Silence
  <1>33. CASE \E zero \in BOOLEAN : SetCacheParams(zero)
    BY <1>33 DEF SetCacheParams
  <1>34. CASE UNCHANGED vars
    BY <1>34 DEF vars
  <1> QED
    BY <1>1, <1>2, <1>3, <1>4, <1>5, <1>6, <1>7, <1>8, <1>9, <1>10, <1>11, <1>12, <1>13, <1>14,
       <1>15, <1>16, <1>17, <1>18, <1>19, <1>20, <1>21, <1>22, <1>23, <1>24, <1>25, <1>26,
       <1>27, <1>28, <1>29, <1>30, <1>31, <1>32, <1>33, <1>34 DEF Next, Application,
       Tick, Run

\* Each closing reported uses up the opening, or the rePlay, that made it possible.
LEMMA CountStep == TypeOK /\ Task /\ Count /\ [Next]_vars => Count'
  <1> SUFFICES ASSUME TypeOK, Task, Count, [Next]_vars PROVE Count'
    OBVIOUS
  <1> USE LivePlayAssumption DEF Task, Count, Closable, One, HistTypes, TypeOK, CallTypes,
       ReadTypes, BufferTypes, Empty, Some, Full, callVars, readVars, bufVars, histVars
  <1>1. CASE \E kind \in Kinds : StartPlay(kind)
    BY <1>1 DEF StartPlay, Fresh
  <1>2. CASE StopPlay
    BY <1>2 DEF StopPlay
  <1>3. CASE StopDone
    BY <1>3 DEF StopDone, DoClear
  <1>4. CASE PauseAudio
    BY <1>4 DEF PauseAudio
  <1>5. CASE PauseVideo
    BY <1>5 DEF PauseVideo
  <1>6. CASE SeekTo
    BY <1>6 DEF SeekTo
  <1>7. CASE RePlay
    BY <1>7 DEF RePlay, Capped
  <1>8. CASE TickReset
    BY <1>8 DEF TickReset, TakeOld
  <1>9. CASE TickCaching
    BY <1>9 DEF TickCaching, TakeOld
  <1>10. CASE TickPlaying
    BY <1>10 DEF TickPlaying, TakeOld
  <1>11. CASE TickTake
    BY <1>11 DEF TickTake
  <1>12. CASE TickPush
    BY <1>12 DEF TickPush
  <1>13. CASE Decode
    BY <1>13 DEF Decode
  <1>14. CASE RunReplay
    BY <1>14 DEF RunReplay, CloseFFDecode, DoClear
  <1>15. CASE RunReconnect
    BY <1>15 DEF RunReconnect
  <1>16. CASE OpenDone
    BY <1>16 DEF OpenDone
  <1>17. CASE OpenFailed
    BY <1>17 DEF OpenFailed, Capped, CloseFFDecode, DoClear
  <1>18. CASE OpenedSeek
    BY <1>18 DEF OpenedSeek
  <1>19. CASE NoSeek
    BY <1>19 DEF NoSeek, RunRead
  <1>20. CASE Seek
    BY <1>20 DEF Seek, RunRead
  <1>21. CASE SeekClear
    BY <1>21 DEF SeekClear, DoClear
  <1>22. CASE SeekAtEnd
    BY <1>22 DEF SeekAtEnd, RunRead, DoClear
  <1>23. CASE CheckNotEnded
    BY <1>23 DEF CheckNotEnded
  <1>24. CASE CheckClose
    BY <1>24 DEF CheckClose, Capped, CloseFFDecode, DoClear
  <1>25. CASE CheckWait
    BY <1>25 DEF CheckWait, DoClear
  <1>26. CASE Fill
    BY <1>26 DEF Fill
  <1>27. CASE ReadPacket
    BY <1>27 DEF ReadPacket
  <1>28. CASE ReadEof
    BY <1>28 DEF ReadEof
  <1>29. CASE ReadFailed
    BY <1>29 DEF ReadFailed
  <1>30. CASE RunEnd
    BY <1>30 DEF RunEnd, Capped, CloseFFDecode, DoClear
  <1>31. CASE RunReconnectTimer
    BY <1>31 DEF RunReconnectTimer
  <1>32. CASE Silence
    BY <1>32 DEF Silence
  <1>33. CASE \E zero \in BOOLEAN : SetCacheParams(zero)
    BY <1>33 DEF SetCacheParams
  <1>34. CASE UNCHANGED vars
    BY <1>34 DEF vars
  <1> QED
    BY <1>1, <1>2, <1>3, <1>4, <1>5, <1>6, <1>7, <1>8, <1>9, <1>10, <1>11, <1>12, <1>13, <1>14,
       <1>15, <1>16, <1>17, <1>18, <1>19, <1>20, <1>21, <1>22, <1>23, <1>24, <1>25, <1>26,
       <1>27, <1>28, <1>29, <1>30, <1>31, <1>32, <1>33, <1>34 DEF Next, Application,
       Tick, Run

\* The initial state satisfies the invariant.
LEMMA InitIInv == Init => IInv
  <1> SUFFICES ASSUME Init PROVE IInv
    OBVIOUS
  <1> USE DEF Init, Empty, Some, Full
  <1>1. CallTypes /\ ReadTypes
    BY DEF CallTypes, ReadTypes
  <1>2. BufferTypes
    BY DEF BufferTypes
  <1>3. HistTypes
    <2>1. 0 \in 0..MaxCloses
      BY LivePlayAssumption
    <2> QED
      BY <2>1 DEF HistTypes
  <1>4. Task /\ Source
    BY DEF Task, Source
  <1>5. Count
    BY DEF Count, Closable, One
  <1> QED
    BY <1>1, <1>2, <1>3, <1>4, <1>5 DEF IInv, TypeOK

\* IInv is inductive.
THEOREM Inductive == Spec => []IInv
  <1>1. IInv /\ [Next]_vars => IInv'
    BY CallTypesStep, ReadTypesStep, BufferTypesStep, HistTypesStep, TaskStep, SourceStep,
       CountStep DEF IInv, TypeOK
  <1> QED
    BY <1>1, InitIInv, PTL DEF Spec

\* For every set of sources and calls, every variable keeps its type.
THEOREM TypeCorrect == Spec => []TypeOK
  BY Inductive, PTL DEF IInv

\* With a start threshold, Loading is reported only of a source that was opened, and so
\* after Playing.
THEOREM FirstLoadingSilent == Spec => []LoadingAfterPlaying
  <1>1. IInv => LoadingAfterPlaying
    BY DEF IInv, Source, LoadingAfterPlaying
  <1> QED
    BY <1>1, Inductive, PTL

\* A stop is reported once, and once more at most for each rePlay.
THEOREM StopsCounted == Spec => []OneStopPerPlay
  <1>1. IInv => OneStopPerPlay
    BY LivePlayAssumption DEF IInv, TypeOK, HistTypes, Count, Closable, One, OneStopPerPlay
  <1> QED
    BY <1>1, Inductive, PTL

\* A stopped player holds neither packets nor a source.
THEOREM StoppedEmpty == Spec => []StoppedIsEmpty
  <1>1. IInv => StoppedIsEmpty
    BY DEF IInv, Task, StoppedIsEmpty
  <1> QED
    BY <1>1, Inductive, PTL
=============================================================================
