-------------------------- MODULE LivePlayLiveness --------------------------
(***************************************************************************)
(* What LivePlay does in the end, for every set of sources and calls:      *)
(* stopPlay returns, a source that was lost is opened again, and one that  *)
(* has ended is played out and closed.  As in LivePushLiveness the         *)
(* fairness of LiveSpec is restated with the guards written out, of each   *)
(* action the proofs need.                                                 *)
(***************************************************************************)
EXTENDS LivePlayProofs

Weak(guard, A) == []<>~guard \/ []<><<A>>_vars
Strong(guard, A) == <>[]~guard \/ []<><<A>>_vars

TickFair ==
  /\ Weak(Ticks /\ reset, TickReset)
  /\ Weak(tick, TickPush)
  /\ Strong(Ticks /\ dec, Decode)
  /\ Strong(Ticks /\ ~reset /\ play = "Playing" /\ ~Paused /\ recv # Empty,
            TickTake /\ recv' < recv)

OpenFair ==
  /\ Weak(rd = "loop" /\ running /\ replay, RunReplay)
  /\ Weak(rd = "loop" /\ running /\ ~replay /\ ~fmt /\ reconnect = "due", RunReconnect)
  /\ Weak(reconnect = "wait", RunReconnectTimer)
  /\ Weak(rd = "open", OpenDone \/ OpenFailed)
  /\ Weak(rd = "opened", OpenedSeek)

ReadFair ==
  /\ Weak(RunRead /\ ~(seek /\ task = "vod"), NoSeek)
  /\ Weak(rd \in {"seek", "seekopen"}, SeekClear)
  /\ Weak(RunRead /\ seek /\ task = "vod" /\ eof, SeekAtEnd)
  /\ Weak(rd = "check" /\ ~AtEnd, CheckNotEnded)
  /\ Weak(rd = "check" /\ AtEnd /\ BufferIsEmpty, CheckClose)
  /\ Weak(rd = "check" /\ AtEnd /\ ~BufferIsEmpty, CheckWait)
  /\ Weak(rd = "fill", Fill)
  /\ Strong(rd = "read" /\ ~running, Run /\ rd = "read" /\ rd' = "loop" /\ ~running)

StopFair ==
  /\ Weak(stopping /\ rd = "off", StopDone)
  /\ Weak(rd = "loop" /\ ~running, RunEnd)

GuardFairness == TickFair /\ OpenFair /\ ReadFair /\ StopFair

-----------------------------------------------------------------------------
\* The read thread runs as long as the task does, and has not given up silently.
Alive ==
  /\ running => rd # "off" /\ task # "none" /\ ~stopping
  /\ running /\ ~notified => reconnect # "none"

\* An ended source is known to be at its end, and nothing more is read from it.
Ended ==
  /\ ended => eof
  /\ rd \in {"fill", "read", "seek"} => ~eof
  /\ rd \in {"opened", "seekopen"} => ~ended

LInv == IInv /\ Alive /\ Ended

\* The read thread rests only with its task.
LEMMA AliveStep == TypeOK /\ Task /\ Alive /\ [Next]_vars => Alive'
  <1> SUFFICES ASSUME TypeOK, Task, Alive, [Next]_vars PROVE Alive'
    OBVIOUS
  <1> USE DEF Task, Alive, EngineFree, TypeOK, CallTypes, ReadTypes
  <1>1. CASE \E kind \in Kinds : StartPlay(kind)
    BY <1>1, LivePlayAssumption DEF StartPlay, Fresh
  <1>2. CASE StopPlay
    BY <1>2 DEF StopPlay
  <1>3. CASE StopDone
    BY <1>3 DEF StopDone
  <1>4. CASE RunReplay \/ RunReconnect \/ OpenDone \/ OpenedSeek
    BY <1>4 DEF RunReplay, RunReconnect, OpenDone, OpenedSeek, callVars
  <1>5. CASE OpenFailed
    BY <1>5 DEF OpenFailed, callVars
  <1>6. CASE NoSeek \/ Seek \/ SeekClear \/ SeekAtEnd
    BY <1>6 DEF NoSeek, Seek, SeekClear, SeekAtEnd, RunRead, callVars
  <1>7. CASE CheckNotEnded \/ CheckWait
    BY <1>7 DEF CheckNotEnded, CheckWait, callVars
  <1>8. CASE CheckClose
    BY <1>8 DEF CheckClose, callVars
  <1>9. CASE Fill \/ ReadPacket \/ ReadEof \/ ReadFailed
    BY <1>9 DEF Fill, ReadPacket, ReadEof, ReadFailed, callVars
  <1>10. CASE RunEnd
    BY <1>10 DEF RunEnd, callVars
  <1>11. CASE RunReconnectTimer
    BY <1>11 DEF RunReconnectTimer, callVars
  <1>12. CASE UNCHANGED <<running, rd, task, stopping, notified, reconnect>>
    BY <1>12
  <1> HIDE DEF Task, Alive, EngineFree, TypeOK, CallTypes, ReadTypes
  <1>13. CASE \/ PauseAudio \/ PauseVideo \/ SeekTo \/ RePlay
               \/ \E zero \in BOOLEAN : SetCacheParams(zero)
    BY <1>12, <1>13 DEF PauseAudio, PauseVideo, SeekTo, RePlay, SetCacheParams, readVars
  <1>14. CASE Tick \/ Silence \/ UNCHANGED vars
    BY <1>12, <1>14 DEF Tick, TickReset, TickCaching, TickPlaying, TickTake, TickPush, Decode,
       Silence, vars, callVars, readVars
  <1> QED
    BY <1>1, <1>2, <1>3, <1>4, <1>5, <1>6, <1>7, <1>8, <1>9, <1>10, <1>11, <1>13, <1>14
    DEF Next, Application, Run

\* What is known of the end of the source.
LEMMA EndedStep == TypeOK /\ Ended /\ [Next]_vars => Ended'
  <1> SUFFICES ASSUME TypeOK, Ended, [Next]_vars PROVE Ended'
    OBVIOUS
  <1> USE DEF Ended, TypeOK, ReadTypes
  <1>1. CASE \E kind \in Kinds : StartPlay(kind)
    BY <1>1 DEF StartPlay, Fresh
  <1>2. CASE RunReplay \/ RunReconnect \/ OpenDone \/ OpenedSeek
    BY <1>2 DEF RunReplay, RunReconnect, OpenDone, OpenedSeek, histVars
  <1>3. CASE OpenFailed
    BY <1>3 DEF OpenFailed
  <1>4. CASE NoSeek \/ Seek \/ SeekClear \/ SeekAtEnd
    BY <1>4 DEF NoSeek, Seek, SeekClear, SeekAtEnd, RunRead, histVars
  <1>5. CASE CheckNotEnded \/ CheckWait
    BY <1>5 DEF CheckNotEnded, CheckWait, AtEnd, histVars
  <1>6. CASE CheckClose
    BY <1>6 DEF CheckClose
  <1>7. CASE Fill \/ ReadPacket \/ ReadEof \/ ReadFailed
    BY <1>7 DEF Fill, ReadPacket, ReadEof, ReadFailed, histVars
  <1>8. CASE RunEnd
    BY <1>8 DEF RunEnd
  <1>9. CASE UNCHANGED <<rd, eof, ended>>
    BY <1>9
  <1> QED
    BY <1>1, <1>2, <1>3, <1>4, <1>5, <1>6, <1>7, <1>8, <1>9
    DEF Next, Application, Tick, Run, vars, readVars, histVars, StopPlay, StopDone, PauseAudio,
       PauseVideo, SeekTo, RePlay, SetCacheParams, TickReset, TickCaching, TickPlaying, TickTake,
       TickPush, Decode, RunReconnectTimer, Silence

\* What the liveness proofs rest on holds throughout.
LEMMA LInductive == Spec => []LInv
  <1>1. Init => Alive /\ Ended
    BY DEF Init, Alive, Ended
  <1>2. IInv /\ Alive /\ Ended /\ [Next]_vars => (Alive /\ Ended)'
    BY AliveStep, EndedStep DEF IInv
  <1> QED
    BY <1>1, <1>2, Inductive, PTL DEF Spec, LInv

-----------------------------------------------------------------------------
\* While stopPlay waits, only the read thread moves.
LEMMA StoppingStep ==
  LInv /\ stopping /\ [Next]_vars =>
    \/ StopDone
    \/ Run /\ UNCHANGED <<stopping, running>>
    \/ /\ UNCHANGED <<stopping, running, rd, recv, dec, eof>>
       /\ heard' = heard \/ heard' = "stale"
  <1> SUFFICES ASSUME stopping, ~tick, ~running, [Next]_vars
               PROVE  \/ StopDone
                      \/ Run /\ UNCHANGED <<stopping, running>>
                      \/ /\ UNCHANGED <<stopping, running, rd, recv, dec, eof>>
                         /\ heard' = heard \/ heard' = "stale"
    BY DEF LInv, IInv, Task
  <1>1. CASE Application
    BY <1>1 DEF Application, StartPlay, StopPlay, PauseAudio, PauseVideo, SeekTo, RePlay,
       SetCacheParams, EngineFree
  <1>2. ~Tick
    BY DEF Tick, TickReset, TickCaching, TickPlaying, TickTake, TickPush, Decode, Ticks,
       EngineFree
  <1>3. CASE Run
    BY <1>3 DEF Run, RunReplay, RunReconnect, OpenDone, OpenFailed, OpenedSeek, NoSeek, Seek,
       SeekClear, SeekAtEnd, CheckNotEnded, CheckClose, CheckWait, Fill, ReadPacket, ReadEof,
       ReadFailed, RunEnd, callVars
  <1>4. CASE RunReconnectTimer \/ Silence \/ UNCHANGED vars
    BY <1>4 DEF RunReconnectTimer, Silence, vars, callVars, readVars, bufVars
  <1> QED
    BY <1>1, <1>2, <1>3, <1>4 DEF Next

\* Where the read thread goes from each of its places once it is told to end.
Passes ==
  {<<"open", "opened">>, <<"open", "loop">>, <<"opened", "seekopen">>, <<"opened", "loop">>,
   <<"seekopen", "loop">>, <<"seek", "check">>, <<"check", "fill">>, <<"check", "loop">>,
   <<"fill", "read">>, <<"fill", "loop">>, <<"read", "fill">>, <<"read", "loop">>,
   <<"loop", "off">>}

LEMMA StoppingPasses ==
  LInv /\ stopping /\ [Next]_vars =>
    \/ ~stopping'
    \/ stopping' /\ rd' = rd
    \/ stopping' /\ <<rd, rd'>> \in Passes
  <1> SUFFICES ASSUME stopping, ~running, [Next]_vars,
                      StopDone \/ (Run /\ UNCHANGED <<stopping, running>>)
                        \/ UNCHANGED <<stopping, running, rd, recv, dec, eof>>
               PROVE  \/ ~stopping'
                      \/ stopping' /\ rd' = rd
                      \/ stopping' /\ <<rd, rd'>> \in Passes
    BY StoppingStep DEF LInv, IInv, Task
  <1>1. CASE StopDone
    BY <1>1 DEF StopDone
  <1>2. CASE Run /\ UNCHANGED <<stopping, running>>
    BY <1>2 DEF Run, RunReplay, RunReconnect, RunRead, OpenDone, OpenFailed, OpenedSeek,
       NoSeek, Seek, SeekClear, SeekAtEnd, CheckNotEnded, CheckClose, CheckWait, Fill,
       ReadPacket, ReadEof, ReadFailed, RunEnd, Passes
  <1> QED
    BY <1>1, <1>2

\* What is at its end stays so while stopPlay waits, and an emptied buffer stays empty.
LEMMA StoppingChecks ==
  LInv /\ stopping /\ rd = "check" /\ [Next]_vars =>
    \/ ~stopping' \/ rd' # "check"
    \/ (AtEnd => AtEnd') /\ BufferIsEmpty' = BufferIsEmpty
  <1> SUFFICES ASSUME LInv, stopping, rd = "check", [Next]_vars
               PROVE  \/ ~stopping' \/ rd' # "check"
                      \/ (AtEnd => AtEnd') /\ BufferIsEmpty' = BufferIsEmpty
    OBVIOUS
  <1>1. CASE StopDone
    BY <1>1 DEF StopDone
  <1>2. CASE Run
    BY <1>2 DEF Run, RunReplay, RunReconnect, RunRead, OpenDone, OpenFailed, OpenedSeek,
       NoSeek, Seek, SeekClear, SeekAtEnd, CheckNotEnded, CheckClose, CheckWait, Fill,
       ReadPacket, ReadEof, ReadFailed, RunEnd
  <1>3. CASE UNCHANGED <<recv, dec, eof>> /\ (heard' = heard \/ heard' = "stale")
    BY <1>3 DEF AtEnd, BufferIsEmpty
  <1> QED
    BY StoppingStep, <1>1, <1>2, <1>3

\* stopPlay returns, whatever the read thread is doing when it is called: an attempt to open
\* ends, the loop over the packets is left, and the thread ends at its next pass.
THEOREM StopsInTheEnd == Spec /\ GuardFairness => StopReturns
  <1> DEFINE At(x) == stopping /\ rd = x
             Gone == ~stopping
             More == At("check") /\ ~AtEnd
             Last == At("check") /\ AtEnd /\ BufferIsEmpty
             Rest == At("check") /\ AtEnd /\ ~BufferIsEmpty
  <1> USE StoppingPasses DEF Passes
  <1>1. LInv /\ At("open") /\ [Next]_vars
          => (At("open") \/ At("opened") \/ At("loop") \/ Gone)'
    OBVIOUS
  <1>2. LInv /\ At("opened") /\ [Next]_vars
          => (At("opened") \/ At("seekopen") \/ At("loop") \/ Gone)'
    OBVIOUS
  <1>3. LInv /\ At("seekopen") /\ [Next]_vars => (At("seekopen") \/ At("loop") \/ Gone)'
    OBVIOUS
  <1>4. LInv /\ At("seek") /\ [Next]_vars => (At("seek") \/ At("check") \/ Gone)'
    OBVIOUS
  <1>5. LInv /\ At("check") /\ [Next]_vars
          => (At("check") \/ At("fill") \/ At("loop") \/ Gone)'
    OBVIOUS
  <1>6. LInv /\ At("fill") /\ [Next]_vars => (At("fill") \/ At("read") \/ At("loop") \/ Gone)'
    OBVIOUS
  <1>7. LInv /\ At("read") /\ [Next]_vars => (At("read") \/ At("fill") \/ At("loop") \/ Gone)'
    OBVIOUS
  <1>8. LInv /\ At("loop") /\ [Next]_vars => (At("loop") \/ At("off") \/ Gone)'
    OBVIOUS
  <1>9. LInv /\ At("off") /\ [Next]_vars => (At("off") \/ Gone)'
    OBVIOUS
  <1>10. LInv /\ Last /\ [Next]_vars => (Last \/ ~At("check"))'
    BY StoppingChecks
  <1>11. LInv /\ Rest /\ [Next]_vars => (Rest \/ ~At("check"))'
    BY StoppingChecks
  <1>12. /\ At("open") => rd = "open"
         /\ At("opened") => rd = "opened"
         /\ At("seekopen") \/ At("seek") => rd \in {"seek", "seekopen"}
         /\ More => rd = "check" /\ ~AtEnd
         /\ Last => rd = "check" /\ AtEnd /\ BufferIsEmpty
         /\ Rest => rd = "check" /\ AtEnd /\ ~BufferIsEmpty
         /\ At("fill") => rd = "fill"
         /\ LInv /\ At("read") => rd = "read" /\ ~running
         /\ LInv /\ At("loop") => rd = "loop" /\ ~running
         /\ At("off") => stopping /\ rd = "off"
         /\ At("check") <=> More \/ Last \/ Rest
    BY DEF LInv, IInv, Task
  <1>13. /\ At("open") /\ <<OpenDone \/ OpenFailed>>_vars => ~At("open")'
         /\ At("opened") /\ <<OpenedSeek>>_vars => ~At("opened")'
         /\ At("seekopen") /\ <<SeekClear>>_vars => ~At("seekopen")'
         /\ At("seek") /\ <<SeekClear>>_vars => ~At("seek")'
    BY DEF OpenDone, OpenFailed, OpenedSeek, SeekClear
  <1>14. /\ At("check") /\ <<CheckNotEnded>>_vars => ~At("check")'
         /\ At("check") /\ <<CheckClose>>_vars => ~At("check")'
         /\ At("check") /\ <<CheckWait>>_vars => ~At("check")'
    BY DEF CheckNotEnded, CheckClose, CheckWait
  <1>15. /\ At("fill") /\ <<Fill>>_vars => ~At("fill")'
         /\ <<Run /\ rd = "read" /\ rd' = "loop" /\ ~running>>_vars
              => ~At("fill")' /\ ~At("read")'
         /\ At("loop") /\ <<RunEnd>>_vars => ~At("loop")'
         /\ At("off") /\ <<StopDone>>_vars => ~At("off")'
    BY DEF Fill, RunEnd, StopDone
  <1>16. LInv /\ stopping => \/ At("open") \/ At("opened") \/ At("seekopen") \/ At("seek")
                             \/ More \/ Last \/ Rest \/ At("fill") \/ At("read")
                             \/ At("loop") \/ At("off")
    BY DEF LInv, IInv, TypeOK, ReadTypes
  <1> HIDE DEF Passes, At, More, Last, Rest, LInv, StopDone, OpenDone, OpenFailed, OpenedSeek,
       SeekClear, CheckNotEnded, CheckClose, CheckWait, Fill, Run, RunEnd
  <1>17. Spec /\ GuardFairness => (At("loop") \/ At("off") ~> Gone)
    BY <1>8, <1>9, <1>12, <1>15, LInductive, PTL DEF Spec, GuardFairness, StopFair, Weak
  <1>18. Spec /\ GuardFairness => (At("fill") \/ At("read") ~> At("loop") \/ Gone)
    BY <1>6, <1>7, <1>12, <1>15, LInductive, PTL
    DEF Spec, GuardFairness, ReadFair, Weak, Strong
  <1>19. Spec /\ GuardFairness => (At("check") ~> At("fill") \/ At("loop") \/ Gone)
    BY <1>5, <1>10, <1>11, <1>12, <1>14, LInductive, PTL DEF Spec, GuardFairness, ReadFair, Weak
  <1>20. Spec /\ GuardFairness => (At("seek") ~> At("check") \/ Gone)
    BY <1>4, <1>12, <1>13, LInductive, PTL DEF Spec, GuardFairness, ReadFair, Weak
  <1>21. Spec /\ GuardFairness
          => (At("open") \/ At("opened") \/ At("seekopen") ~> At("loop") \/ Gone)
    BY <1>1, <1>2, <1>3, <1>12, <1>13, LInductive, PTL
    DEF Spec, GuardFairness, OpenFair, ReadFair, Weak
  <1> QED
    BY <1>12, <1>16, <1>17, <1>18, <1>19, <1>20, <1>21, LInductive, PTL DEF StopReturns

-----------------------------------------------------------------------------
\* The read thread is at rest without a source, and the observer has not been told.
Lost == running /\ ~fmt /\ ~notified /\ rd = "loop"

\* It leaves that place only to open the source, and its timer only runs towards that.
LEMMA LostStep ==
  LInv /\ Lost /\ [Next]_vars =>
    \/ (rd = "open" \/ ~running)'
    \/ Lost' /\ reconnect' \in {reconnect, "due"} /\ (replay => replay')
  <1> SUFFICES ASSUME running, ~fmt, ~notified, rd = "loop", task # "none", [Next]_vars
               PROVE  \/ rd' = "open" \/ ~running'
                      \/ Lost' /\ reconnect' \in {reconnect, "due"} /\ (replay => replay')
    BY DEF Lost, LInv, Alive
  <1>1. CASE Application
    BY <1>1 DEF Application, StartPlay, StopPlay, StopDone, PauseAudio, PauseVideo, SeekTo,
       RePlay, SetCacheParams, Lost, readVars
  <1>2. CASE Tick
    BY <1>2 DEF Tick, TickReset, TickCaching, TickPlaying, TickTake, TickPush, Decode, Lost,
       callVars, readVars
  <1>3. CASE Run
    BY <1>3 DEF Run, RunReplay, RunReconnect, RunRead, OpenDone, OpenFailed, OpenedSeek,
       NoSeek, Seek, SeekClear, SeekAtEnd, CheckNotEnded, CheckClose, CheckWait, Fill,
       ReadPacket, ReadEof, ReadFailed, RunEnd
  <1>4. CASE RunReconnectTimer \/ Silence \/ UNCHANGED vars
    BY <1>4 DEF RunReconnectTimer, Silence, Lost, vars, callVars, readVars
  <1> QED
    BY <1>1, <1>2, <1>3, <1>4 DEF Next

\* The read thread does not rest without a source unless the observer was told.
THEOREM OpensAgain == Spec /\ GuardFairness => NeverSilentlyClosed
  <1> DEFINE Waits == Lost /\ reconnect = "wait"
             Due == Lost /\ reconnect = "due"
             Asked == Lost /\ reconnect = "due" /\ replay
             Over == rd = "open" \/ ~running
  <1>1. LInv /\ Waits /\ [Next]_vars => (Waits \/ Due \/ Over)'
    BY LostStep
  <1>2. LInv /\ Due /\ [Next]_vars => (Due \/ Over)'
    BY LostStep
  <1>3. LInv /\ Asked /\ [Next]_vars => (Asked \/ Over)'
    BY LostStep
  <1>4. /\ <<RunReconnectTimer>>_vars => ~Waits'
        /\ <<RunReconnect>>_vars => ~Due'
        /\ <<RunReplay>>_vars => ~Asked'
    BY DEF RunReconnectTimer, RunReconnect, RunReplay, Lost
  <1>5. /\ Waits => reconnect = "wait"
        /\ Due /\ ~Asked => rd = "loop" /\ running /\ ~replay /\ ~fmt /\ reconnect = "due"
        /\ Asked => rd = "loop" /\ running /\ replay
        /\ Asked => Due
    BY DEF Lost
  <1>6. LInv /\ running /\ ~fmt /\ ~notified => Waits \/ Due \/ Over
    BY DEF LInv, IInv, TypeOK, ReadTypes, Task, Alive, Lost
  <1> HIDE DEF Waits, Due, Asked, LInv
  <1>7. Spec /\ GuardFairness => (Asked ~> Over)
    BY <1>3, <1>4, <1>5, LInductive, PTL DEF Spec, GuardFairness, OpenFair, Weak
  <1>8. Spec /\ GuardFairness => (Due ~> Asked \/ Over)
    BY <1>2, <1>4, <1>5, LInductive, PTL DEF Spec, GuardFairness, OpenFair, Weak
  <1>9. Spec /\ GuardFairness => (Waits ~> Due \/ Over)
    BY <1>1, <1>4, <1>5, LInductive, PTL DEF Spec, GuardFairness, OpenFair, Weak
  <1> QED
    BY <1>6, <1>7, <1>8, <1>9, LInductive, PTL DEF NeverSilentlyClosed

-----------------------------------------------------------------------------
\* A source that has ended is being played out: only a pause or a stop is in the way.
PlayingOut == fmt /\ ended /\ running /\ ~Paused

\* What may happen meanwhile: a tick; a pass of the read thread, which reads nothing; or a
\* call that it will notice at its next pass.
OutQuiet ==
  /\ UNCHANGED <<task, rd, recv, hand, drained, tick, dec, play, reset>>
  /\ (seek => seek') /\ (replay => replay')

LEMMA OutStep ==
  LInv /\ PlayingOut /\ [Next]_vars =>
    \/ ~PlayingOut'
    \/ /\ PlayingOut'
       /\ \/ Tick /\ UNCHANGED <<task, rd, seek, replay>>
          \/ NoSeek \/ SeekAtEnd \/ CheckWait
          \/ OutQuiet
  <1> SUFFICES ASSUME LInv, PlayingOut, [Next]_vars, PlayingOut'
               PROVE  \/ Tick /\ UNCHANGED <<task, rd, seek, replay>>
                      \/ NoSeek \/ SeekAtEnd \/ CheckWait
                      \/ OutQuiet
    OBVIOUS
  <1>1. /\ fmt /\ running /\ fmt' /\ eof /\ task # "none" /\ ~stopping
        /\ rd \in {"loop", "check"} /\ ended /\ ended' /\ running'
    BY DEF LInv, IInv, TypeOK, ReadTypes, Task, Alive, Ended, PlayingOut
  <1>2. CASE Application
    BY <1>1, <1>2 DEF Application, StartPlay, StopPlay, StopDone, PauseAudio, PauseVideo,
       SeekTo, RePlay, SetCacheParams, OutQuiet, readVars, bufVars
  <1>3. CASE Tick
    BY <1>3 DEF Tick, TickReset, TickCaching, TickPlaying, TickTake, TickPush, Decode,
       callVars, readVars
  <1>4. CASE Run
    BY <1>1, <1>4 DEF Run, RunReplay, RunReconnect, RunRead, OpenDone, OpenFailed, OpenedSeek,
       Seek, SeekClear, CheckNotEnded, CheckClose, Fill, ReadPacket, ReadEof, ReadFailed,
       RunEnd, CloseFFDecode, AtEnd
  <1>5. CASE RunReconnectTimer \/ Silence \/ UNCHANGED vars
    BY <1>5 DEF RunReconnectTimer, Silence, OutQuiet, vars, callVars, readVars, bufVars
  <1> QED
    BY <1>1, <1>2, <1>3, <1>4, <1>5 DEF Next

\* The read thread comes to look at the end of the source again and again.
LEMMA ComesToCheck ==
  Spec /\ GuardFairness =>
    (PlayingOut /\ rd = "loop" ~> (PlayingOut /\ rd = "check") \/ ~PlayingOut)
  <1> DEFINE Pass == PlayingOut /\ rd = "loop"
             Anew == Pass /\ replay
             Sought == Pass /\ seek /\ task = "vod"
             Next1 == (PlayingOut /\ rd = "check") \/ ~PlayingOut
  <1> USE DEF NoSeek, SeekAtEnd, CheckWait, OutQuiet
  <1>1. LInv /\ Pass /\ [Next]_vars => (Pass \/ Next1)'
    BY OutStep
  <1>2. LInv /\ Anew /\ [Next]_vars => (Anew \/ Next1)'
    BY OutStep
  <1>3. LInv /\ Sought /\ [Next]_vars => (Sought \/ Next1)'
    BY OutStep
  <1>4. /\ <<RunReplay>>_vars => ~Pass'
        /\ <<NoSeek>>_vars => ~Pass'
        /\ <<SeekAtEnd>>_vars => ~Pass'
    BY DEF RunReplay
  <1>5. /\ Anew => rd = "loop" /\ running /\ replay
        /\ LInv /\ Sought /\ ~Anew => RunRead /\ seek /\ task = "vod" /\ eof
        /\ Pass /\ ~Sought /\ ~Anew => RunRead /\ ~(seek /\ task = "vod")
        /\ Anew \/ Sought => Pass
    BY DEF PlayingOut, RunRead, LInv, Ended
  <1>6. PlayingOut /\ rd = "loop" <=> Pass
    OBVIOUS
  <1> HIDE DEF Pass, Anew, Sought, LInv, NoSeek, SeekAtEnd, CheckWait, OutQuiet
  <1>7. Spec /\ GuardFairness => (Anew ~> Next1)
    BY <1>1, <1>2, <1>4, <1>5, LInductive, PTL DEF Spec, GuardFairness, OpenFair, Weak
  <1>8. Spec /\ GuardFairness => (Sought ~> Anew \/ Next1)
    BY <1>1, <1>3, <1>4, <1>5, LInductive, PTL DEF Spec, GuardFairness, ReadFair, Weak
  <1>9. Spec /\ GuardFairness => (Pass ~> Anew \/ Sought \/ Next1)
    BY <1>1, <1>4, <1>5, LInductive, PTL DEF Spec, GuardFairness, ReadFair, Weak
  <1> QED
    BY <1>6, <1>7, <1>8, <1>9, PTL

\* A tick ends.
LEMMA TicksEnd == Spec /\ GuardFairness => []<>~tick
  <1>1. <<TickPush>>_vars => ~tick'
    BY DEF TickPush
  <1> QED
    BY <1>1, PTL DEF GuardFairness, TickFair, Weak
-----------------------------------------------------------------------------
\* Received packets are left; Below: fewer than n of them, or no longer playing out.
Has(n) == PlayingOut /\ recv = n
Below(n) == ~PlayingOut \/ recv < n

\* No tick under way has found the lists empty, before these packets came.
Clean(n) == Has(n) /\ ~(tick /\ drained)

\* The buffer is not filled while a source is played out ...
LEMMA HasStep ==
  ASSUME NEW n \in {Some, Full}
  PROVE  LInv /\ Has(n) /\ [Next]_vars => (Has(n) \/ Below(n))'
  <1> SUFFICES ASSUME LInv, Has(n), [Next]_vars, PlayingOut'
               PROVE  recv' = n \/ recv' < n
    BY DEF Has, Below
  <1> USE DEF Has, Empty, Some, Full
  <1>1. recv = n
    OBVIOUS
  <1>2. CASE Tick
    BY <1>1, <1>2 DEF Tick, TakeOld, TickReset, TickCaching, TickPlaying, TickTake, TickPush,
       Decode
  <1>3. CASE NoSeek \/ SeekAtEnd \/ CheckWait \/ OutQuiet
    BY <1>1, <1>3 DEF NoSeek, SeekAtEnd, CheckWait, OutQuiet, DoClear, bufVars
  <1> QED
    BY OutStep, <1>2, <1>3

\* ... and a tick that starts finds what there is.
LEMMA CleanStep ==
  ASSUME NEW n \in {Some, Full}
  PROVE  LInv /\ Clean(n) /\ [Next]_vars => (Clean(n) \/ Below(n))'
  <1> SUFFICES ASSUME LInv, Clean(n), [Next]_vars, PlayingOut', Has(n)'
               PROVE  ~(tick' /\ drained')
    BY HasStep DEF Clean, Below
  <1> USE DEF Has, Clean, Empty, Some, Full
  <1>1. CASE Tick
    <2>1. CASE TickTake
      <3>1. (recv = Empty) = FALSE
        OBVIOUS
      <3>2. drained' = (recv = Empty)
        BY <2>1 DEF TickTake
      <3> QED
        BY <3>1, <3>2, Zenon
    <2>2. CASE TickPush
      BY <2>2 DEF TickPush
    <2> QED
      BY <1>1, <2>1, <2>2 DEF Tick, TickReset, TickCaching, TickPlaying, Decode
  <1>2. CASE NoSeek \/ SeekAtEnd \/ CheckWait \/ OutQuiet
    BY <1>2 DEF NoSeek, SeekAtEnd, CheckWait, OutQuiet, bufVars
  <1> QED
    BY OutStep, <1>1, <1>2

\* Packets that are being played, or are too few to start playing.
Plays(n) == Clean(n) /\ play = "Playing"
Idles(n) == Clean(n) /\ play # "Playing"

\* A tick never stops playing while there are packets ...
LEMMA PlaysStep ==
  ASSUME NEW n \in {Some, Full}
  PROVE  LInv /\ Plays(n) /\ [Next]_vars => (Plays(n) \/ Below(n))'
  <1> SUFFICES ASSUME LInv, Clean(n), play = "Playing", [Next]_vars, PlayingOut'
               PROVE  play' = "Playing"
    BY CleanStep DEF Plays, Below
  <1>1. CASE Tick
    BY <1>1 DEF Tick, TickReset, TickCaching, TickPlaying, TickTake, TickPush, Decode, Clean
  <1>2. CASE NoSeek \/ SeekAtEnd \/ CheckWait \/ OutQuiet
    BY <1>2 DEF NoSeek, SeekAtEnd, CheckWait, OutQuiet, bufVars
  <1> QED
    BY OutStep, <1>1, <1>2 DEF Clean, Has

\* ... and each packet's time comes: a tick takes it once the clock has been set.
LEMMA PlaysDown ==
  ASSUME NEW n \in {Some, Full}
  PROVE  Spec /\ GuardFairness => (Plays(n) ~> Below(n))
  <1> DEFINE Resets == Plays(n) /\ ~tick /\ reset
             Takes == Plays(n) /\ ~tick /\ ~reset
  <1>1. LInv /\ Plays(n) /\ [Next]_vars => (Plays(n) \/ Below(n))'
    BY PlaysStep
  <1>2. LInv /\ Resets /\ [Next]_vars => (Resets \/ Takes \/ Below(n))'
    <2> SUFFICES ASSUME LInv, Plays(n), ~tick, reset, [Next]_vars, PlayingOut'
                 PROVE  ~tick'
      BY PlaysStep DEF Below
    <2>1. CASE Tick
      BY <2>1 DEF Tick, TickReset, TickCaching, TickPlaying, TickTake, TickPush, Decode
    <2>2. CASE NoSeek \/ SeekAtEnd \/ CheckWait \/ OutQuiet
      BY <2>2 DEF NoSeek, SeekAtEnd, CheckWait, OutQuiet, bufVars
    <2> QED
      BY OutStep, <2>1, <2>2 DEF Plays, Clean, Has
  <1>3. <<TickReset>>_vars => ~Resets'
    BY DEF TickReset
  <1>4. LInv /\ Plays(n) /\ <<TickTake /\ recv' < recv>>_vars => Below(n)'
    BY DEF Plays, Clean, Has, Below
  <1>5. /\ LInv /\ Resets => Ticks /\ reset
        /\ LInv /\ Takes => Ticks /\ ~reset /\ play = "Playing" /\ ~Paused /\ recv # Empty
    BY DEF Plays, Clean, Has, PlayingOut, Ticks, EngineFree, LInv, Alive, Empty, Some, Full
  <1>6. Plays(n) /\ ~tick => Resets \/ Takes
    OBVIOUS
  <1> HIDE DEF Resets, Takes, Plays, Below, LInv
  <1>7. Spec /\ GuardFairness => (Resets ~> Takes \/ Below(n))
    BY <1>2, <1>3, <1>5, LInductive, PTL DEF Spec, GuardFairness, TickFair, Weak
  <1>8. Spec /\ GuardFairness => (Plays(n) ~> Takes \/ Below(n))
    BY <1>1, <1>6, <1>7, TicksEnd, LInductive, PTL DEF Spec
  <1> QED
    BY <1>1, <1>4, <1>5, <1>8, LInductive, PTL DEF Spec, GuardFairness, TickFair, Strong

\* Too few packets to start playing are dropped when the read thread looks at the end.
LEMMA IdlesDown ==
  ASSUME NEW n \in {Some, Full}
  PROVE  Spec /\ GuardFairness => (Idles(n) ~> Plays(n) \/ Below(n))
  <1> DEFINE Looks == Idles(n) /\ rd = "check"
             Next1 == Plays(n) \/ Below(n)
  <1>1. LInv /\ Idles(n) /\ [Next]_vars => (Idles(n) \/ Next1)'
    BY CleanStep DEF Idles, Plays
  <1>2. LInv /\ Looks /\ [Next]_vars => (Looks \/ Next1)'
    <2> SUFFICES ASSUME LInv, Looks, [Next]_vars, PlayingOut'
                 PROVE  rd' = "check" \/ Below(n)'
      BY <1>1 DEF Below
    <2>1. CASE CheckWait
      <3>1. recv' = Empty
        BY <2>1 DEF CheckWait, DoClear, Idles
      <3> QED
        BY <3>1 DEF Below, Empty, Some, Full
    <2>2. CASE NoSeek \/ SeekAtEnd \/ OutQuiet
      BY <2>2 DEF NoSeek, SeekAtEnd, RunRead, OutQuiet
    <2> QED
      BY OutStep, <2>1, <2>2 DEF Idles, Clean, Has
  <1>3. LInv /\ Looks /\ <<CheckWait>>_vars => Below(n)'
    BY DEF CheckWait, DoClear, Idles, Below, Empty, Some, Full
  <1>4. LInv /\ Looks => rd = "check" /\ AtEnd /\ ~BufferIsEmpty
    BY DEF Idles, Clean, Has, PlayingOut, LInv, Ended, AtEnd, BufferIsEmpty, Empty, Some, Full
  <1>5. /\ LInv /\ Idles(n) => (PlayingOut /\ rd = "loop") \/ Looks
        /\ Idles(n) /\ rd = "check" => Looks
    BY DEF LInv, IInv, TypeOK, ReadTypes, Task, Alive, Ended, Idles, Clean, Has, PlayingOut
  <1>6. ~PlayingOut => Next1
    BY DEF Below
  <1> HIDE DEF Looks, Idles, Plays, Below, LInv
  <1>7. Spec /\ GuardFairness => (Looks ~> Next1)
    BY <1>2, <1>3, <1>4, LInductive, PTL DEF Spec, GuardFairness, ReadFair, Weak
  <1>8. Spec /\ GuardFairness => (Idles(n) ~> Looks \/ Next1)
    BY <1>1, <1>5, <1>6, ComesToCheck, LInductive, PTL DEF Spec
  <1> QED
    BY <1>7, <1>8, PTL

\* Every packet leaves the received list, one way or the other.
GoesDown(n) == Has(n) ~> Below(n)

LEMMA HasDown == ASSUME NEW n \in {Some, Full} PROVE Spec /\ GuardFairness => GoesDown(n)
  <1>1. LInv /\ Has(n) /\ [Next]_vars => (Has(n) \/ Below(n))'
    BY HasStep
  <1>2. Has(n) /\ ~tick => Clean(n)
    BY DEF Clean
  <1>3. Clean(n) => Plays(n) \/ Idles(n)
    BY DEF Plays, Idles
  <1> HIDE DEF Has, Clean, Plays, Idles, Below
  <1>4. Spec /\ GuardFairness => (Has(n) ~> Clean(n) \/ Below(n))
    BY <1>1, <1>2, TicksEnd, LInductive, PTL DEF Spec
  <1>5. Spec /\ GuardFairness => (Plays(n) ~> Below(n)) /\ (Idles(n) ~> Plays(n) \/ Below(n))
    BY PlaysDown, IdlesDown
  <1> QED
    BY <1>3, <1>4, <1>5, PTL DEF GoesDown
-----------------------------------------------------------------------------
\* Nothing is received any more; no tick holds packets; the decoders have none either.
Dry == PlayingOut /\ recv = Empty
Handed == Dry /\ ~hand
Played == Handed /\ ~dec

\* What has been emptied stays so, in this order.
LEMMA DryStep ==
  LInv /\ Dry /\ [Next]_vars =>
    \/ ~PlayingOut'
    \/ Dry' /\ (Handed => Handed') /\ (Played => Played')
  <1> SUFFICES ASSUME LInv, Dry, [Next]_vars, PlayingOut'
               PROVE  Dry' /\ (Handed => Handed') /\ (Played => Played')
    OBVIOUS
  <1> USE DEF Dry, Handed, Played
  <1>1. CASE Tick
    <2>1. CASE TickPush
      <3>1. Dry' /\ ~hand' /\ dec' = (dec \/ hand)
        BY <2>1 DEF TickPush
      <3>2. Played => (dec \/ hand) = FALSE
        OBVIOUS
      <3> QED
        BY <3>1, <3>2, Zenon
    <2>2. CASE TickTake
      BY <2>2 DEF TickTake
    <2> QED
      BY <1>1, <2>1, <2>2 DEF Tick, TickReset, TickCaching, TickPlaying, TakeOld, Decode
  <1>2. CASE NoSeek \/ SeekAtEnd \/ CheckWait \/ OutQuiet
    BY <1>2 DEF NoSeek, SeekAtEnd, CheckWait, OutQuiet, DoClear, bufVars
  <1> QED
    BY OutStep, <1>1, <1>2

\* The last packets reach the decoders, which play them.
LEMMA DryPlayed == Spec /\ GuardFairness => (Dry ~> Played \/ ~PlayingOut)
  <1>1. LInv /\ Dry /\ [Next]_vars => (Dry \/ ~PlayingOut)'
    BY DryStep
  <1>2. LInv /\ Handed /\ [Next]_vars => (Handed \/ ~PlayingOut)'
    BY DryStep DEF Handed
  <1>3. LInv /\ Dry /\ ~tick => Handed
    BY DEF LInv, IInv, Task, Handed
  <1>4. Handed /\ <<Decode>>_vars => (Played \/ ~PlayingOut)'
    BY DEF Decode, Handed, Played, Dry
  <1>5. /\ LInv /\ Handed /\ ~tick /\ ~Played => Ticks /\ dec
        /\ Handed /\ ~dec => Played
    BY DEF LInv, Alive, Ticks, EngineFree, Handed, Played, Dry, PlayingOut
  <1> HIDE DEF Dry, Handed, Played, PlayingOut, LInv, Ticks
  <1>6. Spec /\ GuardFairness => (Dry ~> Handed \/ ~PlayingOut)
    BY <1>1, <1>3, TicksEnd, LInductive, PTL DEF Spec
  <1>7. Spec /\ GuardFairness => (Handed ~> Played \/ ~PlayingOut)
    BY <1>2, <1>4, <1>5, TicksEnd, LInductive, PTL DEF Spec, GuardFairness, TickFair, Strong
  <1> QED
    BY <1>6, <1>7, PTL

\* When everything has been played the read thread closes the source.
LEMMA PlayedCloses == Spec /\ GuardFairness => (Played ~> ~PlayingOut)
  <1> DEFINE Looks == Played /\ rd = "check"
  <1>1. LInv /\ Played /\ [Next]_vars => (Played \/ ~PlayingOut)'
    BY DryStep DEF Played, Handed
  <1>2. LInv /\ Looks /\ [Next]_vars => (Looks \/ ~PlayingOut)'
    <2> SUFFICES ASSUME LInv, Looks, [Next]_vars, PlayingOut'
                 PROVE  rd' = "check"
      BY <1>1
    <2>1. ~CheckWait
      BY DEF CheckWait, BufferIsEmpty, Played, Handed, Dry
    <2>2. CASE NoSeek \/ SeekAtEnd \/ OutQuiet
      BY <2>2 DEF NoSeek, SeekAtEnd, RunRead, OutQuiet
    <2> QED
      BY OutStep, <2>1, <2>2 DEF Played, Handed, Dry
  <1>3. <<CheckClose>>_vars => ~PlayingOut'
    BY DEF CheckClose, CloseFFDecode, PlayingOut
  <1>4. LInv /\ Looks => rd = "check" /\ AtEnd /\ BufferIsEmpty
    BY DEF Played, Handed, Dry, PlayingOut, LInv, Ended, AtEnd, BufferIsEmpty
  <1>5. /\ LInv /\ Played => (PlayingOut /\ rd = "loop") \/ Looks
        /\ Played /\ rd = "check" => Looks
    BY DEF LInv, IInv, TypeOK, ReadTypes, Task, Alive, Ended, Played, Handed, Dry, PlayingOut
  <1>6. Looks => PlayingOut
    BY DEF Played, Handed, Dry
  <1> HIDE DEF Looks, Played, PlayingOut, LInv
  <1>7. Spec /\ GuardFairness => (Looks ~> ~PlayingOut)
    BY <1>2, <1>3, <1>4, <1>6, LInductive, PTL DEF Spec, GuardFairness, ReadFair, Weak
  <1>8. Spec /\ GuardFairness => (Played ~> Looks \/ ~PlayingOut)
    BY <1>1, <1>5, ComesToCheck, LInductive, PTL DEF Spec
  <1> QED
    BY <1>7, <1>8, PTL

\* A source that has ended is played out and closed, unless it is paused or stopped.
THEOREM EndsClosed == Spec /\ GuardFairness => EndIsClosed
  <1>1. LInv /\ PlayingOut => Has(Full) \/ Has(Some) \/ Dry
    BY DEF LInv, IInv, TypeOK, BufferTypes, Has, Dry
  <1>2. LInv /\ Below(Full) => ~PlayingOut \/ Has(Some) \/ Dry
    BY DEF LInv, IInv, TypeOK, BufferTypes, Below, Has, Dry, Empty, Some, Full
  <1>3. LInv /\ Below(Some) => ~PlayingOut \/ Dry
    BY DEF LInv, IInv, TypeOK, BufferTypes, Below, Dry, Empty, Some, Full
  <1>4. Spec /\ GuardFairness => GoesDown(Full) /\ GoesDown(Some)
    <2>1. \A n \in {Some, Full} : Spec /\ GuardFairness => GoesDown(n)
      BY HasDown
    <2> HIDE DEF GoesDown
    <2> QED
      BY <2>1
  <1>5. fmt /\ ended /\ running => PlayingOut \/ Paused
    BY DEF PlayingOut
  <1>6. ~PlayingOut => ~fmt \/ ~ended \/ Paused \/ ~running
    BY DEF PlayingOut
  <1> HIDE DEF Has, Below, Dry, Played, PlayingOut, LInv, Paused
  <1> QED
    BY <1>1, <1>2, <1>3, <1>4, <1>5, <1>6, DryPlayed, PlayedCloses, LInductive, PTL
    DEF EndIsClosed, GoesDown
=============================================================================
