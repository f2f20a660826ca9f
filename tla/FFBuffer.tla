------------------------------ MODULE FFBuffer ------------------------------
(***************************************************************************)
(* The receive buffer of a play task (player/FFBuffer.cpp).  The read      *)
(* thread appends packets to lst_audio_recv_ and lst_video_recv_ and       *)
(* clears everything on a seek, at the end of the source and when it       *)
(* closes the source.  The engine thread's tick moves packets, as its      *)
(* clock reaches their time stamps, by way of two local lists into         *)
(* lst_audio_decode_ and lst_video_decode_, from which the decoders are    *)
(* fed.  Each list has its own lock and no lock is held between two of     *)
(* them: every step below is what happens under one lock, or a group of    *)
(* unlocked assignments.                                                   *)
(*                                                                         *)
(* Packets are numbered per stream.  One unit of time is the duration of   *)
(* a packet; MinTime and the other times, in seconds there, are scaled     *)
(* down to a few units.                                                    *)
(***************************************************************************)
EXTENDS Naturals, Sequences

CONSTANTS
  MinTime, MaxTime, \* nMinCacheTime and nMaxCacheTime
  Chosen,           \* the application chose them with setCacheParams
  CachingTime,      \* n_cacheing_time_
  Gap,              \* a jump of the source's time stamps, more than 2 durations
  Present,          \* the streams the source has
  Positions,        \* time stamps at which the source is opened or sought
  MaxDts, MaxSent, MaxClears  \* bounds: time stamps, packets, clearings

ASSUME FFBufferAssumption ==
  /\ MinTime \in Nat /\ MaxTime \in Nat /\ MinTime <= MaxTime
  /\ Chosen \in BOOLEAN /\ Present \subseteq {"audio", "video"}
  /\ CachingTime \in Nat /\ Gap \in Nat /\ MaxDts \in Nat /\ Positions \subseteq 0..MaxDts
  /\ MaxSent \in Nat /\ MaxClears \in Nat

Streams == {"audio", "video"}

VARIABLES     \* the lists
  recv,       \* lst_audio_recv_, lst_video_recv_
  hand,       \* audList, vidList: locals of the tick
  dec         \* lst_audio_decode_, lst_video_decode_

lists == <<recv, hand, dec>>

VARIABLES     \* the clock and the status
  play,       \* play_status_
  reset,      \* b_reset_time_
  clock,      \* decode_data_time_ + n_played_time_
  last,       \* last_aud_dts_time_, last_vid_dts_time_; 0 for none
  toPlay      \* n_cache_to_play_time_

clockVars == <<play, reset, clock, last, toPlay>>

VARIABLES     \* the engine thread and its locals
  tk,         \* where a tick stands
  first,      \* audFirstDtsTime, vidFirstDtsTime; 0 for none
  span,       \* the larger of audCacheTime and vidCacheTime
  due,        \* decodeTime
  some        \* vidListSize or audListSize is not 0

tickVars == <<tk, first, span, due, some>>

VARIABLES     \* the read thread and the source
  rd,         \* where the read thread stands
  eof,        \* b_got_eof_
  sent,       \* number of packets received, per stream
  pos,        \* the time stamp of the source's next packet, per stream
  clears      \* number of clearings

readVars == <<rd, eof, sent, pos, clears>>

VARIABLES     \* history, read by no action
  got,        \* the last packet given to the decoder, per stream
  fresh,      \* the first packet received since the last clearing began, per stream
  held,       \* what the tick held when the stream's end, or its decode list, was looked at
  closing     \* the clearing closes a source that was played to its end

histVars == <<got, fresh, held, closing>>

vars == <<lists, clockVars, tickVars, readVars, histVars>>

Init ==
  /\ recv = [s \in Streams |-> <<>>] /\ hand = recv /\ dec = recv
  /\ play = "Init" /\ reset = FALSE /\ clock = 0 /\ last = [s \in Streams |-> 0]
  /\ toPlay = MinTime
  /\ tk = "idle" /\ first = [s \in Streams |-> 0] /\ span = 0 /\ due = 0 /\ some = FALSE
  /\ rd = "loop" /\ eof = FALSE /\ sent = [s \in Streams |-> 0] /\ clears = 0
  /\ pos \in {[s \in Streams |-> p] : p \in Positions}
  /\ got = [s \in Streams |-> 0] /\ fresh = [s \in Streams |-> 1]
  /\ held = [s \in Streams |-> {}] /\ closing = FALSE

\* SetPlaySetting with bAuto, which nothing clears: n_cache_to_play_max_ is nCacheTime,
\* which is nMaxCacheTime unless setCacheParams has made it nMinCacheTime.
CacheToPlayMax == IF Chosen THEN MinTime ELSE MaxTime

Larger(m, n) == IF m > n THEN m ELSE n
Capped(n) == IF n > MaxDts THEN MaxDts ELSE n

Numbers(q) == {q[i].n : i \in DOMAIN q}

\* The time a list holds: back()->dts_ - front()->dts_.
CacheTime(q) == IF q = <<>> THEN 0 ELSE q[Len(q)].dts - q[1].dts

NeedMoreData == Larger(CacheTime(recv["audio"]), CacheTime(recv["video"])) <= CachingTime

\* How many packets at the front of q are due at time t: exactly one number.
DueCounts(q, t) ==
  {k \in 0..Len(q) : /\ \A i \in 1..k : q[i].dts <= t
                     /\ k < Len(q) => q[k + 1].dts > t}

\* audFirstDtsTime if that is not 0, else vidFirstDtsTime.
FirstDts == IF first["audio"] # 0 THEN first["audio"] ELSE first["video"]

-----------------------------------------------------------------------------
(***************************************************************************)
(* The engine thread: FFBuffer::DoTick.                                    *)
(***************************************************************************)

\* A tick not yet playing, or with the clock to be reset, looks at the lists ...
TickFill ==
  /\ tk = "idle" /\ (play \in {"Init", "Caching"} \/ reset)
  /\ tk' = "firstVideo"
  /\ UNCHANGED <<lists, clockVars, first, span, due, some, readVars, histVars>>

\* Variant to be rejected: a packet does not get old.
TickFirstKeeps(s, here, next, old) ==
  /\ tk = here /\ tk' = next
  /\ IF recv[s] = <<>> THEN UNCHANGED <<first, span>>
     ELSE /\ first' = [first EXCEPT ![s] = recv[s][1].dts]
          /\ span' = Larger(span, CacheTime(recv[s]))
  /\ UNCHANGED <<lists, clockVars, due, some, readVars, histVars>>

\* ... video before audio.  A front packet received CachingTime ago (old) goes to the
\* decoder at once.
TickFirst(s, here, next, old) ==
  /\ tk = here /\ tk' = next
  /\ IF recv[s] = <<>> THEN UNCHANGED <<recv, dec, first, span>>
     ELSE /\ first' = [first EXCEPT ![s] = recv[s][1].dts]
          /\ span' = Larger(span, IF old THEN CachingTime ELSE CacheTime(recv[s]))
          /\ IF old THEN /\ recv' = [recv EXCEPT ![s] = Tail(@)]
                         /\ dec' = [dec EXCEPT ![s] = Append(@, Head(recv[s]))]
                    ELSE UNCHANGED <<recv, dec>>
  /\ UNCHANGED <<hand, clockVars, due, some, readVars, histVars>>

LocalsDone == /\ tk' = "idle" /\ first' = [s \in Streams |-> 0] /\ span' = 0
              /\ due' = 0 /\ some' = FALSE

\* The clock is reset to the first packet seen, or to 0 if none was seen ...
TickReset ==
  /\ tk = "start" /\ reset
  /\ reset' = FALSE /\ clock' = FirstDts
  /\ LocalsDone
  /\ UNCHANGED <<lists, play, last, toPlay, readVars, histVars>>

\* Variant to be rejected: playing waits for a packet of each stream.
TickStartBoth ==
  /\ tk = "start" /\ ~reset /\ span >= toPlay /\ \A s \in Streams : first[s] # 0
  /\ play' = "Playing" /\ clock' = FirstDts
  /\ LocalsDone
  /\ UNCHANGED <<lists, reset, last, toPlay, readVars, histVars>>

\* ... or, with enough data, playing starts with it ...
TickStart ==
  /\ tk = "start" /\ ~reset /\ span >= toPlay
  /\ play' = "Playing" /\ clock' = FirstDts
  /\ LocalsDone
  /\ UNCHANGED <<lists, reset, last, toPlay, readVars, histVars>>

\* ... or it waits for more.
TickWait ==
  /\ tk = "start" /\ ~reset /\ span < toPlay
  /\ LocalsDone
  /\ UNCHANGED <<lists, clockVars, readVars, histVars>>

\* A playing tick advances the clock by the time since the tick before, gap.  If both
\* streams are paused it returns instead (OnBufferGetPuased), which changes nothing here.
TickPlay(gap) ==
  /\ tk = "idle" /\ play = "Playing" /\ ~reset
  /\ tk' = "takeVideo" /\ clock' = Capped(clock + gap) /\ due' = Capped(clock + gap)
  /\ UNCHANGED <<lists, play, reset, last, toPlay, first, span, some, readVars, histVars>>

\* It takes what is due, video before audio.  If nothing is, because the front packet is
\* more than two durations after the last one, the clock is to be reset.
TickTake(s, here, next) ==
  /\ tk = here /\ tk' = next
  /\ some' = (some \/ recv[s] # <<>>)
  /\ \E k \in DueCounts(recv[s], due) :
       /\ hand' = [hand EXCEPT ![s] = SubSeq(recv[s], 1, k)]
       /\ recv' = [recv EXCEPT ![s] = SubSeq(recv[s], k + 1, Len(recv[s]))]
       /\ reset' = (reset \/ (/\ recv[s] # <<>> /\ k = 0
                             /\ last[s] # 0 /\ recv[s][1].dts > last[s] + 2))
  /\ UNCHANGED <<dec, play, clock, last, toPlay, first, span, due, readVars, histVars>>

\* Variant to be rejected: what was taken goes to the decoder newest first.
TickPushBack(s) ==
  /\ tk = "push" /\ hand[s] # <<>> /\ (s = "video" => hand["audio"] = <<>>)
  /\ hand' = [hand EXCEPT ![s] = SubSeq(@, 1, Len(@) - 1)]
  /\ dec' = [dec EXCEPT ![s] = Append(@, hand[s][Len(hand[s])])]
  /\ last' = [last EXCEPT ![s] = hand[s][Len(hand[s])].dts]
  /\ UNCHANGED <<recv, play, reset, clock, toPlay, tickVars, readVars, histVars>>

\* It hands that to the decoders one by one, audio before video ...
TickPush(s) ==
  /\ tk = "push" /\ hand[s] # <<>> /\ (s = "video" => hand["audio"] = <<>>)
  /\ hand' = [hand EXCEPT ![s] = Tail(@)]
  /\ dec' = [dec EXCEPT ![s] = Append(@, Head(hand[s]))]
  /\ last' = [last EXCEPT ![s] = Head(hand[s]).dts]
  /\ UNCHANGED <<recv, play, reset, clock, toPlay, tickVars, readVars, histVars>>

\* Variant to be rejected: there is no limit.
RaisedWithoutLimit == toPlay + 1

\* After a stall more is cached before playing starts again.
Raised == LET more == IF toPlay < CacheToPlayMax THEN toPlay + 1 ELSE toPlay
          IN  IF more > CacheToPlayMax THEN CacheToPlayMax ELSE more

\* ... and, if there was nothing at all, falls back to caching.
TickEnd ==
  /\ tk = "push" /\ hand = [s \in Streams |-> <<>>]
  /\ IF some THEN UNCHANGED <<play, toPlay>> ELSE play' = "Caching" /\ toPlay' = Raised
  /\ LocalsDone
  /\ UNCHANGED <<lists, reset, clock, last, readVars, histVars>>

\* DoDecodeAudio and DoDecodeVideo, called from RunOnce after the tick.
DoDecode(s) ==
  /\ tk = "idle" /\ dec[s] # <<>>
  /\ dec' = [dec EXCEPT ![s] = Tail(@)]
  /\ got' = [got EXCEPT ![s] = Head(dec[s]).n]
  /\ UNCHANGED <<recv, hand, clockVars, tickVars, readVars, fresh, held, closing>>

-----------------------------------------------------------------------------
(***************************************************************************)
(* The read thread: RecvAudioData and RecvVideoData, BufferIsEmpty,        *)
(* DoClear and what ARFFPlayer::ReadThreadProcess does around them.        *)
(***************************************************************************)

\* A packet is read while there is room; its time stamp may be ahead of the last one's.
Recv(s, jump) ==
  /\ rd = "loop" /\ ~eof /\ NeedMoreData
  /\ sent["audio"] + sent["video"] < MaxSent /\ pos[s] + jump <= MaxDts
  /\ sent' = [sent EXCEPT ![s] = @ + 1]
  /\ pos' = [pos EXCEPT ![s] = @ + jump + 1]
  /\ recv' = [recv EXCEPT ![s] = Append(@, [n |-> sent[s] + 1, dts |-> pos[s] + jump])]
  /\ UNCHANGED <<hand, dec, clockVars, tickVars, rd, eof, clears, histVars>>

ReadEof ==
  /\ rd = "loop" /\ ~eof
  /\ eof' = TRUE
  /\ UNCHANGED <<lists, clockVars, tickVars, rd, sent, pos, clears, histVars>>

\* DoClear begins.
ClearBegins == rd' = "recvAudio" /\ fresh' = [s \in Streams |-> sent[s] + 1]

\* A seek clears the buffer; before the end of the source it moves to another position.
Seek ==
  /\ rd = "loop" /\ clears < MaxClears
  /\ clears' = clears + 1
  /\ IF eof THEN UNCHANGED pos ELSE pos' \in {[s \in Streams |-> p] : p \in Positions}
  /\ ClearBegins
  /\ UNCHANGED <<lists, clockVars, tickVars, eof, sent, got, held, closing>>

\* Variant to be rejected: the decode lists are not asked.
NothingReceived(s) == recv[s] = <<>>

\* At the end of the source BufferIsEmpty is asked.  Its first two locks, on the receive
\* lists, are left out: empty they stay, since only this thread fills them.
NothingLeft(s) == recv[s] = <<>> /\ dec[s] = <<>>

EndedVideo ==
  /\ rd = "loop" /\ eof /\ NothingLeft("video")
  /\ rd' = "endAudio" /\ held' = [held EXCEPT !["video"] = Numbers(hand["video"])]
  /\ UNCHANGED <<lists, clockVars, tickVars, eof, sent, pos, clears, got, fresh, closing>>

\* If nothing is left the source is closed ...
EndedClose ==
  /\ rd = "endAudio" /\ NothingLeft("audio")
  /\ ClearBegins
  /\ held' = [held EXCEPT !["audio"] = Numbers(hand["audio"])] /\ closing' = TRUE
  /\ UNCHANGED <<lists, clockVars, tickVars, eof, sent, pos, clears, got>>

\* ... a rest that will be played is waited for, another is dropped.
EndedRest(s, here) ==
  /\ rd = here /\ eof /\ ~NothingLeft(s)
  /\ IF play = "Playing" THEN rd' = "loop" /\ UNCHANGED fresh ELSE ClearBegins
  /\ UNCHANGED <<lists, clockVars, tickVars, eof, sent, pos, clears, got, held, closing>>

ClearRecv(s, here, next) ==
  /\ rd = here /\ rd' = next
  /\ recv' = [recv EXCEPT ![s] = <<>>]
  /\ UNCHANGED <<hand, dec, clockVars, tickVars, eof, sent, pos, clears, histVars>>

\* Variant to be rejected: the decode lists are left alone.
ClearNoDec(s, here, next) ==
  /\ rd = here /\ rd' = next
  /\ held' = [held EXCEPT ![s] = Numbers(hand[s])]
  /\ UNCHANGED <<lists, clockVars, tickVars, eof, sent, pos, clears, got, fresh, closing>>

ClearDec(s, here, next) ==
  /\ rd = here /\ rd' = next
  /\ dec' = [dec EXCEPT ![s] = <<>>]
  /\ held' = [held EXCEPT ![s] = Numbers(hand[s])]
  /\ UNCHANGED <<recv, hand, clockVars, tickVars, eof, sent, pos, clears, got, fresh, closing>>

\* play_status_ is compared with PS_Init, not assigned; then the times are cleared.
ClearTimes ==
  /\ rd = "times"
  /\ rd' = IF closing THEN "closed" ELSE "loop"
  /\ clock' = 0 /\ last' = [s \in Streams |-> 0] /\ reset' = TRUE
  /\ closing' = FALSE
  /\ UNCHANGED <<lists, play, toPlay, tickVars, eof, sent, pos, clears, got, fresh, held>>

\* A closed source is opened again, by a repetition or a seek.
Reopen ==
  /\ rd = "closed" /\ clears < MaxClears
  /\ rd' = "loop" /\ eof' = FALSE /\ clears' = clears + 1
  /\ pos' \in {[s \in Streams |-> p] : p \in Positions}
  /\ UNCHANGED <<lists, clockVars, tickVars, sent, histVars>>

-----------------------------------------------------------------------------
TickStep ==
  \/ \E old \in BOOLEAN : \/ TickFirst("video", "firstVideo", "firstAudio", old)
                         \/ TickFirst("audio", "firstAudio", "start", old)
  \/ TickReset \/ TickStart \/ TickWait
  \/ TickTake("video", "takeVideo", "takeAudio") \/ TickTake("audio", "takeAudio", "push")
  \/ TickPush("audio") \/ TickPush("video")
  \/ TickEnd

Engine ==
  \/ TickFill \/ TickPlay(0) \/ TickPlay(1)
  \/ TickStep
  \/ DoDecode("audio") \/ DoDecode("video")

Clear ==
  \/ ClearRecv("audio", "recvAudio", "recvVideo") \/ ClearRecv("video", "recvVideo", "decAudio")
  \/ ClearDec("audio", "decAudio", "decVideo") \/ ClearDec("video", "decVideo", "times")
  \/ ClearTimes

Read ==
  \/ \E s \in Present, jump \in {0, Gap} : Recv(s, jump)
  \/ ReadEof \/ Seek \/ Clear \/ Reopen
  \/ EndedVideo \/ EndedClose
  \/ EndedRest("video", "loop") \/ EndedRest("audio", "endAudio")

Next == Engine \/ Read

Spec == Init /\ [][Next]_vars

\* The engine ticks every 10 ms, time passes between ticks, a pause ends, an old packet is
\* seen to be old, and PlayBuffer makes room for the decoders as its clock runs.
Fairness ==
  /\ WF_vars(TickFill \/ TickStep) /\ SF_vars(TickPlay(1))
  /\ SF_vars(TickFirst("video", "firstVideo", "firstAudio", TRUE))
  /\ SF_vars(TickFirst("audio", "firstAudio", "start", TRUE))
  /\ SF_vars(DoDecode("audio")) /\ SF_vars(DoDecode("video"))

LiveSpec == Spec /\ Fairness
-----------------------------------------------------------------------------
Packet == [n : 1..MaxSent, dts : 0..MaxDts]

ListTypes == /\ recv \in [Streams -> Seq(Packet)] /\ hand \in [Streams -> Seq(Packet)]
             /\ dec \in [Streams -> Seq(Packet)]

ClockTypes == /\ play \in {"Init", "Caching", "Playing"} /\ reset \in BOOLEAN
              /\ clock \in 0..MaxDts /\ last \in [Streams -> 0..MaxDts]
              /\ toPlay \in MinTime..CacheToPlayMax

TickTypes == /\ tk \in {"idle", "firstVideo", "firstAudio", "start", "takeVideo", "takeAudio", "push"}
             /\ first \in [Streams -> 0..MaxDts] /\ span \in Nat /\ due \in 0..MaxDts
             /\ some \in BOOLEAN

ReadTypes == /\ rd \in {"loop", "recvAudio", "recvVideo", "decAudio", "decVideo", "times",
                        "endAudio", "closed"}
             /\ eof \in BOOLEAN /\ sent \in [Streams -> 0..MaxSent]
             /\ pos \in [Streams -> 0..(MaxDts + 1)] /\ clears \in 0..MaxClears

HistTypes == /\ got \in [Streams -> 0..MaxSent] /\ fresh \in [Streams -> 1..(MaxSent + 1)]
             /\ held \in [Streams -> SUBSET (1..MaxSent)] /\ closing \in BOOLEAN

\* Every variable keeps its type.
TypeOK == ListTypes /\ ClockTypes /\ TickTypes /\ ReadTypes /\ HistTypes

Inside(s) == dec[s] \o hand[s] \o recv[s]
Clearing == rd \in {"recvAudio", "recvVideo", "decAudio", "decVideo", "times"}

Audio == INSTANCE PacketFlow WITH sent <- sent["audio"], got <- got["audio"], clearing <- Clearing,
           queue <- [i \in 1..Len(Inside("audio")) |-> Inside("audio")[i].n]
Video == INSTANCE PacketFlow WITH sent <- sent["video"], got <- got["video"], clearing <- Clearing,
           queue <- [i \in 1..Len(Inside("video")) |-> Inside("video")[i].n]

\* The four lists of a stream and the tick's passage between them are one queue: no packet
\* overtakes, is duplicated or is lost, except by a clearing.
InOrder == Audio!Spec /\ Video!Spec

\* When a clearing is over, no packet from before it reaches a decoder any more, but for
\* those the tick held when the decode list was emptied.
StaleOnlyHeld ==
  rd = "loop" =>
    \A s \in Streams :
      {n \in Numbers(dec[s]) \cup Numbers(hand[s]) : n < fresh[s]} \subseteq held[s]

\* A source that is closed because everything was played loses nothing by the clearing, but
\* for what the tick held when BufferIsEmpty looked.
EndLosesOnlyHeld ==
  [][closing => \A s \in Streams :
       \A n \in Numbers(Inside(s)) : n \in Numbers(Inside(s)') \cup {got'[s]} \cup held[s]]_vars

\* A buffer that the reader has filled is played.
FullBufferPlays == ~NeedMoreData ~> play = "Playing" \/ rd # "loop"

\* When the source sends no more, what it has sent gets to the decoders or is cleared: also
\* a rest too small to start playing, and one that lies ahead of the clock by a jump of the
\* time stamps, or because the clock was reset before it came.  (The bounds end every
\* source; nothing obliges it to send.)
Drains == TRUE ~> \A s \in Streams : Inside(s) = <<>>
=============================================================================
