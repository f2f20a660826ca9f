-------------------------- MODULE PlayBufferProofs --------------------------
(***************************************************************************)
(* Proofs about PlayBuffer, for every size of the queues and every bound   *)
(* on time.  The inductive invariant IInv adds three things to the types   *)
(* and to the order and length of the queues: what the two threads hold    *)
(* (Held), what the decoder's gate knows (Gated), and that neither part of *)
(* a clock update can run ahead of the presentation (Behind).              *)
(***************************************************************************)
EXTENDS PlayBuffer, FiniteSetTheorems, SequenceTheorems, TLAPS

Sorted(s) == \A i, j \in 1..Len(s) : i < j => s[i] <= s[j]

Held ==
  /\ eng \notin {"idle", "look"} => vid # <<>>
  /\ dev # "idle" => playing /\ devPts \in Pts
  /\ eng \in {"clock", "take"} => base # 0

Gated == ~garbled /\ (~needKey => intact \/ cut)

\* A clock at p that has run for t is not ahead of the presentation, as far as that is counted.
Within(p, t) == p + t <= limit \/ limit = MaxPts

Behind ==
  /\ base # 0 => Within(base, since)
  /\ dev = "time" => Within(devPts, 0)
  /\ dev = "pts" => Within(devPts, since)
  /\ eng = "pts" => Within(Head(vid), since)
  /\ eng = "take" => torn \/ Within(base, clk)

IInv == TypeOK /\ Bounded /\ VideoSorted /\ Held /\ Gated /\ Behind
-----------------------------------------------------------------------------
\* Half of an audio queue's limit is less than all of it.
LEMMA Half == MaxAudio \div 2 \in Nat /\ MaxAudio \div 2 < MaxAudio
  BY PlayBufferAssumption

\* What is left of a queue after its first n packets is a queue, in order if it was.
LEMMA DropFirstFacts ==
  ASSUME NEW s \in Seq(Pts), NEW n \in 0..Len(s)
  PROVE  /\ DropFirst(s, n) \in Seq(Pts)
         /\ Len(DropFirst(s, n)) = Len(s) - n
         /\ Sorted(s) => Sorted(DropFirst(s, n))
  <1>1. Len(s) \in Nat /\ s \in [1..Len(s) -> Pts]
    BY LenProperties
  <1> DEFINE l == Len(s)
             r == SubSeq(s, n + 1, l)
  <1>2. /\ r \in Seq(Pts)
        /\ Len(r) = IF n + 1 <= l THEN l - (n + 1) + 1 ELSE 0
        /\ \A i \in 1..(l - (n + 1) + 1) : r[i] = s[n + 1 + i - 1]
    <2>1. \A i \in (n + 1)..l : s[i] \in Pts
      BY <1>1
    <2>2. n + 1 \in Int /\ l \in Int
      BY <1>1
    <2> HIDE DEF l
    <2> QED BY <2>1, <2>2, SubSeqProperties
  <1>3. DropFirst(s, n) = r
    BY DEF DropFirst
  <1> HIDE DEF r
  <1>4. Len(r) = l - n
    <2>1. CASE n + 1 <= l
      BY <1>1, <1>2, <2>1
    <2>2. CASE ~(n + 1 <= l)
      <3>1. n <= l /\ n \in Int /\ l \in Int
        BY <1>1
      <3>2. n = l
        BY <2>2, <3>1
      <3>3. Len(r) = 0
        BY <1>2, <2>2
      <3> QED BY <3>1, <3>2, <3>3
    <2> QED BY <2>1, <2>2
  <1>5. \A i \in 1..Len(r) : r[i] = s[n + i]
    <2> SUFFICES ASSUME NEW i \in 1..Len(r) PROVE r[i] = s[n + i]
      OBVIOUS
    <2>1. i \in 1..(l - (n + 1) + 1) /\ n + 1 + i - 1 = n + i
      BY <1>1, <1>4
    <2> QED BY <1>2, <2>1
  <1>6. Sorted(s) => Sorted(r)
    BY <1>1, <1>4, <1>5 DEF Sorted
  <1> QED BY <1>2, <1>3, <1>4, <1>6

\* In a queue in order, the number of packets before p is the place of the first that is not.
LEMMA PlaceOf ==
  ASSUME NEW s \in Seq(Pts), Sorted(s), NEW p \in Pts,
         NEW D, D = {i \in 1..Len(s) : s[i] < p}
  PROVE  /\ Cardinality(D) \in 0..Len(s)
         /\ \A i \in 1..Len(s) : i <= Cardinality(D) <=> s[i] < p
  <1>1. Len(s) \in Nat /\ s \in [1..Len(s) -> Nat]
    <2>1. s \in [1..Len(s) -> Pts]
      BY LenProperties
    <2> QED BY <2>1, LenProperties, PlayBufferAssumption DEF Pts
  <1>2. \A a, b \in Nat : IsFiniteSet(a..b) /\ (a = 1 => Cardinality(a..b) = b)
    BY FS_Interval
  <1>3. IsFiniteSet(D) /\ Cardinality(D) \in Nat /\ Cardinality(D) <= Len(s)
    <2>1. D \in SUBSET (1..Len(s))
      OBVIOUS
    <2>2. IsFiniteSet(1..Len(s)) /\ Cardinality(1..Len(s)) = Len(s)
      BY <1>1, <1>2
    <2> QED BY <2>1, <2>2, FS_Subset, FS_CardinalityType
  <1>4. ASSUME NEW i \in 1..Len(s), s[i] < p PROVE i <= Cardinality(D)
    <2>1. 1..i \in SUBSET D
      BY <1>1, <1>4 DEF Sorted, Pts
    <2>2. Cardinality(1..i) <= Cardinality(D)
      BY <1>3, <2>1, FS_Subset
    <2> QED BY <1>1, <1>2, <2>2
  <1>5. ASSUME NEW i \in 1..Len(s), ~(s[i] < p) PROVE ~(i <= Cardinality(D))
    <2>1. D \in SUBSET (1..(i - 1))
      BY <1>1, <1>5 DEF Sorted, Pts
    <2>2. Cardinality(D) <= Cardinality(1..(i - 1))
      BY <1>1, <1>2, <2>1, FS_Subset
    <2>3. Cardinality(1..(i - 1)) = i - 1
      BY <1>1, <1>2
    <2> QED BY <1>1, <1>3, <2>2, <2>3
  <1> QED BY <1>1, <1>3, <1>4, <1>5

\* A frame put at its place makes the queue one longer and keeps it in order.
LEMMA InsertFacts ==
  ASSUME NEW s \in Seq(Pts), Sorted(s), NEW p \in Pts
  PROVE  /\ Insert(s, p) \in Seq(Pts)
         /\ Len(Insert(s, p)) = Len(s) + 1
         /\ Sorted(Insert(s, p))
  <1> DEFINE D == {i \in 1..Len(s) : s[i] < p}
             k == Cardinality(D)
             f == [i \in 1..(Len(s) + 1) |->
                     IF i <= k THEN s[i] ELSE IF i = k + 1 THEN p ELSE s[i - 1]]
  <1>1. Len(s) \in Nat /\ s \in [1..Len(s) -> Pts]
    BY LenProperties
  <1>2. k \in 0..Len(s) /\ \A i \in 1..Len(s) : i <= k <=> s[i] < p
    BY PlaceOf
  <1>3. Insert(s, p) = f
    BY DEF Insert
  <1> HIDE DEF k
  <1>4. f \in [1..(Len(s) + 1) -> Pts]
    BY <1>1, <1>2
  <1>5. f \in Seq(Pts) /\ Len(f) = Len(s) + 1
    BY <1>1, <1>4
  <1>6. ASSUME NEW i \in 1..(Len(s) + 1), NEW j \in 1..(Len(s) + 1), i < j
        PROVE  f[i] <= f[j]
    <2>1. f[i] = IF i <= k THEN s[i] ELSE IF i = k + 1 THEN p ELSE s[i - 1]
      OBVIOUS
    <2>2. f[j] = IF j <= k THEN s[j] ELSE IF j = k + 1 THEN p ELSE s[j - 1]
      OBVIOUS
    <2> HIDE DEF f
    <2>3. \A a \in 1..Len(s) : s[a] \in Nat
      BY <1>1 DEF Pts
    <2>4. \A a, b \in 1..Len(s) : a < b => s[a] <= s[b]
      BY DEF Sorted
    <2>5. CASE j <= k
      BY <1>1, <1>2, <1>6, <2>1, <2>2, <2>4, <2>5
    <2>6. CASE j = k + 1
      BY <1>1, <1>2, <1>6, <2>1, <2>2, <2>3, <2>6 DEF Pts
    <2>7. CASE j > k + 1
      <3>1. f[j] = s[j - 1] /\ j - 1 \in 1..Len(s) /\ ~(s[j - 1] < p)
        BY <1>1, <1>2, <2>2, <2>7
      <3>2. CASE i <= k
        BY <1>1, <1>2, <1>6, <2>1, <2>4, <2>7, <3>1, <3>2
      <3>3. CASE i = k + 1
        BY <1>1, <1>2, <2>1, <2>3, <3>1, <3>3 DEF Pts
      <3>4. CASE i > k + 1
        BY <1>1, <1>2, <1>6, <2>1, <2>4, <3>1, <3>4
      <3> QED BY <1>1, <1>2, <3>2, <3>3, <3>4
    <2> QED BY <1>1, <1>2, <2>5, <2>6, <2>7
  <1> QED
    <2>1. Sorted(f)
      BY <1>5, <1>6 DEF Sorted
    <2> QED BY <1>3, <1>5, <2>1

\* Dropping video leaves a queue in order that is not longer.
LEMMA DropUpToFacts ==
  ASSUME NEW s \in Seq(Pts), Sorted(s), NEW p \in Pts
  PROVE  /\ DropUpTo(s, p) \in Seq(Pts)
         /\ Len(DropUpTo(s, p)) <= Len(s)
         /\ Sorted(DropUpTo(s, p))
  <1> DEFINE D == {i \in 1..Len(s) : s[i] <= p}
             k == Cardinality(D)
             n == IF k < Len(s) \/ k = 0 THEN k ELSE k - 1
  <1>1. Len(s) \in Nat
    BY LenProperties
  <1>2. k \in 0..Len(s)
    <2>1. IsFiniteSet(1..Len(s)) /\ Cardinality(1..Len(s)) = Len(s)
      BY <1>1, FS_Interval, SMTT(30)
    <2>2. D \in SUBSET (1..Len(s))
      OBVIOUS
    <2> QED BY <1>1, <2>1, <2>2, FS_Subset, FS_CardinalityType
  <1>3. DropUpTo(s, p) = DropFirst(s, n)
    BY DEF DropUpTo
  <1> HIDE DEF k
  <1>4. n \in 0..Len(s)
    BY <1>1, <1>2
  <1> HIDE DEF n
  <1> QED BY <1>1, <1>3, <1>4, DropFirstFacts
-----------------------------------------------------------------------------
(***************************************************************************)
(* The queues: their types, order and length.                              *)
(***************************************************************************)

Queues ==
  /\ aud \in Seq(Pts) /\ vid \in Seq(Pts)
  /\ Bounded /\ VideoSorted

\* A packet appended to the audio queue, and what is cut from both queues then.
LEMMA PlayAudioDataQueues ==
  ASSUME Queues, NEW p \in Pts, PlayAudioData(p)
  PROVE  Queues'
  <1> DEFINE all == Append(aud, p)
             n == Len(all) - MaxAudio \div 2
  <1>1. all \in Seq(Pts) /\ Len(all) = Len(aud) + 1 /\ Len(aud) \in Nat /\ Len(vid) \in Nat
    BY DEF Queues
  <1>2. Len(aud) < MaxAudio /\ Len(vid) <= MaxVideo + 1 /\ Sorted(vid)
    BY DEF Queues, Bounded, VideoSorted, Sorted
  <1> HIDE DEF all
  <1>3. CASE Len(all) >= MaxAudio
    <2>1. n \in 0..Len(all) /\ n >= 1
      BY <1>1, <1>3, Half, PlayBufferAssumption
    <2>2. aud' = DropFirst(all, n) /\ vid' = DropUpTo(vid, all[n])
      BY <1>3 DEF PlayAudioData, all
    <2>3. all[n] \in Pts
      BY <1>1, <2>1
    <2> HIDE DEF n
    <2>4. aud' \in Seq(Pts) /\ Len(aud') = Len(all) - n
      BY <1>1, <2>1, <2>2, DropFirstFacts
    <2>5. Len(aud') < MaxAudio
      BY <1>1, <2>1, <2>4, Half DEF n
    <2>6. vid' \in Seq(Pts) /\ Len(vid') <= Len(vid) /\ Sorted(vid')
      BY <1>2, <2>2, <2>3, DropUpToFacts DEF Queues
    <2>7. Len(vid') <= MaxVideo + 1
      <3>1. Len(vid') \in Nat /\ MaxVideo \in Nat
        BY <2>6, Half DEF MaxVideo
      <3> QED BY <1>1, <1>2, <2>6, <3>1
    <2> QED BY <2>4, <2>5, <2>6, <2>7 DEF Queues, Bounded, VideoSorted, Sorted, MaxVideo
  <1>4. CASE ~(Len(all) >= MaxAudio)
    <2>1. aud' = all /\ vid' = vid
      BY <1>4 DEF PlayAudioData, all
    <2>2. Len(all) < MaxAudio
      BY <1>1, <1>4, PlayBufferAssumption
    <2> QED BY <1>1, <2>1, <2>2 DEF Queues, Bounded, VideoSorted, MaxVideo
  <1> QED BY <1>3, <1>4

\* A frame added to the video queue when it has room.
LEMMA OnArPlyVideoQueues ==
  ASSUME Queues, NEW p \in Pts, NeedMoreVideoPlyData, vid' = Insert(vid, p), UNCHANGED aud
  PROVE  Queues'
  <1>1. vid' \in Seq(Pts) /\ Len(vid') = Len(vid) + 1 /\ Sorted(vid')
    BY InsertFacts DEF Queues, VideoSorted, Sorted
  <1>2. Len(vid') <= MaxVideo + 1
    <2>1. Len(vid) \in Nat /\ MaxVideo \in Nat
      BY Half DEF Queues, MaxVideo
    <2> QED BY <1>1, <2>1 DEF NeedMoreVideoPlyData
  <1> QED BY <1>1, <1>2 DEF Queues, Bounded, VideoSorted, Sorted, MaxVideo

\* The front taken off the video queue.
LEMMA RenderTakeQueues ==
  ASSUME Queues, vid # <<>>, vid' = Tail(vid), UNCHANGED aud
  PROVE  Queues'
  <1>1. Len(vid) \in Nat \ {0} /\ vid \in [1..Len(vid) -> Pts]
    BY DEF Queues
  <1>2. vid' \in Seq(Pts) /\ Len(vid') = Len(vid) - 1 /\ \A i \in 1..Len(vid') : vid'[i] = vid[i + 1]
    BY HeadTailProperties DEF Queues
  <1>3. Len(vid') <= MaxVideo + 1
    BY <1>1, <1>2, Half DEF Queues, Bounded, MaxVideo
  <1>4. VideoSorted'
    BY <1>1, <1>2 DEF Queues, VideoSorted
  <1> QED BY <1>2, <1>3, <1>4 DEF Queues, Bounded, MaxVideo

\* The front taken off the audio queue.
LEMMA AudPopQueues ==
  ASSUME Queues, aud # <<>>, aud' = Tail(aud), UNCHANGED vid
  PROVE  Queues' /\ Head(aud) \in Pts
  <1>1. Len(aud) \in Nat \ {0} /\ Head(aud) \in Pts
    BY DEF Queues
  <1>2. aud' \in Seq(Pts) /\ Len(aud') = Len(aud) - 1
    BY HeadTailProperties DEF Queues
  <1>3. Len(aud') < MaxAudio
    BY <1>1, <1>2, PlayBufferAssumption DEF Queues, Bounded
  <1> QED BY <1>1, <1>2, <1>3 DEF Queues, Bounded, VideoSorted, MaxVideo

\* Every step keeps the queues in order and within their limits.
LEMMA QueuesStep ==
  ASSUME Queues, Held, TypeOK, [Next]_vars
  PROVE  Queues'
  <1> USE DEF Queues
  <1>1. ASSUME UNCHANGED <<aud, vid>> PROVE Queues'
    BY <1>1 DEF Bounded, VideoSorted, MaxVideo
  <1>2. CASE StopPlay
    <2>1. aud' = <<>> /\ vid' = <<>>
      BY <1>2 DEF StopPlay
    <2>2. Len(aud') = 0 /\ Len(vid') = 0 /\ aud' \in Seq(Pts) /\ vid' \in Seq(Pts)
      BY <2>1
    <2>3. 0 < MaxAudio /\ 0 <= MaxVideo + 1
      BY Half, PlayBufferAssumption DEF MaxVideo
    <2> QED BY <2>2, <2>3 DEF Bounded, VideoSorted, MaxVideo
  <1>3. ASSUME NEW p \in Pts, DecodeAudio(p) PROVE Queues'
    BY <1>3, PlayAudioDataQueues DEF DecodeAudio
  <1>4. ASSUME NEW p \in Pts, NEW key \in BOOLEAN, DecodeVideo(p, key) PROVE Queues'
    <2>1. UNCHANGED aud /\ NeedMoreVideoPlyData
      BY <1>4 DEF DecodeVideo
    <2>2. UNCHANGED vid \/ vid' = Insert(vid, p)
      BY <1>4 DEF DecodeVideo, OnArPlyVideo
    <2> QED BY <1>1, <2>1, <2>2, OnArPlyVideoQueues
  <1>5. CASE RenderTake
    <2>1. UNCHANGED aud /\ (UNCHANGED vid \/ vid' = Tail(vid)) /\ vid # <<>>
      BY <1>5 DEF RenderTake, Held
    <2> QED BY <1>1, <2>1, RenderTakeQueues
  <1>6. CASE AudPop
    BY <1>6, AudPopQueues DEF AudPop
  <1>7. CASE RenderBegin \/ RenderLook \/ RenderTime \/ RenderPts \/ RenderClock
    BY <1>1, <1>7 DEF RenderBegin, RenderLook, RenderTime, RenderPts, RenderClock, queueVars
  <1>8. CASE AudClock \/ Elapse
    BY <1>1, <1>8 DEF AudClock, Elapse, queueVars
  <1>9. CASE Application /\ ~StopPlay
    BY <1>1, <1>9 DEF Application, StartPlay, Toggle, Seek, SeekFailed, queueVars
  <1>10. CASE UNCHANGED vars
    BY <1>1, <1>10 DEF vars, queueVars
  <1> QED
    BY <1>2, <1>3, <1>4, <1>5, <1>6, <1>7, <1>8, <1>9, <1>10 DEF Next, Engine, Render
-----------------------------------------------------------------------------
(***************************************************************************)
(* The types, and what the threads hold.                                   *)
(***************************************************************************)

\* The front of a queue that is not empty is a packet.
LEMMA Fronts ==
  ASSUME TypeOK
  PROVE  /\ vid # <<>> => Head(vid) \in Pts /\ Head(vid) = vid[1]
         /\ aud # <<>> => Head(aud) \in Pts
  BY DEF TypeOK

\* Every step preserves the types.
LEMMA TypeStep ==
  ASSUME TypeOK, Held, Bounded, VideoSorted, [Next]_vars
  PROVE  TypeOK'
  <1>1. Queues
    BY DEF TypeOK, Queues
  <1>2. aud' \in Seq(Pts) /\ vid' \in Seq(Pts)
    BY <1>1, QueuesStep DEF Queues
  <1> DEFINE Rest ==
        /\ playing \in BOOLEAN /\ mode \in Modes /\ off \subseteq Toggles
        /\ anext \in 1..(MaxPts + 1) /\ vnext \in 1..(MaxPts + 1)
        /\ aleft \in 0..MaxPts /\ vleft \in 0..MaxPts
        /\ atKey \in BOOLEAN /\ seeks \in 0..MaxSeeks
        /\ needKey \in BOOLEAN /\ picture \in 0..MaxPts
        /\ base \in 0..MaxPts /\ since \in 0..MaxPts /\ clk \in 0..MaxPts
        /\ eng \in {"idle", "look", "time", "pts", "clock", "take"}
        /\ rendered \in BOOLEAN
        /\ dev \in {"idle", "time", "pts"} /\ devPts \in 0..MaxPts
        /\ intact \in BOOLEAN /\ cut \in BOOLEAN /\ garbled \in BOOLEAN /\ torn \in BOOLEAN
        /\ limit \in 0..MaxPts
  <1>3. Rest
    BY DEF TypeOK
  <1>4. MaxPts \in Nat \ {0} /\ MaxSeeks \in Nat /\ Pts \subseteq 1..(MaxPts + 1) /\ Pts \subseteq 0..MaxPts
    BY PlayBufferAssumption DEF Pts
  <1>5. /\ vid # <<>> => Head(vid) \in 0..MaxPts
        /\ aud # <<>> => Head(aud) \in 0..MaxPts
    BY <1>4, Fronts
  <1>6. Rest'
    <2>1. ASSUME NEW m \in Modes, NEW p \in Pts, StartPlay(m, p) PROVE Rest'
      <3>1. 0 \in 0..MaxSeeks /\ 0 \in 0..MaxPts /\ p \in 1..(MaxPts + 1)
        BY <1>4
      <3>2. /\ mode' \in Modes /\ seeks' \in 0..MaxSeeks
            /\ aleft' \in 0..MaxPts /\ vleft' \in 0..MaxPts
            /\ anext' \in 1..(MaxPts + 1) /\ vnext' \in 1..(MaxPts + 1)
        BY <2>1, <3>1 DEF StartPlay
      <3>3. /\ playing' \in BOOLEAN /\ needKey' \in BOOLEAN /\ atKey' \in BOOLEAN
            /\ intact' \in BOOLEAN /\ cut' \in BOOLEAN
        BY <2>1 DEF StartPlay
      <3> QED BY <1>3, <2>1, <3>2, <3>3 DEF StartPlay, clockVars
    <2>2. CASE StopPlay
      BY <1>3, <2>2 DEF StopPlay, sourceVars, clockVars, histVars
    <2>3. ASSUME NEW t \in Toggles, Toggle(t) PROVE Rest'
      BY <1>3, <2>3 DEF Toggle, sourceVars, queueVars, clockVars, histVars
    <2>4. ASSUME NEW p \in Pts, Seek(p) PROVE Rest'
      <3>1. aleft' \in 0..MaxPts /\ vleft' \in 0..MaxPts
        BY <1>3, <1>4, <2>4 DEF Seek, ClearBuffer
      <3>2. intact' \in BOOLEAN /\ cut' \in BOOLEAN
        BY <2>4, Zenon DEF Seek
      <3> QED BY <1>3, <1>4, <2>4, <3>1, <3>2 DEF Seek, queueVars, clockVars
    <2>5. ASSUME NEW p \in Pts, DecodeAudio(p) PROVE Rest'
      <3>1. aleft' \in 0..MaxPts /\ anext' \in 1..(MaxPts + 1)
        BY <1>3, <1>4, <2>5 DEF DecodeAudio, After, Pts
      <3> QED BY <1>3, <2>5, <3>1 DEF DecodeAudio, clockVars, histVars
    <2>6. ASSUME NEW p \in Pts, NEW key \in BOOLEAN, DecodeVideo(p, key) PROVE Rest'
      <3>1. vnext' \in 1..(MaxPts + 1) /\ vleft' \in 0..MaxPts /\ atKey' \in BOOLEAN
        <4>1. p + 1 \in 1..(MaxPts + 1) /\ After(p) \in 0..MaxPts /\ 0 \in 0..MaxPts
          BY <1>4 DEF After, Pts
        <4> QED BY <1>3, <2>6, <4>1 DEF DecodeVideo
      <3>2. needKey' \in BOOLEAN
        BY <2>6 DEF DecodeVideo, Gate
      <3>3. picture' \in 0..MaxPts
        BY <1>3, <1>4, <2>6 DEF DecodeVideo, OnArPlyVideo
      <3>4. intact' \in BOOLEAN /\ cut' \in BOOLEAN /\ garbled' \in BOOLEAN
        BY <1>3, <2>6 DEF DecodeVideo
      <3> QED BY <1>3, <2>6, <3>1, <3>2, <3>3, <3>4 DEF DecodeVideo, clockVars
    <2>7. CASE RenderBegin \/ RenderLook \/ RenderClock
      BY <1>3, <2>7, ZenonT(30) DEF RenderBegin, RenderLook, RenderClock, playerVars,
         sourceVars, queueVars, histVars
    <2>8. CASE RenderTime
      BY <1>3, <1>4, <1>5, <2>8 DEF RenderTime, Held, Larger, playerVars, sourceVars, queueVars
    <2>9. CASE RenderPts
      BY <1>3, <1>5, <2>9 DEF RenderPts, Held, playerVars, sourceVars, queueVars, histVars
    <2>10. CASE RenderTake
      <3>1. rendered' \in BOOLEAN
        BY <2>10 DEF RenderTake
      <3>2. /\ eng' \in {"idle", "look", "time", "pts", "clock", "take"}
            /\ clk' \in 0..MaxPts /\ torn' \in BOOLEAN
        <4>1. (eng' = "look" \/ eng' = "idle") /\ clk' = 0 /\ torn' = FALSE
          BY <2>10 DEF RenderTake
        <4>2. 0 \in 0..MaxPts
          BY <1>4
        <4> QED BY <4>1, <4>2
      <3>3. UNCHANGED <<playerVars, needKey, picture, base, since, dev, devPts,
                        intact, cut, garbled, limit>>
        BY <2>10 DEF RenderTake
      <3> QED BY <1>3, <3>1, <3>2, <3>3 DEF playerVars, sourceVars
    <2>11. CASE AudPop
      BY <1>3, <1>5, <2>11 DEF AudPop, Larger, playerVars, sourceVars
    <2>12. CASE AudClock
      <3>1. since' \in 0..MaxPts /\ base' \in 0..MaxPts
        BY <1>3, <1>4, <2>12 DEF AudClock, SetTime, SetPts
      <3>3. torn' \in BOOLEAN
        <4>1. torn' = torn \/ torn' = (torn \/ eng = "take")
          BY <2>12 DEF AudClock, SetTime, SetPts
        <4> QED BY <1>3, <4>1
      <3>2. dev' \in {"idle", "time", "pts"} /\ devPts' \in 0..MaxPts
        BY <1>3, <1>4, <2>12 DEF AudClock
      <3> QED BY <1>3, <2>12, <3>1, <3>2, <3>3 DEF AudClock, playerVars, sourceVars, queueVars
    <2>13. CASE Elapse
      BY <1>3, <1>4, <2>13 DEF Elapse, Capped, playerVars, sourceVars, queueVars
    <2>14. CASE UNCHANGED vars
      BY <1>3, <2>14 DEF vars, playerVars, sourceVars, queueVars, clockVars, histVars
    <2>15. CASE SeekFailed
      <3>1. aleft' \in 0..MaxPts /\ vleft' \in 0..MaxPts
        BY <1>3, <1>4, <2>15 DEF SeekFailed, ClearBuffer
      <3>2. anext' \in 1..(MaxPts + 1) /\ seeks' \in 0..MaxSeeks
        BY <1>3, <1>4, <2>15 DEF SeekFailed
      <3> QED BY <1>3, <2>15, <3>1, <3>2 DEF SeekFailed, queueVars, clockVars
    <2> QED
      BY <2>1, <2>2, <2>3, <2>4, <2>5, <2>6, <2>7, <2>8, <2>9, <2>10, <2>11, <2>12, <2>13, <2>14,
         <2>15
      DEF Next, Application, Engine, Render
  <1> QED BY <1>2, <1>6 DEF TypeOK

\* Between its steps the engine thread has a frame, and the device thread a packet.
LEMMA HeldStep ==
  ASSUME TypeOK, Held, [Next]_vars
  PROVE  Held'
  <1> USE DEF Held
  <1>1. CASE Application
    BY <1>1 DEF Application, StartPlay, StopPlay, Toggle, Seek, SeekFailed, EngineFree,
                queueVars, clockVars
  <1>2. CASE \/ \E p \in Pts : DecodeAudio(p)
             \/ \E p \in Pts, key \in BOOLEAN : DecodeVideo(p, key)
    BY <1>2 DEF DecodeAudio, DecodeVideo, EngineFree, clockVars
  <1>3. CASE RenderBegin \/ RenderLook \/ RenderTime \/ RenderClock \/ RenderTake
    BY <1>3 DEF RenderBegin, RenderLook, RenderTime, RenderClock, RenderTake,
                playerVars, sourceVars, queueVars
  <1>4. CASE RenderPts
    BY <1>4, Fronts DEF RenderPts, playerVars, sourceVars, queueVars, Pts
  <1>5. CASE AudPop
    BY <1>5, Fronts DEF AudPop, playerVars
  <1>6. CASE AudClock
    BY <1>6 DEF AudClock, SetTime, SetPts, playerVars, sourceVars, queueVars, Pts
  <1>7. CASE Elapse \/ UNCHANGED vars
    BY <1>7 DEF Elapse, vars, playerVars, sourceVars, queueVars, clockVars
  <1> QED
    BY <1>1, <1>2, <1>3, <1>4, <1>5, <1>6, <1>7 DEF Next, Engine, Render

\* The gate opens only at a key frame, and only what passes it can depend on what did not.
LEMMA GatedStep ==
  ASSUME TypeOK, Gated, [Next]_vars
  PROVE  Gated'
  <1> USE DEF Gated
  <1>1. CASE \/ \E m \in Modes, p \in Pts : StartPlay(m, p)
             \/ StopPlay \/ \E t \in Toggles : Toggle(t)
             \/ \E p \in Pts : DecodeAudio(p)
    BY <1>1 DEF StartPlay, StopPlay, Toggle, DecodeAudio, queueVars, histVars
  <1>2. ASSUME NEW p \in Pts, NEW key \in BOOLEAN, DecodeVideo(p, key) PROVE Gated'
    <2>1. CASE needKey' \/ "background" \in off
      BY <1>2, <2>1 DEF DecodeVideo, Gate
    <2>2. CASE ~(needKey' \/ "background" \in off)
      <3>1. key \/ ~needKey
        BY <1>2, <2>2 DEF DecodeVideo, Gate
      <3>2. /\ intact' = (key \/ intact) /\ cut' = (cut /\ ~key)
            /\ garbled' = (garbled \/ ~(intact' \/ cut'))
        BY <1>2, <2>2 DEF DecodeVideo
      <3> QED BY <3>1, <3>2 DEF TypeOK
    <2> QED BY <2>1, <2>2
  <1>3. CASE Render
    BY <1>3 DEF Render, RenderBegin, RenderLook, RenderTime, RenderPts, RenderClock, RenderTake,
                queueVars, histVars
  <1>4. CASE SeekFailed
    BY <1>4 DEF SeekFailed, queueVars
  <1>5. ASSUME NEW p \in Pts, Seek(p) PROVE Gated'
    <2>1. UNCHANGED <<needKey, garbled>>
      BY <1>5 DEF Seek, queueVars
    <2>2. intact \/ cut => intact' \/ cut'
      BY <1>5, Zenon DEF Seek
    <2> QED BY <2>1, <2>2
  <1>6. CASE AudPop \/ AudClock \/ Elapse \/ UNCHANGED vars
    BY <1>6 DEF AudPop, AudClock, Elapse, vars, queueVars, histVars
  <1> QED BY <1>1, <1>2, <1>3, <1>4, <1>5, <1>6 DEF Next, Application, Engine
-----------------------------------------------------------------------------
(***************************************************************************)
(* The clock.                                                              *)
(***************************************************************************)

\* The numbers of the clock.
LEMMA ClockTypes ==
  ASSUME TypeOK
  PROVE  /\ MaxPts \in Nat /\ limit \in 0..MaxPts
         /\ base \in 0..MaxPts /\ since \in 0..MaxPts /\ clk \in 0..MaxPts /\ devPts \in 0..MaxPts
         /\ vid # <<>> => Head(vid) \in 1..MaxPts
         /\ aud # <<>> => Head(aud) \in 1..MaxPts
  BY Fronts, PlayBufferAssumption DEF TypeOK, Pts

\* A clock that is not ahead stays so while time passes.
LEMMA WithinElapse ==
  ASSUME TypeOK, Elapse, NEW p \in 1..MaxPts, Within(p, since)
  PROVE  p + since' <= limit' \/ limit' = MaxPts
  <1>1. limit # 0
    BY ClockTypes DEF Within
  <1>2. limit' = Capped(limit + 1) /\ since' = Capped(since + 1)
    BY <1>1 DEF Elapse
  <1> QED BY <1>1, <1>2, ClockTypes DEF Within, Capped

\* The clock survives every step that leaves it alone, whatever else happens.
LEMMA BehindUnchanged ==
  ASSUME Behind, UNCHANGED <<base, since, clk, dev, devPts, limit, torn, eng>>,
         eng = "pts" => UNCHANGED vid
  PROVE  Behind'
  BY DEF Behind, Within

\* No step lets a clock, complete or half written, run ahead.
LEMMA BehindStep ==
  ASSUME TypeOK, TypeOK', Held, Behind, [Next]_vars
  PROVE  Behind'
  <1>0. limit' \in 0..MaxPts /\ MaxPts \in Nat
    BY PlayBufferAssumption DEF TypeOK
  <1>1. CASE Application \/ (\E p \in Pts : DecodeAudio(p)) \/ UNCHANGED vars
    <2>1. UNCHANGED <<base, since, clk, dev, devPts, limit, torn, eng>>
      BY <1>1 DEF Application, StartPlay, StopPlay, Toggle, Seek, SeekFailed, DecodeAudio, vars,
                  clockVars, histVars
    <2>2. eng = "pts" => UNCHANGED vid
      BY <1>1 DEF Application, StartPlay, StopPlay, Toggle, Seek, SeekFailed, DecodeAudio,
                  EngineFree, vars, queueVars
    <2> QED BY <2>1, <2>2, BehindUnchanged
  <1>2. ASSUME NEW p \in Pts, NEW key \in BOOLEAN, DecodeVideo(p, key) PROVE Behind'
    BY <1>2, BehindUnchanged DEF DecodeVideo, EngineFree, clockVars
  <1>3. CASE RenderBegin \/ RenderLook
    BY <1>3 DEF RenderBegin, RenderLook, Behind, Within, queueVars, histVars
  <1>4. CASE RenderTime
    <2>1. /\ since' = 0 /\ limit' = Larger(limit, Head(vid)) /\ eng' = "pts"
          /\ UNCHANGED <<base, dev, devPts, vid>>
      BY <1>4 DEF RenderTime, queueVars
    <2>2. Head(vid) \in 1..MaxPts
      BY <1>4, ClockTypes DEF RenderTime, Held
    <2>3. limit <= limit' /\ Head(vid) <= limit'
      BY <2>1, <2>2, ClockTypes DEF Larger
    <2>4. base # 0 => Within(base, since)'
      BY <1>0, <2>1, <2>3, ClockTypes DEF Behind, Within
    <2>5. /\ dev = "time" => Within(devPts, 0)'
          /\ dev = "pts" => Within(devPts, since)'
      BY <1>0, <2>1, <2>3, ClockTypes DEF Behind, Within
    <2>6. Within(Head(vid), since)'
      BY <2>1, <2>2, <2>3 DEF Within
    <2> QED BY <2>1, <2>4, <2>5, <2>6 DEF Behind
  <1>5. CASE RenderPts
    BY <1>5 DEF RenderPts, Behind, Within, queueVars, histVars
  <1>6. CASE RenderClock
    BY <1>6 DEF RenderClock, Held, Behind, Within, queueVars, histVars
  <1>7. CASE RenderTake
    BY <1>7 DEF RenderTake, Behind, Within
  <1>8. CASE AudPop
    <2>1. /\ limit' = Larger(limit, Head(aud)) /\ dev = "idle" /\ dev' = "time"
          /\ devPts' = Head(aud) /\ UNCHANGED <<base, since, eng, clk, vid, torn>>
      BY <1>8 DEF AudPop
    <2>2. Head(aud) \in 1..MaxPts
      BY <1>8, ClockTypes DEF AudPop
    <2>3. limit <= limit' /\ Head(aud) <= limit'
      BY <2>1, <2>2, ClockTypes DEF Larger
    <2>4. Within(devPts, 0)'
      BY <2>1, <2>2, <2>3 DEF Within
    <2>5. base # 0 => Within(base, since)'
      BY <1>0, <2>1, <2>3, ClockTypes DEF Behind, Within
    <2>6. eng = "take" => (torn \/ Within(base, clk))'
      BY <1>0, <2>1, <2>3, ClockTypes DEF Behind, Within
    <2>7. eng = "pts" => Within(Head(vid), since)'
      BY <1>0, <2>1, <2>3, ClockTypes DEF Behind, Held, Within
    <2> QED BY <2>1, <2>4, <2>5, <2>6, <2>7 DEF Behind
  <1>9. CASE AudClock
    <2>1. UNCHANGED <<eng, clk, limit, vid>>
      BY <1>9 DEF AudClock, queueVars
    <2>2. CASE dev = "time"
      <3>1. dev' = "pts" /\ since' = 0 /\ UNCHANGED <<base, torn, devPts>>
        BY <1>9, <2>2 DEF AudClock, SetTime
      <3>2. Within(devPts, 0) /\ devPts + 0 = devPts
        BY <2>2, ClockTypes DEF Behind
      <3>3. base # 0 => Within(base, since)'
        BY <2>1, <3>1, ClockTypes DEF Behind, Within
      <3>4. eng = "pts" => Within(Head(vid), since)'
        BY <2>1, <3>1, ClockTypes DEF Behind, Held, Within
      <3>5. Within(devPts, since)'
        BY <2>1, <3>1, <3>2 DEF Within
      <3>6. eng = "take" => (torn \/ Within(base, clk))'
        BY <2>1, <3>1 DEF Behind, Within
      <3> QED BY <2>1, <3>1, <3>3, <3>4, <3>5, <3>6 DEF Behind
    <2>3. CASE dev = "pts"
      <3>1. dev' = "idle" /\ base' = devPts /\ UNCHANGED since /\ torn' = (torn \/ eng = "take")
        BY <1>9, <2>3 DEF AudClock, SetPts
      <3>2. Within(base, since)'
        BY <2>1, <2>3, <3>1 DEF Behind, Within
      <3>3. eng = "pts" => Within(Head(vid), since)'
        BY <2>1, <3>1 DEF Behind, Within
      <3> QED BY <2>1, <3>1, <3>2, <3>3 DEF Behind
    <2> QED BY <1>9, <2>2, <2>3 DEF AudClock
  <1>10. CASE Elapse
    <2>1. UNCHANGED <<base, clk, dev, devPts, eng, vid, torn>>
      BY <1>10 DEF Elapse, queueVars
    <2>2. limit <= limit'
      BY <1>10, ClockTypes DEF Elapse, Capped
    <2>3. base # 0 => Within(base, since)'
      BY <1>10, <2>1, WithinElapse, ClockTypes DEF Behind, Within
    <2>4. dev = "pts" => Within(devPts, since)'
      BY <1>10, <2>1, WithinElapse DEF Behind, Held, Pts, Within
    <2>5. eng = "pts" => Within(Head(vid), since)'
      BY <1>10, <2>1, WithinElapse, ClockTypes DEF Behind, Held, Within
    <2>6. eng = "take" => (torn \/ Within(base, clk))'
      BY <1>0, <2>1, <2>2, ClockTypes DEF Behind, Within
    <2>7. dev = "time" => Within(devPts, 0)'
      BY <1>0, <2>1, <2>2, ClockTypes DEF Behind, Within
    <2> QED BY <2>1, <2>3, <2>4, <2>5, <2>6, <2>7 DEF Behind
  <1> QED
    BY <1>1, <1>2, <1>3, <1>4, <1>5, <1>6, <1>7, <1>8, <1>9, <1>10 DEF Next, Engine, Render

-----------------------------------------------------------------------------
LEMMA InitInv == Init => IInv
  <1> SUFFICES ASSUME Init PROVE IInv
    OBVIOUS
  <1>1. aud = <<>> /\ vid = <<>> /\ Len(aud) = 0 /\ Len(vid) = 0
    BY DEF Init
  <1>2. TypeOK
    <2>1. aud \in Seq(Pts) /\ vid \in Seq(Pts)
      BY <1>1
    <2>2. /\ 0 \in 0..MaxPts /\ MaxPts \in 0..MaxPts /\ 1 \in 1..(MaxPts + 1)
          /\ 0 \in 0..MaxSeeks /\ {} \subseteq Toggles
      BY PlayBufferAssumption
    <2> QED BY <2>1, <2>2 DEF Init, TypeOK
  <1>3. Bounded /\ VideoSorted
    BY <1>1, Half, PlayBufferAssumption DEF Bounded, VideoSorted, MaxVideo
  <1>4. Held /\ Gated /\ Behind
    BY DEF Init, Held, Gated, Behind
  <1> QED BY <1>2, <1>3, <1>4 DEF IInv

LEMMA StepInv == IInv /\ [Next]_vars => IInv'
  <1> SUFFICES ASSUME IInv, [Next]_vars PROVE IInv'
    OBVIOUS
  <1>1. TypeOK'
    BY TypeStep DEF IInv
  <1>2. Bounded' /\ VideoSorted'
    BY QueuesStep DEF IInv, Queues, TypeOK
  <1>3. Held' /\ Gated' /\ Behind'
    BY <1>1, HeldStep, GatedStep, BehindStep DEF IInv
  <1> QED BY <1>1, <1>2, <1>3 DEF IInv

\* The inductive invariant holds in every reachable state.
THEOREM Invariant == Spec => []IInv
  BY InitInv, StepInv, PTL DEF Spec

\* Every variable keeps its type, for every size of the queues.
THEOREM TypeCorrect == Spec => []TypeOK
  <1>1. IInv => TypeOK
    BY DEF IInv
  <1> QED BY <1>1, Invariant, PTL

\* Neither queue outgrows its limit, however the threads interleave.
THEOREM QueuesBounded == Spec => []Bounded
  <1>1. IInv => Bounded
    BY DEF IInv
  <1> QED BY <1>1, Invariant, PTL

\* The video queue is in presentation order after any seeks.
THEOREM QueueSorted == Spec => []VideoSorted
  <1>1. IInv => VideoSorted
    BY DEF IInv
  <1> QED BY <1>1, Invariant, PTL

\* The decoder is never given a packet without those it depends on, unless a seek has cut
\* them off since the last key frame.
THEOREM DecoderFed == Spec => []DecodesFromKey
  <1>1. IInv => DecodesFromKey
    BY DEF IInv, Gated, DecodesFromKey
  <1> QED BY <1>1, Invariant, PTL

\* A rendered frame is not ahead of the presentation unless the clock's two reads were torn.
THEOREM NotAhead == Spec => AheadOnlyIfTorn
  <1> DEFINE A == ~rendered /\ rendered' => Head(vid) <= limit \/ torn
  <1>1. IInv /\ [Next]_vars => [A]_vars
    <2> SUFFICES ASSUME IInv, Next, ~rendered, rendered' PROVE Head(vid) <= limit \/ torn
      BY DEF vars, clockVars
    <2>1. RenderTake
      BY DEF Next, Application, StartPlay, StopPlay, Toggle, Seek, SeekFailed, Engine,
             DecodeAudio, DecodeVideo, Render, RenderBegin, RenderLook, RenderTime, RenderPts, RenderClock, AudPop, AudClock,
             Elapse, clockVars
    <2>2. eng = "take" /\ Head(vid) <= clk + base
      BY <2>1 DEF RenderTake
    <2>3. torn \/ Within(base, clk)
      BY <2>2 DEF IInv, Behind
    <2>4. Head(vid) \in 1..MaxPts
      BY <2>2, ClockTypes DEF IInv, Held
    <2> QED BY <2>2, <2>3, <2>4, ClockTypes DEF IInv, Within
  <1> QED BY <1>1, Invariant, PTL DEF Spec, AheadOnlyIfTorn
=============================================================================
