--------------------------- MODULE FFBufferProofs ---------------------------
(***************************************************************************)
(* Proofs about FFBuffer, for every setting of its times, every kind of    *)
(* source and every bound: the types, what a clearing leaves behind, that  *)
(* each stream implements PacketFlow, and that a full buffer is played.    *)
(*                                                                         *)
(* The inductive invariant has four parts beside the types.  Hands says    *)
(* when a tick holds packets, which is what keeps a packet that is handed  *)
(* on directly from overtaking them; Order that the packets of a stream    *)
(* are numbered upwards from the decoders' end; Stale how far a clearing   *)
(* has got with the packets from before it; and Ends what BufferIsEmpty    *)
(* has seen when it has looked at one stream, or at both.                  *)
(***************************************************************************)
EXTENDS FFBuffer, SequenceTheorems, TLAPS

Hands ==
  \A s \in Streams :
    hand[s] # <<>> => tk = "push" \/ (tk = "takeAudio" /\ s = "video")

Increasing(q, n) ==
  \A i \in 1..Len(q) : q[i].n <= n /\ \A j \in 1..Len(q) : i < j => q[i].n < q[j].n

Order == \A s \in Streams : Increasing(Inside(s), sent[s])

\* The packets of stream s in the receive list, and in the others, may still be old.
RecvUncleared(s) == rd = "recvAudio" \/ (s = "video" /\ rd = "recvVideo")
DecUncleared(s) ==
  rd \in {"recvAudio", "recvVideo", "decAudio"} \/ (s = "video" /\ rd = "decVideo")

Ahead(s) == Numbers(dec[s]) \cup Numbers(hand[s])

Stale ==
  \A s \in Streams :
    /\ fresh[s] <= sent[s] + 1
    /\ \A n \in Numbers(recv[s]) : n < fresh[s] => RecvUncleared(s)
    /\ \A n \in Ahead(s) : n < fresh[s] => n \in held[s] \/ DecUncleared(s)

Seen(s) == recv[s] = <<>> /\ Ahead(s) \subseteq held[s]

Ends ==
  /\ rd = "endAudio" => Seen("video")
  /\ closing => Clearing /\ \A s \in Streams : Seen(s)

IInv == TypeOK /\ Hands /\ Order /\ Stale /\ Ends

-----------------------------------------------------------------------------
(***************************************************************************)
(* Lists of packets.                                                       *)
(***************************************************************************)

LEMMA NumbersOf ==
  ASSUME NEW q \in Seq(Packet)
  PROVE  /\ Numbers(q) = {q[i].n : i \in 1..Len(q)}
         /\ Numbers(q) \subseteq 1..MaxSent
<1>1. DOMAIN q = 1..Len(q) /\ \A i \in 1..Len(q) : q[i] \in Packet
  BY LenProperties, ElementOfSeq
<1> QED
  BY <1>1 DEF Numbers, Packet

\* A list is cut in two.
LEMMA Cut ==
  ASSUME NEW q \in Seq(Packet), NEW k \in 0..Len(q)
  PROVE  /\ SubSeq(q, 1, k) \in Seq(Packet) /\ SubSeq(q, k + 1, Len(q)) \in Seq(Packet)
         /\ SubSeq(q, 1, k) \o SubSeq(q, k + 1, Len(q)) = q
         /\ Numbers(SubSeq(q, 1, k)) \subseteq Numbers(q)
         /\ Numbers(SubSeq(q, k + 1, Len(q))) \subseteq Numbers(q)
<1> DEFINE a == SubSeq(q, 1, k)
           b == SubSeq(q, k + 1, Len(q))
<1>0. Len(q) \in Nat /\ \A i \in 1..Len(q) : q[i] \in Packet
  BY LenProperties, ElementOfSeq
<1>1. a \in Seq(Packet) /\ Len(a) = k /\ \A i \in 1..k : a[i] = q[i]
  <2>1. k \in Int /\ 1 \in Int /\ k - 1 + 1 = k /\ \A i \in 1..k : q[i] \in Packet /\ 1 + i - 1 = i
    BY <1>0
  <2>2. /\ a \in Seq(Packet) /\ Len(a) = IF 1 <= k THEN k - 1 + 1 ELSE 0
        /\ \A i \in 1..(k - 1 + 1) : a[i] = q[1 + i - 1]
    BY <2>1, SubSeqProperties
  <2> QED
    BY <2>1, <2>2
<1>2. /\ b \in Seq(Packet) /\ Len(b) = Len(q) - k
      /\ \A i \in 1..(Len(q) - k) : b[i] = q[k + i]
  <2>1. /\ k + 1 \in Int /\ Len(q) \in Int /\ Len(q) - (k + 1) + 1 = Len(q) - k
        /\ \A i \in (k + 1)..Len(q) : q[i] \in Packet
        /\ \A i \in 1..(Len(q) - k) : (k + 1) + i - 1 = k + i
    BY <1>0
  <2>2. /\ b \in Seq(Packet)
        /\ Len(b) = IF k + 1 <= Len(q) THEN Len(q) - (k + 1) + 1 ELSE 0
        /\ \A i \in 1..(Len(q) - (k + 1) + 1) : b[i] = q[(k + 1) + i - 1]
    BY <2>1, SubSeqProperties
  <2>3. Len(b) = Len(q) - k
    BY <2>2, <1>0
  <2> QED
    BY <2>1, <2>2, <2>3
<1>3. a \o b = q
  <2>1. /\ 1 \in 1..(Len(q) + 1) /\ k \in (1 - 1)..Len(q) /\ Len(q) \in k..Len(q)
    BY <1>0
  <2>2. SubSeq(q, 1, k) \o SubSeq(q, k + 1, Len(q)) = SubSeq(q, 1, Len(q))
    BY <2>1, ConcatAdjacentSubSeq
  <2> QED
    BY <2>2, SubSeqFull
<1> HIDE DEF a, b
<1>4. Numbers(a) \subseteq Numbers(q)
  BY <1>0, <1>1, NumbersOf
<1>5. Numbers(b) \subseteq Numbers(q)
  <2>1. \A i \in 1..Len(b) : k + i \in 1..Len(q) /\ b[i] = q[k + i]
    BY <1>0, <1>2
  <2> QED
    BY <2>1, <1>2, NumbersOf
<1> QED
  BY <1>1, <1>2, <1>3, <1>4, <1>5 DEF a, b

\* The packet at the front of one list goes to the end of another.
LEMMA Hop ==
  ASSUME NEW q \in Seq(Packet), q # <<>>, NEW d \in Seq(Packet)
  PROVE  /\ Head(q) \in Packet /\ Tail(q) \in Seq(Packet)
         /\ Append(d, Head(q)) \in Seq(Packet)
         /\ Append(d, Head(q)) \o Tail(q) = d \o q
         /\ Numbers(Tail(q)) \subseteq Numbers(q) /\ Head(q).n \in Numbers(q)
         /\ Numbers(Append(d, Head(q))) = Numbers(d) \cup {Head(q).n}
<1>1. Len(q) \in Nat \ {0} /\ Len(d) \in Nat /\ q[1] \in Packet /\ Head(q) = q[1]
  BY EmptySeq, LenProperties, ElementOfSeq
<1> DEFINE e == Append(d, Head(q))
           t == Tail(q)
<1>2. /\ t \in Seq(Packet) /\ Len(t) = Len(q) - 1 /\ Len(t) \in Nat
      /\ \A i \in 1..Len(t) : t[i] = q[i + 1]
  BY <1>1, HeadTailProperties
<1>3. /\ e \in Seq(Packet) /\ Len(e) = Len(d) + 1 /\ e[Len(d) + 1] = q[1]
      /\ \A i \in 1..Len(d) : e[i] = d[i]
  BY <1>1, AppendProperties
<1> HIDE DEF e, t
<1>4. e \o t = d \o q
  <2>1. /\ e \o t \in Seq(Packet) /\ Len(e \o t) = Len(e) + Len(t)
        /\ \A i \in 1..Len(e) + Len(t) : (e \o t)[i] = IF i <= Len(e) THEN e[i] ELSE t[i - Len(e)]
    BY <1>2, <1>3, ConcatProperties
  <2>2. /\ d \o q \in Seq(Packet) /\ Len(d \o q) = Len(d) + Len(q)
        /\ \A i \in 1..Len(d) + Len(q) : (d \o q)[i] = IF i <= Len(d) THEN d[i] ELSE q[i - Len(d)]
    BY ConcatProperties
  <2>3. ASSUME NEW i \in 1..Len(e \o t) PROVE (e \o t)[i] = (d \o q)[i]
    <3>0. i \in 1..Len(e) + Len(t) /\ i \in 1..Len(d) + Len(q) /\ i \in Nat
      BY <1>1, <1>2, <1>3, <2>1
    <3>1. CASE i <= Len(d)
      <4>1. i \in 1..Len(d) /\ i <= Len(e)
        BY <3>0, <3>1, <1>1, <1>3
      <4> QED
        BY <3>0, <3>1, <4>1, <1>3, <2>1, <2>2
    <3>2. CASE i = Len(d) + 1
      <4>1. i <= Len(e) /\ ~(i <= Len(d)) /\ i - Len(d) = 1
        BY <3>2, <1>1, <1>3
      <4> QED
        BY <3>0, <3>2, <4>1, <1>3, <2>1, <2>2
    <3>3. CASE i > Len(d) + 1
      <4>1. /\ i - Len(e) \in 1..Len(t) /\ (i - Len(e)) + 1 = i - Len(d)
            /\ ~(i <= Len(d)) /\ ~(i <= Len(e))
        BY <3>0, <3>3, <1>1, <1>2, <1>3
      <4> QED
        BY <3>0, <4>1, <1>2, <2>1, <2>2
    <3> QED
      BY <3>0, <3>1, <3>2, <3>3, <1>1
  <2>4. Len(e \o t) = Len(d \o q)
    BY <2>1, <2>2, <1>1, <1>2, <1>3
  <2> QED
    BY <2>1, <2>2, <2>3, <2>4, SeqEqual
<1>5. Numbers(t) \subseteq Numbers(q) /\ Head(q).n \in Numbers(q)
  <2>1. \A i \in 1..Len(t) : i + 1 \in 1..Len(q) /\ t[i] = q[i + 1]
    BY <1>1, <1>2
  <2>2. 1 \in 1..Len(q) /\ Head(q) = q[1]
    BY <1>1
  <2>3. Numbers(q) = {q[i].n : i \in 1..Len(q)} /\ Numbers(t) = {t[i].n : i \in 1..Len(t)}
    BY <1>2, NumbersOf
  <2> QED
    BY <2>1, <2>2, <2>3
<1>6. Numbers(e) = Numbers(d) \cup {Head(q).n}
  <2>1. Numbers(e) = {e[i].n : i \in 1..(Len(d) + 1)}
    BY <1>3, NumbersOf
  <2>2. Numbers(d) = {d[i].n : i \in 1..Len(d)}
    BY NumbersOf
  <2>3. \A i \in 1..(Len(d) + 1) : i \in 1..Len(d) \/ i = Len(d) + 1
    BY <1>1
  <2>4. \A i \in 1..Len(d) : i \in 1..(Len(d) + 1)
    BY <1>1
  <2> QED
    BY <2>1, <2>2, <2>3, <2>4, <1>1, <1>3
<1> QED
  BY <1>1, <1>2, <1>3, <1>4, <1>5, <1>6 DEF e, t

LEMMA NumbersConcat ==
  ASSUME NEW a \in Seq(Packet), NEW b \in Seq(Packet)
  PROVE  a \o b \in Seq(Packet) /\ Numbers(a \o b) = Numbers(a) \cup Numbers(b)
<1> DEFINE c == a \o b
<1>1. /\ c \in Seq(Packet) /\ Len(c) = Len(a) + Len(b) /\ Len(a) \in Nat /\ Len(b) \in Nat
      /\ \A i \in 1..Len(a) + Len(b) : c[i] = IF i <= Len(a) THEN a[i] ELSE b[i - Len(a)]
  BY ConcatProperties, LenProperties
<1> HIDE DEF c
<1>2. Numbers(c) = {c[i].n : i \in 1..Len(c)} /\ Numbers(a) = {a[i].n : i \in 1..Len(a)}
      /\ Numbers(b) = {b[i].n : i \in 1..Len(b)}
  BY <1>1, NumbersOf
<1>3. \A i \in 1..Len(a) : i \in 1..Len(c) /\ c[i] = a[i]
  BY <1>1
<1>4. \A i \in 1..Len(b) : Len(a) + i \in 1..Len(c) /\ c[Len(a) + i] = b[i]
  BY <1>1, SMTT(30)
<1>5. ASSUME NEW i \in 1..Len(c) PROVE c[i].n \in Numbers(a) \cup Numbers(b)
  <2>0. i \in 1..Len(a) + Len(b) /\ i \in Nat
    BY <1>1
  <2>1. CASE i <= Len(a)
    <3>1. i \in 1..Len(a) /\ c[i] = a[i]
      BY <2>0, <2>1, <1>1
    <3> QED
      BY <3>1, <1>2
  <2>2. CASE i > Len(a)
    <3>1. i - Len(a) \in 1..Len(b) /\ ~(i <= Len(a))
      BY <2>0, <2>2, <1>1
    <3>2. c[i] = b[i - Len(a)]
      BY <2>0, <3>1, <1>1
    <3> QED
      BY <3>1, <3>2, <1>2
  <2> QED
    BY <2>0, <2>1, <2>2, <1>1
<1>6. Numbers(a) \subseteq Numbers(c) /\ Numbers(b) \subseteq Numbers(c)
  BY <1>2, <1>3, <1>4
<1>7. Numbers(c) \subseteq Numbers(a) \cup Numbers(b)
  BY <1>2, <1>5
<1> QED
  BY <1>1, <1>6, <1>7 DEF c
-----------------------------------------------------------------------------
(***************************************************************************)
(* The types.                                                              *)
(***************************************************************************)

LEMMA ListTypesStep ==
  ASSUME TypeOK, [Next]_vars
  PROVE  ListTypes'
<1> USE FFBufferAssumption
<1>0. /\ recv \in [Streams -> Seq(Packet)] /\ hand \in [Streams -> Seq(Packet)]
      /\ dec \in [Streams -> Seq(Packet)]
  BY DEF TypeOK, ListTypes
<1>1. ASSUME NEW s \in Streams, NEW here, NEW next, NEW old, TickFirst(s, here, next, old)
      PROVE  ListTypes'
  <2>1. CASE recv[s] = <<>> \/ ~old
    <3>1. UNCHANGED lists
      BY <1>1, <2>1 DEF TickFirst, lists
    <3> QED
      BY <1>0, <3>1 DEF lists, ListTypes
  <2>2. CASE recv[s] # <<>> /\ old
    <3>1. /\ Tail(recv[s]) \in Seq(Packet)
          /\ Append(dec[s], Head(recv[s])) \in Seq(Packet)
      BY <1>0, <2>2, Hop
    <3>2. /\ recv' = [recv EXCEPT ![s] = Tail(recv[s])] /\ hand' = hand
          /\ dec' = [dec EXCEPT ![s] = Append(dec[s], Head(recv[s]))]
      BY <1>1, <2>2 DEF TickFirst
    <3> QED
      BY <1>0, <3>1, <3>2 DEF ListTypes
  <2> QED
    BY <2>1, <2>2
<1>2. ASSUME NEW s \in Streams, NEW here, NEW next, TickTake(s, here, next)
      PROVE  ListTypes'
  <2>1. PICK k \in DueCounts(recv[s], due) :
          /\ hand' = [hand EXCEPT ![s] = SubSeq(recv[s], 1, k)]
          /\ recv' = [recv EXCEPT ![s] = SubSeq(recv[s], k + 1, Len(recv[s]))]
    BY <1>2 DEF TickTake
  <2>2. k \in 0..Len(recv[s])
    BY DEF DueCounts
  <2>3. /\ SubSeq(recv[s], 1, k) \in Seq(Packet)
        /\ SubSeq(recv[s], k + 1, Len(recv[s])) \in Seq(Packet)
    BY <1>0, <2>2, Cut
  <2>4. dec' = dec
    BY <1>2 DEF TickTake
  <2> QED
    BY <1>0, <2>1, <2>3, <2>4 DEF ListTypes
<1>3. ASSUME NEW s \in Streams, TickPush(s)
      PROVE  ListTypes'
  <2>1. /\ hand[s] # <<>> /\ hand' = [hand EXCEPT ![s] = Tail(hand[s])] /\ recv' = recv
        /\ dec' = [dec EXCEPT ![s] = Append(dec[s], Head(hand[s]))]
    BY <1>3 DEF TickPush
  <2>2. /\ Tail(hand[s]) \in Seq(Packet)
        /\ Append(dec[s], Head(hand[s])) \in Seq(Packet)
    BY <1>0, <2>1, Hop
  <2> QED
    BY <1>0, <2>1, <2>2 DEF ListTypes
<1>4. ASSUME NEW s \in Streams, DoDecode(s)
      PROVE  ListTypes'
  <2>1. dec[s] # <<>> /\ dec' = [dec EXCEPT ![s] = Tail(dec[s])] /\ UNCHANGED <<recv, hand>>
    BY <1>4 DEF DoDecode
  <2>2. Tail(dec[s]) \in Seq(Packet)
    BY <1>0, <2>1, Hop
  <2> QED
    BY <1>0, <2>1, <2>2 DEF ListTypes
<1>5. ASSUME NEW s \in Present, NEW jump \in {0, Gap}, Recv(s, jump)
      PROVE  ListTypes'
  <2> DEFINE p == [n |-> sent[s] + 1, dts |-> pos[s] + jump]
  <2>0. s \in Streams
    BY DEF Streams
  <2>1. p \in Packet
    <3>1. /\ sent["audio"] \in Nat /\ sent["video"] \in Nat /\ pos[s] \in Nat /\ jump \in Nat
          /\ sent["audio"] + sent["video"] < MaxSent /\ pos[s] + jump <= MaxDts
      BY <1>5, <2>0 DEF Recv, TypeOK, ReadTypes, Streams
    <3> QED
      BY <2>0, <3>1 DEF Packet, Streams
  <2>2. recv' = [recv EXCEPT ![s] = Append(recv[s], p)] /\ UNCHANGED <<hand, dec>>
    BY <1>5 DEF Recv
  <2> HIDE DEF p
  <2>3. Append(recv[s], p) \in Seq(Packet)
    BY <1>0, <2>0, <2>1, AppendProperties
  <2> QED
    BY <1>0, <2>0, <2>2, <2>3 DEF ListTypes
<1>6. ASSUME NEW s \in Streams, NEW here, NEW next,
             ClearRecv(s, here, next) \/ ClearDec(s, here, next)
      PROVE  ListTypes'
  <2>1. <<>> \in Seq(Packet)
    BY EmptySeq
  <2>2. /\ recv' = recv \/ recv' = [recv EXCEPT ![s] = <<>>]
        /\ dec' = dec \/ dec' = [dec EXCEPT ![s] = <<>>]
        /\ hand' = hand
    BY <1>6 DEF ClearRecv, ClearDec
  <2> QED
    BY <1>0, <2>1, <2>2 DEF ListTypes
<1>7. ASSUME UNCHANGED lists PROVE ListTypes'
  BY <1>0, <1>7 DEF lists, ListTypes
<1>8. ASSUME NEW gap, TickPlay(gap) PROVE ListTypes'
  BY <1>7, <1>8 DEF TickPlay
<1>9. ASSUME NEW s, NEW here, EndedRest(s, here) PROVE ListTypes'
  BY <1>7, <1>9 DEF EndedRest
<1>10. CASE TickFill \/ TickReset \/ TickStart \/ TickWait \/ TickEnd
  BY <1>7, <1>10 DEF TickFill, TickReset, TickStart, TickWait, TickEnd
<1>11. CASE ReadEof \/ Seek \/ ClearTimes \/ Reopen \/ EndedVideo \/ EndedClose
  BY <1>7, <1>11 DEF ReadEof, Seek, ClearTimes, Reopen, EndedVideo, EndedClose
<1>12. CASE UNCHANGED vars
  BY <1>7, <1>12 DEF vars
<1>13. "audio" \in Streams /\ "video" \in Streams
  BY DEF Streams
<1> QED
  BY <1>1, <1>2, <1>3, <1>4, <1>5, <1>6, <1>8, <1>9, <1>10, <1>11, <1>12, <1>13
     DEF Next, Engine, TickStep, Read, Clear

LEMMA ClockTypesStep ==
  ASSUME TypeOK, [Next]_vars
  PROVE  ClockTypes'
<1> USE FFBufferAssumption
<1>0. /\ play \in {"Init", "Caching", "Playing"} /\ reset \in BOOLEAN
      /\ clock \in 0..MaxDts /\ last \in [Streams -> 0..MaxDts]
      /\ toPlay \in MinTime..CacheToPlayMax
  BY DEF TypeOK, ClockTypes
<1>1. ASSUME UNCHANGED clockVars PROVE ClockTypes'
  BY <1>0, <1>1 DEF clockVars, ClockTypes, CacheToPlayMax
<1>2. ASSUME TickReset \/ TickStart PROVE ClockTypes'
  <2>1. FirstDts \in 0..MaxDts
    BY DEF TypeOK, TickTypes, Streams, FirstDts
  <2>2. /\ clock' = FirstDts /\ UNCHANGED <<last, toPlay>>
        /\ play' \in {play, "Playing"} /\ reset' \in BOOLEAN
    BY <1>0, <1>2 DEF TickReset, TickStart
  <2> QED
    BY <1>0, <2>1, <2>2 DEF ClockTypes, CacheToPlayMax
<1>3. ASSUME NEW gap \in {0, 1}, TickPlay(gap) PROVE ClockTypes'
  <2>1. Capped(clock + gap) \in 0..MaxDts
    BY <1>0 DEF Capped
  <2> QED
    BY <1>0, <1>3, <2>1 DEF TickPlay, ClockTypes, CacheToPlayMax
<1>4. ASSUME NEW s \in Streams, NEW here, NEW next, TickTake(s, here, next)
      PROVE  ClockTypes'
  <2>1. reset' \in BOOLEAN /\ UNCHANGED <<play, clock, last, toPlay>>
    BY <1>4 DEF TickTake
  <2> QED
    BY <1>0, <2>1 DEF ClockTypes, CacheToPlayMax
<1>5. ASSUME NEW s \in Streams, TickPush(s) PROVE ClockTypes'
  <2>1. Head(hand[s]) \in Packet
    BY <1>5, Hop DEF TickPush, TypeOK, ListTypes
  <2>2. Head(hand[s]).dts \in 0..MaxDts
    BY <2>1 DEF Packet
  <2> QED
    BY <1>0, <1>5, <2>2 DEF TickPush, ClockTypes, CacheToPlayMax
<1>6. ASSUME TickEnd PROVE ClockTypes'
  <2>1. toPlay' \in MinTime..CacheToPlayMax
    BY <1>0, <1>6 DEF TickEnd, Raised, CacheToPlayMax
  <2>2. play' \in {play, "Caching"} /\ UNCHANGED <<reset, clock, last>>
    BY <1>6 DEF TickEnd
  <2> QED
    BY <1>0, <2>1, <2>2 DEF ClockTypes, CacheToPlayMax
<1>7. ASSUME ClearTimes PROVE ClockTypes'
  BY <1>0, <1>7 DEF ClearTimes, ClockTypes, CacheToPlayMax
<1>8. ASSUME NEW s, NEW here, NEW next, NEW old,
             \/ TickFirst(s, here, next, old) \/ DoDecode(s) \/ EndedRest(s, here)
             \/ Recv(s, next) \/ ClearRecv(s, here, next) \/ ClearDec(s, here, next)
      PROVE  ClockTypes'
  BY <1>1, <1>8 DEF TickFirst, DoDecode, EndedRest, Recv, ClearRecv, ClearDec
<1>9. CASE TickFill \/ TickWait
  BY <1>1, <1>9 DEF TickFill, TickWait
<1>10. CASE ReadEof \/ Seek \/ Reopen \/ EndedVideo \/ EndedClose
  BY <1>1, <1>10 DEF ReadEof, Seek, Reopen, EndedVideo, EndedClose
<1>11. CASE UNCHANGED vars
  BY <1>1, <1>11 DEF vars
<1>12. "audio" \in Streams /\ "video" \in Streams
  BY DEF Streams
<1> QED
  BY <1>2, <1>3, <1>4, <1>5, <1>6, <1>7, <1>8, <1>9, <1>10, <1>11, <1>12
     DEF Next, Engine, TickStep, Read, Clear

LEMMA TickTypesStep ==
  ASSUME TypeOK, [Next]_vars
  PROVE  TickTypes'
<1> USE FFBufferAssumption
<1>0. /\ tk \in {"idle", "firstVideo", "firstAudio", "start", "takeVideo", "takeAudio", "push"}
      /\ first \in [Streams -> 0..MaxDts] /\ span \in Nat /\ due \in 0..MaxDts
      /\ some \in BOOLEAN /\ clock \in 0..MaxDts
  BY DEF TypeOK, TickTypes, ClockTypes
<1>1. ASSUME UNCHANGED tickVars PROVE TickTypes'
  BY <1>0, <1>1 DEF tickVars, TickTypes
<1>2. ASSUME LocalsDone PROVE TickTypes'
  <2>1. 0 \in 0..MaxDts
    BY SMT
  <2>2. first' \in [Streams -> 0..MaxDts]
    BY <1>2, <2>1 DEF LocalsDone
  <2>3. tk' = "idle" /\ span' = 0 /\ due' = 0 /\ some' = FALSE
    BY <1>2 DEF LocalsDone
  <2> QED
    BY <2>1, <2>2, <2>3 DEF TickTypes
<1>3. ASSUME TickFill PROVE TickTypes'
  BY <1>0, <1>3 DEF TickFill, TickTypes
<1>4. ASSUME NEW gap \in {0, 1}, TickPlay(gap) PROVE TickTypes'
  <2>1. Capped(clock + gap) \in 0..MaxDts
    BY <1>0 DEF Capped
  <2> QED
    BY <1>0, <1>4, <2>1 DEF TickPlay, TickTypes
<1>5. ASSUME NEW s \in Streams, NEW here, NEW old \in BOOLEAN,
             NEW next \in {"firstAudio", "start"}, TickFirst(s, here, next, old)
      PROVE  TickTypes'
  <2>0. tk' = next /\ UNCHANGED <<due, some>>
    BY <1>5 DEF TickFirst
  <2>1. CASE recv[s] = <<>>
    BY <1>0, <1>5, <2>0, <2>1 DEF TickFirst, TickTypes
  <2>2. CASE recv[s] # <<>>
    <3>0. recv[s] \in Seq(Packet)
      BY DEF TypeOK, ListTypes
    <3>1. /\ Len(recv[s]) \in Nat \ {0} /\ recv[s][1] \in Packet /\ recv[s][Len(recv[s])] \in Packet
      BY <2>2, <3>0, EmptySeq, LenProperties, ElementOfSeq
    <3>2. recv[s][1].dts \in 0..MaxDts /\ recv[s][Len(recv[s])].dts \in 0..MaxDts
      BY <3>1 DEF Packet
    <3>3. span' \in Nat
      <4>1. CacheTime(recv[s]) \in Int
        BY <2>2, <3>2 DEF CacheTime
      <4>2. Larger(span, CachingTime) \in Nat /\ Larger(span, CacheTime(recv[s])) \in Nat
        BY <1>0, <4>1 DEF Larger
      <4>3. span' = Larger(span, IF old THEN CachingTime ELSE CacheTime(recv[s]))
        BY <1>5, <2>2 DEF TickFirst
      <4> QED
        BY <4>2, <4>3
    <3>4. first' = [first EXCEPT ![s] = recv[s][1].dts]
      BY <1>5, <2>2 DEF TickFirst
    <3> QED
      BY <1>0, <2>0, <3>2, <3>3, <3>4 DEF TickTypes
  <2> QED
    BY <2>1, <2>2
<1>6. ASSUME NEW s \in Streams, NEW here, NEW next \in {"takeAudio", "push"}, TickTake(s, here, next)
      PROVE  TickTypes'
  <2>1. tk' = next /\ some' \in BOOLEAN /\ UNCHANGED <<first, span, due>>
    BY <1>6 DEF TickTake
  <2> QED
    BY <1>0, <2>1 DEF TickTypes
<1>7. CASE TickReset \/ TickStart \/ TickWait \/ TickEnd
  BY <1>2, <1>7 DEF TickReset, TickStart, TickWait, TickEnd
<1>8. ASSUME NEW s, NEW here, NEW next,
             \/ TickPush(s) \/ DoDecode(s) \/ EndedRest(s, here)
             \/ Recv(s, next) \/ ClearRecv(s, here, next) \/ ClearDec(s, here, next)
      PROVE  TickTypes'
  BY <1>1, <1>8 DEF TickPush, DoDecode, EndedRest, Recv, ClearRecv, ClearDec
<1>9. CASE ReadEof \/ Seek \/ ClearTimes \/ Reopen \/ EndedVideo \/ EndedClose
  BY <1>1, <1>9 DEF ReadEof, Seek, ClearTimes, Reopen, EndedVideo, EndedClose
<1>10. CASE UNCHANGED vars
  BY <1>1, <1>10 DEF vars
<1>11. "audio" \in Streams /\ "video" \in Streams
  BY DEF Streams
<1> QED
  BY <1>3, <1>4, <1>5, <1>6, <1>7, <1>8, <1>9, <1>10, <1>11 DEF Next, Engine, TickStep, Read, Clear

LEMMA ReadTypesStep ==
  ASSUME TypeOK, [Next]_vars
  PROVE  ReadTypes'
<1> USE FFBufferAssumption
<1>0. /\ rd \in {"loop", "recvAudio", "recvVideo", "decAudio", "decVideo", "times",
                 "endAudio", "closed"}
      /\ eof \in BOOLEAN /\ sent \in [Streams -> 0..MaxSent]
      /\ pos \in [Streams -> 0..(MaxDts + 1)] /\ clears \in 0..MaxClears
  BY DEF TypeOK, ReadTypes
<1>1. ASSUME UNCHANGED readVars PROVE ReadTypes'
  BY <1>0, <1>1 DEF readVars, ReadTypes
<1>2. ASSUME NEW s \in Present, NEW jump \in {0, Gap}, Recv(s, jump) PROVE ReadTypes'
  <2>1. /\ s \in Streams /\ sent["audio"] \in Nat /\ sent["video"] \in Nat /\ pos[s] \in Nat
        /\ jump \in Nat /\ sent["audio"] + sent["video"] < MaxSent /\ pos[s] + jump <= MaxDts
    BY <1>0, <1>2 DEF Recv, Streams
  <2>2. sent[s] + 1 \in 0..MaxSent /\ pos[s] + jump + 1 \in 0..(MaxDts + 1)
    BY <2>1 DEF Streams
  <2>3. /\ sent' = [sent EXCEPT ![s] = sent[s] + 1]
        /\ pos' = [pos EXCEPT ![s] = pos[s] + jump + 1] /\ UNCHANGED <<rd, eof, clears>>
    BY <1>2 DEF Recv
  <2> QED
    BY <1>0, <2>1, <2>2, <2>3 DEF ReadTypes
<1>3. ASSUME pos' \in {[s \in Streams |-> p] : p \in Positions}
      PROVE  pos' \in [Streams -> 0..(MaxDts + 1)]
  <2>1. PICK p \in Positions : pos' = [s \in Streams |-> p]
    BY <1>3
  <2>2. p \in 0..(MaxDts + 1)
    BY DEF Streams
  <2> QED
    BY <2>1, <2>2
<1>4. CASE Seek
  <2>1. pos' \in [Streams -> 0..(MaxDts + 1)]
    BY <1>0, <1>3, <1>4 DEF Seek
  <2>2. rd' = "recvAudio" /\ clears' \in 0..MaxClears /\ UNCHANGED <<eof, sent>>
    BY <1>0, <1>4 DEF Seek, ClearBegins
  <2> QED
    BY <1>0, <2>1, <2>2 DEF ReadTypes
<1>5. CASE Reopen
  <2>1. pos' \in [Streams -> 0..(MaxDts + 1)]
    BY <1>3, <1>5 DEF Reopen
  <2>2. rd' = "loop" /\ eof' = FALSE /\ clears' \in 0..MaxClears /\ UNCHANGED sent
    BY <1>0, <1>5 DEF Reopen
  <2> QED
    BY <1>0, <2>1, <2>2 DEF ReadTypes
<1>6. CASE ReadEof
  BY <1>0, <1>6 DEF ReadEof, ReadTypes
<1>7. CASE EndedVideo \/ EndedClose \/ ClearTimes
  BY <1>0, <1>7 DEF EndedVideo, EndedClose, ClearBegins, ClearTimes, ReadTypes
<1>8. ASSUME NEW s, NEW here, EndedRest(s, here) PROVE ReadTypes'
  BY <1>0, <1>8 DEF EndedRest, ClearBegins, ReadTypes
<1>9. ASSUME NEW s, NEW here, NEW next \in {"recvVideo", "decAudio", "decVideo", "times"},
             ClearRecv(s, here, next) \/ ClearDec(s, here, next)
      PROVE  ReadTypes'
  BY <1>0, <1>9 DEF ClearRecv, ClearDec, ReadTypes
<1>10. ASSUME NEW s, NEW here, NEW next, NEW old,
              \/ TickFirst(s, here, next, old) \/ TickTake(s, here, next) \/ TickPush(s)
              \/ DoDecode(s) \/ TickPlay(next)
       PROVE  ReadTypes'
  BY <1>1, <1>10 DEF TickFirst, TickTake, TickPush, DoDecode, TickPlay
<1>11. CASE TickFill \/ TickReset \/ TickStart \/ TickWait \/ TickEnd
  BY <1>1, <1>11 DEF TickFill, TickReset, TickStart, TickWait, TickEnd
<1>12. CASE UNCHANGED vars
  BY <1>1, <1>12 DEF vars
<1> QED
  BY <1>2, <1>4, <1>5, <1>6, <1>7, <1>8, <1>9, <1>10, <1>11, <1>12
     DEF Next, Engine, TickStep, Read, Clear

LEMMA HistTypesStep ==
  ASSUME TypeOK, [Next]_vars
  PROVE  HistTypes'
<1> USE FFBufferAssumption
<1>0. /\ got \in [Streams -> 0..MaxSent] /\ fresh \in [Streams -> 1..(MaxSent + 1)]
      /\ held \in [Streams -> SUBSET (1..MaxSent)] /\ closing \in BOOLEAN
  BY DEF TypeOK, HistTypes
<1>1. ASSUME UNCHANGED histVars PROVE HistTypes'
  BY <1>0, <1>1 DEF histVars, HistTypes
<1>2. ASSUME NEW s \in Streams PROVE Numbers(hand[s]) \subseteq 1..MaxSent
  BY NumbersOf DEF TypeOK, ListTypes
<1>3. ASSUME ClearBegins PROVE fresh' \in [Streams -> 1..(MaxSent + 1)]
  <2>1. \A s \in Streams : sent[s] + 1 \in 1..(MaxSent + 1)
    BY DEF TypeOK, ReadTypes
  <2> QED
    BY <1>3, <2>1 DEF ClearBegins
<1>4. ASSUME NEW s \in Streams, DoDecode(s) PROVE HistTypes'
  <2>1. Head(dec[s]) \in Packet
    BY <1>4, Hop DEF DoDecode, TypeOK, ListTypes
  <2>2. Head(dec[s]).n \in 0..MaxSent
    BY <2>1 DEF Packet
  <2> QED
    BY <1>0, <1>4, <2>2 DEF DoDecode, HistTypes
<1>5. ASSUME NEW s \in Streams, NEW here, NEW next, ClearDec(s, here, next) PROVE HistTypes'
  BY <1>0, <1>2, <1>5 DEF ClearDec, HistTypes
<1>6. CASE EndedVideo
  <2>1. "video" \in Streams
    BY DEF Streams
  <2> QED
    BY <1>0, <1>2, <1>6, <2>1 DEF EndedVideo, HistTypes
<1>7. CASE EndedClose
  <2>1. "audio" \in Streams
    BY DEF Streams
  <2>2. /\ held' = [held EXCEPT !["audio"] = Numbers(hand["audio"])] /\ closing' = TRUE
        /\ ClearBegins /\ UNCHANGED got
    BY <1>7 DEF EndedClose
  <2>3. held' \in [Streams -> SUBSET (1..MaxSent)]
    BY <1>0, <1>2, <2>1, <2>2
  <2> QED
    BY <1>0, <1>3, <2>2, <2>3 DEF HistTypes
<1>8. CASE Seek
  BY <1>0, <1>3, <1>8 DEF Seek, HistTypes
<1>9. ASSUME NEW s, NEW here, EndedRest(s, here) PROVE HistTypes'
  BY <1>0, <1>3, <1>9 DEF EndedRest, HistTypes
<1>10. CASE ClearTimes
  BY <1>0, <1>10 DEF ClearTimes, HistTypes
<1>11. ASSUME NEW s, NEW here, NEW next, NEW old,
              \/ TickFirst(s, here, next, old) \/ TickTake(s, here, next) \/ TickPush(s)
              \/ TickPlay(next) \/ Recv(s, next) \/ ClearRecv(s, here, next)
       PROVE  HistTypes'
  BY <1>1, <1>11 DEF TickFirst, TickTake, TickPush, TickPlay, Recv, ClearRecv
<1>12. CASE TickFill \/ TickReset \/ TickStart \/ TickWait \/ TickEnd
  BY <1>1, <1>12 DEF TickFill, TickReset, TickStart, TickWait, TickEnd
<1>13. CASE ReadEof \/ Reopen
  BY <1>1, <1>13 DEF ReadEof, Reopen
<1>14. CASE UNCHANGED vars
  BY <1>1, <1>14 DEF vars
<1>15. "audio" \in Streams /\ "video" \in Streams
  BY DEF Streams
<1> QED
  BY <1>4, <1>5, <1>6, <1>7, <1>8, <1>9, <1>10, <1>11, <1>12, <1>13, <1>14, <1>15
     DEF Next, Engine, TickStep, Read, Clear

LEMMA TypeStep ==
  ASSUME TypeOK, [Next]_vars
  PROVE  TypeOK'
BY ListTypesStep, ClockTypesStep, TickTypesStep, ReadTypesStep, HistTypesStep DEF TypeOK

-----------------------------------------------------------------------------
(***************************************************************************)
(* The four lists of a stream are one queue.  Step(s) lists what a step    *)
(* can do to the queue of stream s.                                        *)
(***************************************************************************)

Keeps(s) == got'[s] = got[s] /\ sent'[s] = sent[s]

Stays(s) == Inside(s)' = Inside(s) /\ Keeps(s) /\ Clearing' = Clearing

Enters(s) ==
  /\ ~Clearing /\ ~Clearing' /\ got'[s] = got[s] /\ sent'[s] = sent[s] + 1
  /\ \E p \in Packet : p.n = sent[s] + 1 /\ Inside(s)' = Append(Inside(s), p)

Leaves(s) ==
  /\ Inside(s) # <<>> /\ Inside(s)' = Tail(Inside(s))
  /\ got'[s] = Head(Inside(s)).n /\ sent'[s] = sent[s] /\ Clearing' = Clearing

Drops(s) ==
  /\ Clearing /\ Clearing' /\ Keeps(s)
  /\ \E a, b \in Seq(Packet) : Inside(s) = a \o b /\ Inside(s)' \in {a, b}

Turns(s) == Inside(s)' = Inside(s) /\ Keeps(s) /\ Clearing' = ~Clearing

Step(s) == Stays(s) \/ Enters(s) \/ Leaves(s) \/ Drops(s) \/ Turns(s)

LEMMA HandsStep ==
  ASSUME Hands, [Next]_vars
  PROVE  Hands'
<1>1. ASSUME UNCHANGED <<hand, tk>> PROVE Hands'
  BY <1>1 DEF Hands
<1>2. ASSUME hand' = hand, tk \notin {"takeAudio", "push"} PROVE Hands'
  BY <1>2 DEF Hands
<1>3. ASSUME NEW s, NEW here \in {"firstVideo", "firstAudio"}, NEW next, NEW old,
             TickFirst(s, here, next, old)
      PROVE  Hands'
  BY <1>2, <1>3 DEF TickFirst
<1>4. ASSUME NEW gap, TickPlay(gap) PROVE Hands'
  BY <1>2, <1>4 DEF TickPlay, lists
<1>5. CASE TickFill \/ TickReset \/ TickStart \/ TickWait
  BY <1>2, <1>5 DEF TickFill, TickReset, TickStart, TickWait, lists
<1>6. CASE TickTake("video", "takeVideo", "takeAudio")
  <2>1. tk = "takeVideo" /\ tk' = "takeAudio" /\ \E q : hand' = [hand EXCEPT !["video"] = q]
    BY <1>6 DEF TickTake
  <2> QED
    BY <2>1 DEF Hands, Streams
<1>7. CASE TickTake("audio", "takeAudio", "push")
  BY <1>7 DEF TickTake, Hands
<1>8. ASSUME NEW s, TickPush(s) PROVE Hands'
  BY <1>8 DEF TickPush, tickVars, Hands
<1>9. CASE TickEnd
  BY <1>9 DEF TickEnd, lists, Hands
<1>10. ASSUME NEW s, NEW here, NEW next,
              \/ DoDecode(s) \/ EndedRest(s, here)
              \/ Recv(s, next) \/ ClearRecv(s, here, next) \/ ClearDec(s, here, next)
       PROVE  Hands'
  BY <1>1, <1>10 DEF DoDecode, EndedRest, Recv, ClearRecv, ClearDec, lists, tickVars
<1>11. CASE ReadEof \/ Seek \/ ClearTimes \/ Reopen \/ EndedVideo \/ EndedClose
  BY <1>1, <1>11 DEF ReadEof, Seek, ClearTimes, Reopen, EndedVideo, EndedClose, lists, tickVars
<1>12. CASE UNCHANGED vars
  BY <1>1, <1>12 DEF vars, lists, tickVars
<1> QED
  BY <1>3, <1>4, <1>5, <1>6, <1>7, <1>8, <1>9, <1>10, <1>11, <1>12 DEF Next, Engine, TickStep, Read, Clear

LEMMA TailConcat ==
  ASSUME NEW q \in Seq(Packet), q # <<>>, NEW r \in Seq(Packet)
  PROVE  /\ q \o r # <<>> /\ Head(q \o r) = Head(q)
         /\ Tail(q \o r) = Tail(q) \o r
<1>1. Len(q) \in Nat \ {0} /\ Len(r) \in Nat
  BY EmptySeq, LenProperties
<1> DEFINE c == q \o r
           t == Tail(q)
           d == t \o r
           u == Tail(c)
<1>2. /\ c \in Seq(Packet) /\ Len(c) = Len(q) + Len(r)
      /\ \A i \in 1..Len(q) + Len(r) : c[i] = IF i <= Len(q) THEN q[i] ELSE r[i - Len(q)]
  BY ConcatProperties
<1>3. /\ t \in Seq(Packet) /\ Len(t) = Len(q) - 1 /\ Head(q) = q[1]
      /\ \A i \in 1..Len(t) : t[i] = q[i + 1]
  BY <1>1, HeadTailProperties
<1> HIDE DEF c, t
<1>4. /\ d \in Seq(Packet) /\ Len(d) = Len(t) + Len(r)
      /\ \A i \in 1..Len(t) + Len(r) : d[i] = IF i <= Len(t) THEN t[i] ELSE r[i - Len(t)]
  BY <1>3, ConcatProperties
<1>5. c # <<>>
  BY <1>1, <1>2, EmptySeq
<1>6. /\ u \in Seq(Packet) /\ Len(u) = Len(c) - 1 /\ Head(c) = c[1]
      /\ \A i \in 1..Len(u) : u[i] = c[i + 1]
  BY <1>2, <1>5, HeadTailProperties
<1> HIDE DEF d, u
<1>7. Head(c) = Head(q)
  BY <1>1, <1>2, <1>3, <1>6
<1>8. ASSUME NEW i \in 1..Len(u) PROVE u[i] = d[i]
  <2>1. /\ i \in Nat /\ i + 1 \in 1..Len(q) + Len(r) /\ i \in 1..Len(t) + Len(r)
        /\ u[i] = c[i + 1] /\ (i + 1) - Len(q) = i - Len(t)
    <3>1. /\ Len(q) \in Nat \ {0} /\ Len(r) \in Nat /\ Len(t) = Len(q) - 1
          /\ Len(u) = (Len(q) + Len(r)) - 1
      BY <1>1, <1>2, <1>3, <1>6
    <3>2. i \in 1..((Len(q) + Len(r)) - 1)
      BY <3>1
    <3>3. /\ i \in Nat /\ i + 1 \in 1..Len(q) + Len(r) /\ i \in 1..Len(t) + Len(r)
          /\ (i + 1) - Len(q) = i - Len(t)
      BY <3>1, <3>2
    <3>4. u[i] = c[i + 1]
      BY <1>6
    <3> QED
      BY <3>3, <3>4
  <2>2. CASE i <= Len(t)
    <3>1. i \in 1..Len(t) /\ i + 1 <= Len(q)
      BY <2>1, <2>2, <1>1, <1>3
    <3> QED
      BY <2>1, <2>2, <3>1, <1>2, <1>3, <1>4
  <2>3. CASE ~(i <= Len(t))
    <3>1. ~(i + 1 <= Len(q))
      BY <2>1, <2>3, <1>1, <1>3
    <3> QED
      BY <2>1, <2>3, <3>1, <1>2, <1>4
  <2> QED
    BY <2>2, <2>3
<1>9. Len(u) = Len(d)
  BY <1>1, <1>2, <1>3, <1>4, <1>6
<1>10. u = d
  BY <1>4, <1>6, <1>8, <1>9, SeqEqual
<1> QED
  BY <1>5, <1>7, <1>10 DEF c, t, d, u

\* A step that moves packets between the lists of stream r and leaves the rest alone.
LEMMA OtherStream ==
  ASSUME NEW r \in Streams, NEW s \in Streams, s # r, ListTypes,
         NEW v, NEW w, NEW x,
         recv' = [recv EXCEPT ![r] = v], hand' = [hand EXCEPT ![r] = w],
         dec' = [dec EXCEPT ![r] = x]
  PROVE  Inside(s)' = Inside(s)
BY DEF Inside, ListTypes

LEMMA SameStream ==
  ASSUME NEW s \in Streams, ListTypes, NEW v, NEW w, NEW x,
         recv' = [recv EXCEPT ![s] = v], hand' = [hand EXCEPT ![s] = w],
         dec' = [dec EXCEPT ![s] = x]
  PROVE  Inside(s)' = x \o w \o v
BY DEF Inside, ListTypes

LEMMA Associative ==
  ASSUME NEW a \in Seq(Packet), NEW b \in Seq(Packet), NEW c \in Seq(Packet)
  PROVE  (a \o b) \o c = a \o (b \o c)
OBVIOUS

LEMMA Parts ==
  ASSUME ListTypes, NEW s \in Streams
  PROVE  /\ recv[s] \in Seq(Packet) /\ hand[s] \in Seq(Packet) /\ dec[s] \in Seq(Packet)
         /\ Inside(s) = (dec[s] \o hand[s]) \o recv[s]
         /\ Inside(s) = dec[s] \o (hand[s] \o recv[s])
         /\ dec[s] \o hand[s] \in Seq(Packet) /\ hand[s] \o recv[s] \in Seq(Packet)
         /\ Inside(s) \in Seq(Packet)
         /\ recv = [recv EXCEPT ![s] = recv[s]] /\ hand = [hand EXCEPT ![s] = hand[s]]
         /\ dec = [dec EXCEPT ![s] = dec[s]]
<1>1. recv[s] \in Seq(Packet) /\ hand[s] \in Seq(Packet) /\ dec[s] \in Seq(Packet)
  BY DEF ListTypes
<1>2. dec[s] \o hand[s] \in Seq(Packet) /\ hand[s] \o recv[s] \in Seq(Packet)
  BY <1>1, ConcatProperties
<1>3. (dec[s] \o hand[s]) \o recv[s] = dec[s] \o (hand[s] \o recv[s])
  BY <1>1, Associative
<1>4. (dec[s] \o hand[s]) \o recv[s] \in Seq(Packet)
  BY <1>1, <1>2, ConcatProperties
<1>5. /\ recv = [recv EXCEPT ![s] = recv[s]] /\ hand = [hand EXCEPT ![s] = hand[s]]
      /\ dec = [dec EXCEPT ![s] = dec[s]]
  BY DEF ListTypes
<1> QED
  BY <1>1, <1>2, <1>3, <1>4, <1>5 DEF Inside

\* What the engine's thread moves stays where it is in the queue.
LEMMA TickFirstStays ==
  ASSUME ListTypes, NEW r \in Streams, NEW s \in Streams, NEW here, NEW next, NEW old,
         TickFirst(r, here, next, old), hand[r] = <<>>
  PROVE  Inside(s)' = Inside(s)
<1>1. CASE recv[r] = <<>> \/ ~old
  BY <1>1 DEF TickFirst, Inside
<1>2. CASE recv[r] # <<>> /\ old
  <2> DEFINE v == Tail(recv[r])
             x == Append(dec[r], Head(recv[r]))
  <2>1. /\ recv' = [recv EXCEPT ![r] = v] /\ hand' = [hand EXCEPT ![r] = hand[r]]
        /\ dec' = [dec EXCEPT ![r] = x]
    BY <1>2, Parts DEF TickFirst
  <2>2. v \in Seq(Packet) /\ x \in Seq(Packet) /\ x \o v = dec[r] \o recv[r]
    BY <1>2, Parts, Hop
  <2> HIDE DEF v, x
  <2>3. CASE s # r
    BY <2>1, <2>3, OtherStream
  <2>4. CASE s = r
    <3>1. Inside(s)' = x \o hand[r] \o v
      BY <2>1, <2>4, SameStream
    <3>2. x \o hand[r] = x /\ dec[r] \o hand[r] = dec[r]
      BY <2>2, Parts, ConcatEmptySeq
    <3> QED
      BY <2>2, <2>4, <3>1, <3>2, Parts
  <2> QED
    BY <2>3, <2>4
<1> QED
  BY <1>1, <1>2

LEMMA TickTakeStays ==
  ASSUME ListTypes, NEW r \in Streams, NEW s \in Streams, NEW here, NEW next,
         TickTake(r, here, next), hand[r] = <<>>
  PROVE  Inside(s)' = Inside(s)
<1>1. PICK k \in DueCounts(recv[r], due) :
        /\ hand' = [hand EXCEPT ![r] = SubSeq(recv[r], 1, k)]
        /\ recv' = [recv EXCEPT ![r] = SubSeq(recv[r], k + 1, Len(recv[r]))]
  BY DEF TickTake
<1> DEFINE a == SubSeq(recv[r], 1, k)
           b == SubSeq(recv[r], k + 1, Len(recv[r]))
<1>2. a \in Seq(Packet) /\ b \in Seq(Packet) /\ a \o b = recv[r]
  BY Parts, Cut DEF DueCounts
<1>3. /\ recv' = [recv EXCEPT ![r] = b] /\ hand' = [hand EXCEPT ![r] = a]
      /\ dec' = [dec EXCEPT ![r] = dec[r]]
  BY <1>1, Parts DEF TickTake
<1> HIDE DEF a, b
<1>4. CASE s # r
  BY <1>3, <1>4, OtherStream
<1>5. CASE s = r
  <2>1. Inside(s)' = dec[r] \o a \o b
    BY <1>3, <1>5, SameStream
  <2>2. (dec[r] \o a) \o b = dec[r] \o (a \o b)
    <3>1. dec[r] \in Seq(Packet)
      BY Parts
    <3> QED
      BY <3>1, <1>2, Associative
  <2>3. dec[r] \o hand[r] = dec[r]
    BY Parts, ConcatEmptySeq
  <2> QED
    BY <1>2, <1>5, <2>1, <2>2, <2>3, Parts
<1> QED
  BY <1>4, <1>5

LEMMA TickPushStays ==
  ASSUME ListTypes, NEW r \in Streams, NEW s \in Streams, TickPush(r)
  PROVE  Inside(s)' = Inside(s)
<1> DEFINE w == Tail(hand[r])
           x == Append(dec[r], Head(hand[r]))
<1>1. /\ recv' = [recv EXCEPT ![r] = recv[r]] /\ hand' = [hand EXCEPT ![r] = w]
      /\ dec' = [dec EXCEPT ![r] = x]
  BY Parts DEF TickPush
<1>2. x \o w = dec[r] \o hand[r]
  BY Parts, Hop DEF TickPush
<1> HIDE DEF w, x
<1>3. CASE s # r
  BY <1>1, <1>3, OtherStream
<1>4. CASE s = r
  <2>1. Inside(s)' = x \o w \o recv[r]
    BY <1>1, <1>4, SameStream
  <2> QED
    BY <1>2, <1>4, <2>1, Parts
<1> QED
  BY <1>3, <1>4

LEMMA DecodeSteps ==
  ASSUME ListTypes, HistTypes, NEW r \in Streams, NEW s \in Streams, DoDecode(r)
  PROVE  Step(s)
<1>0. sent' = sent /\ Clearing' = Clearing
  BY DEF DoDecode, readVars, Clearing
<1>1. /\ recv' = [recv EXCEPT ![r] = recv[r]] /\ hand' = [hand EXCEPT ![r] = hand[r]]
      /\ dec' = [dec EXCEPT ![r] = Tail(dec[r])] /\ got' = [got EXCEPT ![r] = Head(dec[r]).n]
      /\ dec[r] # <<>>
  BY Parts DEF DoDecode
<1>2. CASE s # r
  <2>1. Inside(s)' = Inside(s)
    BY <1>1, <1>2, OtherStream
  <2>2. got'[s] = got[s]
    BY <1>1, <1>2 DEF HistTypes
  <2> QED
    BY <1>0, <2>1, <2>2 DEF Step, Stays, Keeps
<1>3. CASE s = r
  <2>1. Inside(s)' = Tail(dec[r]) \o hand[r] \o recv[r]
    BY <1>1, <1>3, SameStream
  <2> DEFINE c == dec[r] \o hand[r]
  <2>2. /\ c \in Seq(Packet) /\ c # <<>> /\ Head(c) = Head(dec[r])
        /\ Tail(c) = Tail(dec[r]) \o hand[r] /\ Inside(s) = c \o recv[r]
    BY <1>1, <1>3, Parts, TailConcat
  <2> HIDE DEF c
  <2>3. /\ c \o recv[r] # <<>> /\ Head(c \o recv[r]) = Head(c)
        /\ Tail(c \o recv[r]) = Tail(c) \o recv[r]
    BY <2>2, Parts, TailConcat
  <2>4. got'[s] = Head(Inside(s)).n
    BY <1>1, <1>3, <2>2, <2>3 DEF HistTypes
  <2> QED
    BY <1>0, <1>1, <2>1, <2>2, <2>3, <2>4 DEF Step, Leaves
<1> QED
  BY <1>2, <1>3

LEMMA RecvSteps ==
  ASSUME TypeOK, NEW r \in Present, NEW s \in Streams, NEW jump \in {0, Gap}, Recv(r, jump)
  PROVE  Step(s)
<1> USE FFBufferAssumption
<1> DEFINE p == [n |-> sent[r] + 1, dts |-> pos[r] + jump]
<1>0. r \in Streams /\ ListTypes
  BY DEF Streams, TypeOK
<1>1. p \in Packet
  <2>1. /\ sent["audio"] \in Nat /\ sent["video"] \in Nat /\ pos[r] \in Nat /\ jump \in Nat
        /\ sent["audio"] + sent["video"] < MaxSent /\ pos[r] + jump <= MaxDts
    BY <1>0 DEF Recv, TypeOK, ReadTypes, Streams
  <2> QED
    BY <1>0, <2>1 DEF Packet, Streams
<1>2. /\ recv' = [recv EXCEPT ![r] = Append(recv[r], p)]
      /\ hand' = [hand EXCEPT ![r] = hand[r]] /\ dec' = [dec EXCEPT ![r] = dec[r]]
  BY <1>0, Parts DEF Recv
<1>3. p.n = sent[r] + 1
  OBVIOUS
<1> HIDE DEF p
<1>4. /\ rd = "loop" /\ rd' = rd /\ got' = got /\ sent' = [sent EXCEPT ![r] = sent[r] + 1]
  BY DEF Recv, histVars
<1>5. sent \in [Streams -> 0..MaxSent] /\ ~Clearing /\ ~Clearing' /\ Clearing' = Clearing
  BY <1>4 DEF TypeOK, ReadTypes, Clearing
<1>6. CASE s # r
  <2>1. Inside(s)' = Inside(s)
    BY <1>0, <1>2, <1>6, OtherStream
  <2>2. sent'[s] = sent[s]
    BY <1>0, <1>4, <1>5, <1>6
  <2> QED
    BY <1>4, <1>5, <2>1, <2>2 DEF Step, Stays, Keeps
<1>7. CASE s = r
  <2>1. Inside(s)' = dec[r] \o hand[r] \o Append(recv[r], p)
    BY <1>0, <1>2, <1>7, SameStream
  <2> DEFINE c == dec[r] \o hand[r]
  <2>2. c \in Seq(Packet) /\ recv[r] \in Seq(Packet) /\ Inside(s) = c \o recv[r]
    BY <1>0, <1>7, Parts
  <2> HIDE DEF c
  <2>3. /\ <<p>> \in Seq(Packet) /\ c \o recv[r] \in Seq(Packet)
        /\ Append(recv[r], p) = recv[r] \o <<p>>
        /\ Append(c \o recv[r], p) = (c \o recv[r]) \o <<p>>
    <3>1. c \o recv[r] \in Seq(Packet)
      BY <2>2, ConcatProperties
    <3> QED
      BY <3>1, <2>2, <1>1, AppendIsConcat, SMTT(30)
  <2>4. c \o (recv[r] \o <<p>>) = (c \o recv[r]) \o <<p>>
    BY <2>2, <2>3, Associative
  <2>5. Inside(s)' = Append(Inside(s), p)
    BY <2>1, <2>2, <2>3, <2>4 DEF c
  <2>6. sent'[s] = sent[s] + 1
    BY <1>0, <1>4, <1>5, <1>7
  <2> QED
    BY <1>1, <1>3, <1>4, <1>5, <1>7, <2>5, <2>6 DEF Step, Enters
<1> QED
  BY <1>6, <1>7

LEMMA StaysOrTurns ==
  ASSUME NEW s \in Streams, Inside(s)' = Inside(s), sent' = sent, got' = got
  PROVE  Step(s)
<1>1. Keeps(s)
  BY DEF Keeps
<1>2. Clearing' = Clearing \/ Clearing' = ~Clearing
  BY DEF Clearing
<1> QED
  BY <1>1, <1>2 DEF Step, Stays, Turns

LEMMA ClearSteps ==
  ASSUME ListTypes, NEW r \in Streams, NEW s \in Streams,
         NEW here, NEW next \in {"recvVideo", "decAudio", "decVideo", "times"},
         here \in {"recvAudio", "recvVideo", "decAudio", "decVideo"},
         ClearRecv(r, here, next) \/ ClearDec(r, here, next)
  PROVE  Step(s)
<1>0. Clearing /\ Clearing' /\ Keeps(s)
  BY DEF ClearRecv, ClearDec, Clearing, Keeps, histVars
<1>1. CASE s # r
  <2>1. \E v, x : /\ recv' = [recv EXCEPT ![r] = v] /\ hand' = [hand EXCEPT ![r] = hand[r]]
                  /\ dec' = [dec EXCEPT ![r] = x]
    <3>1. /\ recv = [recv EXCEPT ![r] = recv[r]] /\ hand = [hand EXCEPT ![r] = hand[r]]
          /\ dec = [dec EXCEPT ![r] = dec[r]]
      BY Parts
    <3>2. CASE ClearRecv(r, here, next)
      BY <3>1, <3>2 DEF ClearRecv
    <3>3. CASE ClearDec(r, here, next)
      BY <3>1, <3>3 DEF ClearDec
    <3> QED
      BY <3>2, <3>3
  <2>2. Inside(s)' = Inside(s)
    BY <1>1, <2>1, OtherStream
  <2> QED
    BY <2>2, StaysOrTurns DEF ClearRecv, ClearDec, histVars
<1>2. CASE s = r /\ ClearRecv(r, here, next)
  <2>1. /\ recv' = [recv EXCEPT ![s] = <<>>] /\ hand' = [hand EXCEPT ![s] = hand[s]]
        /\ dec' = [dec EXCEPT ![s] = dec[s]]
    BY <1>2, Parts DEF ClearRecv
  <2>2. Inside(s)' = (dec[s] \o hand[s]) \o <<>>
    BY <2>1, SameStream
  <2> DEFINE a == dec[s] \o hand[s]
  <2>3. a \in Seq(Packet) /\ recv[s] \in Seq(Packet) /\ Inside(s) = a \o recv[s]
    BY Parts
  <2> HIDE DEF a
  <2>4. a \o <<>> = a
    BY <2>3, ConcatEmptySeq
  <2>5. Inside(s)' = a
    BY <2>2, <2>4 DEF a
  <2> QED
    BY <1>0, <2>3, <2>5 DEF Step, Drops
<1>3. CASE s = r /\ ClearDec(r, here, next)
  <2>1. /\ recv' = [recv EXCEPT ![s] = recv[s]] /\ hand' = [hand EXCEPT ![s] = hand[s]]
        /\ dec' = [dec EXCEPT ![s] = <<>>]
    BY <1>3, Parts DEF ClearDec
  <2>2. Inside(s)' = (<<>> \o hand[s]) \o recv[s]
    BY <2>1, SameStream
  <2>3. <<>> \o hand[s] = hand[s]
    BY Parts, ConcatEmptySeq
  <2> DEFINE b == hand[s] \o recv[s]
  <2>4. dec[s] \in Seq(Packet) /\ b \in Seq(Packet) /\ Inside(s) = dec[s] \o b
    BY Parts
  <2>5. Inside(s)' = b
    BY <2>2, <2>3
  <2> HIDE DEF b
  <2> QED
    BY <1>0, <2>4, <2>5 DEF Step, Drops
<1> QED
  BY <1>1, <1>2, <1>3

\* Every step does one of these to each stream.
LEMMA EveryStep ==
  ASSUME TypeOK, Hands, [Next]_vars, NEW s \in Streams
  PROVE  Step(s)
<1>0. ListTypes /\ HistTypes /\ "audio" \in Streams /\ "video" \in Streams
  BY DEF TypeOK, Streams
<1>1. ASSUME NEW r \in Streams, NEW here \in {"firstVideo", "firstAudio"}, NEW next, NEW old,
             TickFirst(r, here, next, old)
      PROVE  Step(s)
  <2>1. hand[r] = <<>>
    BY <1>1 DEF TickFirst, Hands
  <2>2. sent' = sent /\ got' = got
    BY <1>1 DEF TickFirst, readVars, histVars
  <2> QED
    BY <1>0, <1>1, <2>1, <2>2, TickFirstStays, StaysOrTurns
<1>2. ASSUME NEW r \in Streams, NEW here, NEW next, TickTake(r, here, next),
             here = "takeVideo" \/ (here = "takeAudio" /\ r = "audio")
      PROVE  Step(s)
  <2>1. hand[r] = <<>>
    BY <1>2 DEF TickTake, Hands
  <2>2. sent' = sent /\ got' = got
    BY <1>2 DEF TickTake, readVars, histVars
  <2> QED
    BY <1>0, <1>2, <2>1, <2>2, TickTakeStays, StaysOrTurns
<1>3. ASSUME NEW r \in Streams, TickPush(r) PROVE Step(s)
  <2>1. sent' = sent /\ got' = got
    BY <1>3 DEF TickPush, readVars, histVars
  <2> QED
    BY <1>0, <1>3, <2>1, TickPushStays, StaysOrTurns
<1>4. ASSUME NEW r \in Streams, DoDecode(r) PROVE Step(s)
  BY <1>0, <1>4, DecodeSteps
<1>5. ASSUME NEW r \in Present, NEW jump \in {0, Gap}, Recv(r, jump) PROVE Step(s)
  BY <1>5, RecvSteps
<1>6. ASSUME NEW r \in Streams, NEW here \in {"recvAudio", "recvVideo", "decAudio", "decVideo"},
             NEW next \in {"recvVideo", "decAudio", "decVideo", "times"},
             ClearRecv(r, here, next) \/ ClearDec(r, here, next)
      PROVE  Step(s)
  BY <1>0, <1>6, ClearSteps
<1>7. ASSUME UNCHANGED <<recv, hand, dec, sent, got>> PROVE Step(s)
  <2>1. Inside(s)' = Inside(s)
    BY <1>7 DEF Inside
  <2> QED
    BY <1>7, <2>1, StaysOrTurns
<1>8. ASSUME NEW gap, TickPlay(gap) PROVE Step(s)
  BY <1>7, <1>8 DEF TickPlay, lists, readVars, histVars
<1>9. ASSUME NEW r, NEW here, EndedRest(r, here) PROVE Step(s)
  BY <1>7, <1>9 DEF EndedRest, lists
<1>10. CASE TickFill \/ TickReset \/ TickStart \/ TickWait \/ TickEnd
  BY <1>7, <1>10 DEF TickFill, TickReset, TickStart, TickWait, TickEnd, lists, readVars, histVars
<1>11. CASE ReadEof \/ Seek \/ ClearTimes \/ Reopen \/ EndedVideo \/ EndedClose
  BY <1>7, <1>11
     DEF ReadEof, Seek, ClearTimes, Reopen, EndedVideo, EndedClose, lists, histVars
<1>12. CASE UNCHANGED vars
  BY <1>7, <1>12 DEF vars, lists, readVars, histVars
<1> QED
  BY <1>0, <1>1, <1>2, <1>3, <1>4, <1>5, <1>6, <1>8, <1>9, <1>10, <1>11, <1>12
     DEF Next, Engine, TickStep, Read, Clear

-----------------------------------------------------------------------------
(***************************************************************************)
(* Order.                                                                  *)
(***************************************************************************)

LEMMA IncreasingTail ==
  ASSUME NEW q \in Seq(Packet), q # <<>>, NEW n \in Nat, Increasing(q, n)
  PROVE  Increasing(Tail(q), n)
<1>1. Len(q) \in Nat \ {0}
  BY EmptySeq, LenProperties
<1> DEFINE t == Tail(q)
<1>2. Len(t) = Len(q) - 1 /\ \A i \in 1..Len(t) : t[i] = q[i + 1]
  BY <1>1, HeadTailProperties
<1> HIDE DEF t
<1>3. \A i \in 1..Len(t) : i \in Int /\ i + 1 \in 1..Len(q)
  BY <1>1, <1>2
<1> QED
  BY <1>2, <1>3 DEF Increasing, t

LEMMA IncreasingAppend ==
  ASSUME NEW q \in Seq(Packet), NEW n \in Nat, Increasing(q, n),
         NEW p \in Packet, p.n = n + 1
  PROVE  Increasing(Append(q, p), n + 1)
<1> DEFINE e == Append(q, p)
<1>1. /\ Len(q) \in Nat /\ Len(e) = Len(q) + 1 /\ e[Len(q) + 1] = p
      /\ \A i \in 1..Len(q) : e[i] = q[i]
  BY AppendProperties, LenProperties
<1> HIDE DEF e
<1>2. ASSUME NEW i \in 1..Len(q)
      PROVE  e[i].n \in Nat /\ e[i].n <= n
  <2>1. q[i] \in Packet
    BY ElementOfSeq
  <2> QED
    BY <1>1, <2>1 DEF Increasing, Packet
<1>3. \A i \in 1..Len(e) : i \in 1..Len(q) \/ i = Len(q) + 1
  BY <1>1
<1>4. \A i \in 1..Len(e) : e[i].n <= n + 1
  BY <1>1, <1>2, <1>3
<1>5. ASSUME NEW i \in 1..Len(e), NEW j \in 1..Len(e), i < j
      PROVE  e[i].n < e[j].n
  <2>1. i \in 1..Len(q)
    BY <1>1, <1>3, <1>5
  <2>2. CASE j \in 1..Len(q)
    BY <1>1, <1>5, <2>1, <2>2 DEF Increasing
  <2>3. CASE j = Len(q) + 1
    BY <1>1, <1>2, <2>1, <2>3
  <2> QED
    BY <1>3, <2>2, <2>3
<1> QED
  BY <1>4, <1>5 DEF Increasing, e

LEMMA IncreasingParts ==
  ASSUME NEW a \in Seq(Packet), NEW b \in Seq(Packet), NEW n \in Nat, Increasing(a \o b, n)
  PROVE  Increasing(a, n) /\ Increasing(b, n)
<1> DEFINE c == a \o b
<1>1. /\ Len(c) = Len(a) + Len(b) /\ Len(a) \in Nat /\ Len(b) \in Nat
      /\ \A i \in 1..Len(a) + Len(b) : c[i] = IF i <= Len(a) THEN a[i] ELSE b[i - Len(a)]
  BY ConcatProperties, LenProperties
<1> HIDE DEF c
<1>2. \A i \in 1..Len(a) : i \in 1..Len(c) /\ c[i] = a[i]
  BY <1>1
<1>3. \A i \in 1..Len(b) : i \in Int /\ Len(a) + i \in 1..Len(c) /\ c[Len(a) + i] = b[i]
  BY <1>1, SMTT(30)
<1>4. Increasing(c, n)
  BY DEF c
<1>5. Increasing(a, n)
  BY <1>2, <1>4 DEF Increasing
<1>6. Increasing(b, n)
  <2>1. ASSUME NEW i \in 1..Len(b) PROVE b[i].n <= n
    BY <1>3, <1>4 DEF Increasing
  <2>2. ASSUME NEW i \in 1..Len(b), NEW j \in 1..Len(b), i < j PROVE b[i].n < b[j].n
    <3>1. Len(a) + i < Len(a) + j
      BY <1>1, <2>2
    <3>2. c[Len(a) + i].n < c[Len(a) + j].n
      BY <1>3, <1>4, <3>1 DEF Increasing
    <3> QED
      BY <1>3, <3>2
  <2> QED
    BY <2>1, <2>2 DEF Increasing
<1> QED
  BY <1>5, <1>6

LEMMA OrderStep ==
  ASSUME TypeOK, Hands, Order, [Next]_vars
  PROVE  Order'
<1> SUFFICES ASSUME NEW s \in Streams PROVE Increasing(Inside(s)', sent'[s])
  BY DEF Order, Increasing
<1>1. Step(s) /\ Increasing(Inside(s), sent[s])
  BY EveryStep DEF Order
<1>2. Inside(s) \in Seq(Packet) /\ sent[s] \in Nat
  <2>1. Inside(s) \in Seq(Packet)
    BY Parts DEF TypeOK
  <2>2. sent[s] \in 0..MaxSent /\ MaxSent \in Nat
    BY FFBufferAssumption DEF TypeOK, ReadTypes
  <2> QED
    BY <2>1, <2>2
<1>3. CASE Stays(s) \/ Turns(s)
  BY <1>1, <1>3 DEF Stays, Turns, Keeps
<1>4. CASE Enters(s)
  BY <1>1, <1>2, <1>4, IncreasingAppend DEF Enters
<1>5. CASE Leaves(s)
  BY <1>1, <1>2, <1>5, IncreasingTail DEF Leaves
<1>6. CASE Drops(s)
  <2>1. PICK a \in Seq(Packet), b \in Seq(Packet) : Inside(s) = a \o b /\ Inside(s)' \in {a, b}
    BY <1>6 DEF Drops
  <2>2. Increasing(a, sent[s]) /\ Increasing(b, sent[s])
    BY <1>1, <1>2, <2>1, IncreasingParts
  <2>3. sent'[s] = sent[s]
    BY <1>6 DEF Drops, Keeps
  <2>4. CASE Inside(s)' = a
    BY <2>2, <2>3, <2>4
  <2>5. CASE Inside(s)' = b
    BY <2>2, <2>3, <2>5
  <2> QED
    BY <2>1, <2>4, <2>5
<1> QED
  BY <1>1, <1>3, <1>4, <1>5, <1>6 DEF Step

-----------------------------------------------------------------------------
(***************************************************************************)
(* What a clearing leaves behind.                                          *)
(***************************************************************************)

LEMMA NoNumbers ==
  /\ Numbers(<<>>) = {}
  /\ \A q \in Seq(Packet) : Numbers(q) = {} => q = <<>>
<1>1. Numbers(<<>>) = {}
  <2>1. <<>> \in Seq(Packet) /\ Len(<<>>) = 0
    BY EmptySeq
  <2>2. Numbers(<<>>) = {<<>>[i].n : i \in 1..Len(<<>>)}
    BY <2>1, NumbersOf
  <2> QED
    BY <2>1, <2>2
<1>2. ASSUME NEW q \in Seq(Packet), Numbers(q) = {} PROVE q = <<>>
  <2>0. Len(q) \in Nat /\ {q[i].n : i \in 1..Len(q)} = {}
    BY <1>2, NumbersOf, LenProperties
  <2>1. ~(1 \in 1..Len(q))
    BY <2>0, Zenon
  <2>2. Len(q) = 0
    BY <2>1
  <2> QED
    BY <2>2, EmptySeq
<1> QED
  BY <1>1, <1>2

\* What the engine's thread leaves alone, and where what it moves comes from.
Moved(s) ==
  /\ Numbers(recv'[s]) \subseteq Numbers(recv[s])
  /\ Numbers(hand'[s]) \cup Numbers(dec'[s]) \subseteq Ahead(s) \cup Numbers(recv[s])

LEMMA EngineMoves ==
  ASSUME TypeOK, Engine, NEW s \in Streams
  PROVE  Moved(s) /\ UNCHANGED <<rd, sent, fresh, held, closing>>
<1>0. ListTypes /\ "audio" \in Streams /\ "video" \in Streams
  BY DEF TypeOK, Streams
<1>1. ASSUME UNCHANGED lists PROVE Moved(s)
  BY <1>1 DEF lists, Moved, Ahead
<1>2. ASSUME NEW r \in Streams, NEW v, NEW w, NEW x,
             recv' = [recv EXCEPT ![r] = v], hand' = [hand EXCEPT ![r] = w],
             dec' = [dec EXCEPT ![r] = x],
             Numbers(v) \subseteq Numbers(recv[r]),
             Numbers(w) \cup Numbers(x) \subseteq Ahead(r) \cup Numbers(recv[r])
      PROVE  Moved(s)
  <2>1. CASE s = r
    <3>1. recv'[s] = v /\ hand'[s] = w /\ dec'[s] = x
      BY <1>0, <1>2, <2>1 DEF ListTypes
    <3> QED
      BY <1>2, <2>1, <3>1 DEF Moved
  <2>2. CASE s # r
    <3>1. recv'[s] = recv[s] /\ hand'[s] = hand[s] /\ dec'[s] = dec[s]
      BY <1>0, <1>2, <2>2 DEF ListTypes
    <3> QED
      BY <3>1 DEF Moved, Ahead
  <2> QED
    BY <2>1, <2>2
<1>3. ASSUME NEW r \in Streams, NEW here, NEW next, NEW old, TickFirst(r, here, next, old)
      PROVE  Moved(s)
  <2>1. CASE recv[r] = <<>> \/ ~old
    BY <1>1, <1>3, <2>1 DEF TickFirst, lists
  <2>2. CASE recv[r] # <<>> /\ old
    <3> DEFINE v == Tail(recv[r])
               x == Append(dec[r], Head(recv[r]))
    <3>1. /\ Numbers(v) \subseteq Numbers(recv[r]) /\ Head(recv[r]).n \in Numbers(recv[r])
          /\ Numbers(x) = Numbers(dec[r]) \cup {Head(recv[r]).n}
      BY <1>0, <2>2, Parts, Hop
    <3>2. /\ recv' = [recv EXCEPT ![r] = v] /\ hand' = [hand EXCEPT ![r] = hand[r]]
          /\ dec' = [dec EXCEPT ![r] = x]
      BY <1>0, <1>3, <2>2, Parts DEF TickFirst
    <3> HIDE DEF v, x
    <3> QED
      BY <1>2, <3>1, <3>2 DEF Ahead
  <2> QED
    BY <2>1, <2>2
<1>4. ASSUME NEW r \in Streams, NEW here, NEW next, TickTake(r, here, next)
      PROVE  Moved(s)
  <2>1. PICK k \in DueCounts(recv[r], due) :
          /\ hand' = [hand EXCEPT ![r] = SubSeq(recv[r], 1, k)]
          /\ recv' = [recv EXCEPT ![r] = SubSeq(recv[r], k + 1, Len(recv[r]))]
    BY <1>4 DEF TickTake
  <2> DEFINE w == SubSeq(recv[r], 1, k)
             v == SubSeq(recv[r], k + 1, Len(recv[r]))
  <2>2. Numbers(w) \subseteq Numbers(recv[r]) /\ Numbers(v) \subseteq Numbers(recv[r])
    BY <1>0, Parts, Cut DEF DueCounts
  <2>3. /\ recv' = [recv EXCEPT ![r] = v] /\ hand' = [hand EXCEPT ![r] = w]
        /\ dec' = [dec EXCEPT ![r] = dec[r]]
    BY <1>0, <1>4, <2>1, Parts DEF TickTake
  <2> HIDE DEF v, w
  <2> QED
    BY <1>2, <2>2, <2>3 DEF Ahead
<1>5. ASSUME NEW r \in Streams, TickPush(r) PROVE Moved(s)
  <2> DEFINE w == Tail(hand[r])
             x == Append(dec[r], Head(hand[r]))
  <2>1. /\ Numbers(w) \subseteq Numbers(hand[r]) /\ Head(hand[r]).n \in Numbers(hand[r])
        /\ Numbers(x) = Numbers(dec[r]) \cup {Head(hand[r]).n}
    BY <1>0, <1>5, Parts, Hop DEF TickPush
  <2>2. /\ recv' = [recv EXCEPT ![r] = recv[r]] /\ hand' = [hand EXCEPT ![r] = w]
        /\ dec' = [dec EXCEPT ![r] = x]
    BY <1>0, <1>5, Parts DEF TickPush
  <2> HIDE DEF w, x
  <2> QED
    BY <1>2, <2>1, <2>2 DEF Ahead
<1>6. ASSUME NEW r \in Streams, DoDecode(r) PROVE Moved(s)
  <2> DEFINE x == Tail(dec[r])
  <2>1. Numbers(x) \subseteq Numbers(dec[r])
    BY <1>0, <1>6, Parts, Hop DEF DoDecode
  <2>2. /\ recv' = [recv EXCEPT ![r] = recv[r]] /\ hand' = [hand EXCEPT ![r] = hand[r]]
        /\ dec' = [dec EXCEPT ![r] = x]
    BY <1>0, <1>6, Parts DEF DoDecode
  <2> HIDE DEF x
  <2> QED
    BY <1>2, <2>1, <2>2 DEF Ahead
<1>7. ASSUME NEW gap, TickPlay(gap) PROVE Moved(s)
  BY <1>1, <1>7 DEF TickPlay
<1>8. ASSUME TickFill \/ TickReset \/ TickStart \/ TickWait \/ TickEnd PROVE Moved(s)
  <2>1. UNCHANGED lists
    BY <1>8 DEF TickFill, TickReset, TickStart, TickWait, TickEnd
  <2> QED
    BY <1>1, <2>1
<1>9. Moved(s)
  BY <1>0, <1>3, <1>4, <1>5, <1>6, <1>7, <1>8 DEF Engine, TickStep
<1>10. UNCHANGED <<rd, sent, fresh, held, closing>>
  <2>1. ASSUME NEW r, NEW here, NEW next, NEW old,
               \/ TickFirst(r, here, next, old) \/ TickTake(r, here, next) \/ TickPush(r)
               \/ DoDecode(r) \/ TickPlay(next)
        PROVE  UNCHANGED <<rd, sent, fresh, held, closing>>
    BY <2>1 DEF TickFirst, TickTake, TickPush, DoDecode, TickPlay, readVars, histVars
  <2>2. CASE TickFill \/ TickReset \/ TickStart \/ TickWait \/ TickEnd
    BY <2>2 DEF TickFill, TickReset, TickStart, TickWait, TickEnd, readVars, histVars
  <2> QED
    BY <2>1, <2>2 DEF Engine, TickStep
<1> QED
  BY <1>9, <1>10

LEMMA StaleStep ==
  ASSUME TypeOK, Stale, [Next]_vars
  PROVE  Stale'
<1> USE FFBufferAssumption
<1> SUFFICES ASSUME NEW s \in Streams
             PROVE  /\ fresh'[s] <= sent'[s] + 1
                    /\ \A n \in Numbers(recv'[s]) : n < fresh'[s] => RecvUncleared(s)'
                    /\ \A n \in Ahead(s)' : n < fresh'[s] => n \in held'[s] \/ DecUncleared(s)'
  BY DEF Stale
<1> DEFINE Goal == /\ fresh'[s] <= sent'[s] + 1
                   /\ \A n \in Numbers(recv'[s]) : n < fresh'[s] => RecvUncleared(s)'
                   /\ \A n \in Ahead(s)' : n < fresh'[s] => n \in held'[s] \/ DecUncleared(s)'
<1> SUFFICES Goal
  OBVIOUS
<1>0. /\ fresh[s] <= sent[s] + 1
      /\ \A n \in Numbers(recv[s]) : n < fresh[s] => RecvUncleared(s)
      /\ \A n \in Ahead(s) : n < fresh[s] => n \in held[s] \/ DecUncleared(s)
  BY DEF Stale
<1>1. CASE Engine
  <2>1. Moved(s) /\ UNCHANGED <<rd, sent, fresh, held>>
    BY <1>1, EngineMoves
  <2>2. Ahead(s)' \subseteq Ahead(s) \cup Numbers(recv[s])
    BY <2>1 DEF Moved, Ahead
  <2>3. /\ RecvUncleared(s)' = RecvUncleared(s) /\ DecUncleared(s)' = DecUncleared(s)
        /\ RecvUncleared(s) => DecUncleared(s)
    BY <2>1 DEF RecvUncleared, DecUncleared
  <2> QED
    BY <1>0, <2>1, <2>2, <2>3 DEF Moved
<1>2. ASSUME NEW r \in Present, NEW jump, Recv(r, jump) PROVE Goal
  <2>0. r \in Streams
    BY DEF Streams
  <2> DEFINE p == [n |-> sent[r] + 1, dts |-> pos[r] + jump]
  <2>1. /\ rd = "loop" /\ rd' = rd /\ UNCHANGED <<hand, dec, fresh, held>>
        /\ sent' = [sent EXCEPT ![r] = sent[r] + 1] /\ recv' = [recv EXCEPT ![r] = Append(recv[r], p)]
    BY <1>2 DEF Recv, histVars
  <2>2. sent \in [Streams -> 0..MaxSent] /\ fresh[s] \in Nat /\ recv \in [Streams -> Seq(Packet)]
    BY DEF TypeOK, ReadTypes, HistTypes, ListTypes
  <2>3. fresh'[s] <= sent'[s] + 1
    BY <1>0, <2>0, <2>1, <2>2
  <2>4. /\ Ahead(s)' = Ahead(s) /\ DecUncleared(s)' = DecUncleared(s)
        /\ ~RecvUncleared(s)
    BY <2>1 DEF Ahead, DecUncleared, RecvUncleared
  <2>5. ASSUME NEW n \in Numbers(recv'[s]), n < fresh[s] PROVE FALSE
    <3>1. CASE s # r
      <4>1. recv'[s] = recv[s]
        BY <2>1, <2>2, <3>1
      <4> QED
        BY <1>0, <2>4, <2>5, <4>1
    <3>2. CASE s = r
      <4>1. recv'[s] = Append(recv[s], p)
        BY <2>1, <2>2, <3>2
      <4>2. p.n = sent[s] + 1
        BY <3>2
      <4> HIDE DEF p
      <4>3. PICK i \in DOMAIN Append(recv[s], p) : n = Append(recv[s], p)[i].n
        BY <2>5, <4>1 DEF Numbers
      <4>4. /\ recv[s] \in Seq(Packet) /\ Len(recv[s]) \in Nat
            /\ DOMAIN Append(recv[s], p) = 1..(Len(recv[s]) + 1)
            /\ Append(recv[s], p)[Len(recv[s]) + 1] = p
            /\ \A j \in 1..Len(recv[s]) : Append(recv[s], p)[j] = recv[s][j]
        BY <2>2
      <4>5. CASE i = Len(recv[s]) + 1
        BY <1>0, <2>2, <2>5, <4>2, <4>3, <4>4, <4>5
      <4>6. CASE i \in 1..Len(recv[s])
        <5>1. n \in Numbers(recv[s])
          BY <4>3, <4>4, <4>6, NumbersOf
        <5> QED
          BY <1>0, <2>4, <2>5, <5>1
      <4> QED
        BY <4>3, <4>4, <4>5, <4>6
    <3> QED
      BY <3>1, <3>2
  <2> QED
    BY <1>0, <2>1, <2>3, <2>4, <2>5
<1>3. ASSUME ClearBegins, sent' = sent PROVE Goal
  BY <1>3 DEF ClearBegins, RecvUncleared, DecUncleared, TypeOK, ReadTypes
<1>4. ASSUME UNCHANGED <<lists, sent, fresh, held>>,
             rd \in {"loop", "times", "endAudio", "closed"}
      PROVE  Goal
  <2>1. ~RecvUncleared(s) /\ ~DecUncleared(s)
    BY <1>4 DEF RecvUncleared, DecUncleared
  <2>2. recv'[s] = recv[s] /\ Ahead(s)' = Ahead(s) /\ UNCHANGED <<sent, fresh, held>>
    BY <1>4 DEF lists, Ahead
  <2> QED
    BY <1>0, <2>1, <2>2
<1>5. CASE ReadEof \/ Seek \/ ClearTimes \/ Reopen
  BY <1>3, <1>4, <1>5 DEF ReadEof, Seek, ClearTimes, Reopen, histVars
<1>6. ASSUME NEW r, NEW here \in {"loop", "endAudio"}, EndedRest(r, here) PROVE Goal
  BY <1>3, <1>4, <1>6 DEF EndedRest
<1>7. CASE EndedClose
  BY <1>3, <1>7 DEF EndedClose
<1>8. CASE EndedVideo
  <2>1. /\ rd = "loop" /\ dec["video"] = <<>> /\ UNCHANGED <<recv, hand, dec, sent, fresh>>
        /\ held' = [held EXCEPT !["video"] = Numbers(hand["video"])]
    BY <1>8 DEF EndedVideo, NothingLeft, lists
  <2>2. ~RecvUncleared(s) /\ ~DecUncleared(s)
    BY <2>1 DEF RecvUncleared, DecUncleared
  <2>3. recv'[s] = recv[s] /\ Ahead(s)' = Ahead(s)
    BY <2>1 DEF Ahead
  <2>4. CASE s = "video"
    <3>1. Ahead(s)' \subseteq held'[s]
      BY <2>1, <2>4, NoNumbers DEF Ahead, TypeOK, HistTypes, Streams
    <3> QED
      BY <1>0, <2>1, <2>2, <2>3, <3>1
  <2>5. CASE s # "video"
    <3>1. held'[s] = held[s]
      BY <2>1, <2>5 DEF TypeOK, HistTypes
    <3> QED
      BY <1>0, <2>1, <2>2, <2>3, <3>1
  <2> QED
    BY <2>4, <2>5
<1>9. ASSUME NEW r \in Streams, NEW here, NEW next, ClearRecv(r, here, next),
             \/ r = "audio" /\ here = "recvAudio" /\ next = "recvVideo"
             \/ r = "video" /\ here = "recvVideo" /\ next = "decAudio"
      PROVE  Goal
  <2>1. /\ rd = here /\ rd' = next /\ UNCHANGED <<hand, dec, sent, fresh, held>>
        /\ recv' = [recv EXCEPT ![r] = <<>>]
    BY <1>9 DEF ClearRecv, histVars
  <2>2. Ahead(s)' = Ahead(s) /\ DecUncleared(s)'
    BY <1>9, <2>1 DEF Ahead, DecUncleared
  <2>3. CASE s = r
    <3>1. recv'[s] = <<>>
      BY <2>1, <2>3 DEF TypeOK, ListTypes
    <3> QED
      BY <1>0, <2>1, <2>2, <3>1, NoNumbers
  <2>4. CASE s # r
    <3>1. recv'[s] = recv[s] /\ (RecvUncleared(s) => RecvUncleared(s)')
      BY <1>9, <2>1, <2>4 DEF TypeOK, ListTypes, RecvUncleared, Streams
    <3> QED
      BY <1>0, <2>1, <2>2, <3>1
  <2> QED
    BY <2>3, <2>4
<1>10. ASSUME NEW r \in Streams, NEW here, NEW next, ClearDec(r, here, next),
              \/ r = "audio" /\ here = "decAudio" /\ next = "decVideo"
              \/ r = "video" /\ here = "decVideo" /\ next = "times"
       PROVE  Goal
  <2>1. /\ rd = here /\ rd' = next /\ UNCHANGED <<hand, recv, sent, fresh>>
        /\ dec' = [dec EXCEPT ![r] = <<>>] /\ held' = [held EXCEPT ![r] = Numbers(hand[r])]
    BY <1>10 DEF ClearDec
  <2>2. ~RecvUncleared(s)
    BY <1>10, <2>1 DEF RecvUncleared
  <2>3. CASE s = r
    <3>1. dec'[s] = <<>> /\ held'[s] = Numbers(hand[s])
      BY <2>1, <2>3 DEF TypeOK, ListTypes, HistTypes
    <3>2. Ahead(s)' \subseteq held'[s]
      BY <2>1, <3>1, NoNumbers DEF Ahead
    <3> QED
      BY <1>0, <2>1, <2>2, <3>2
  <2>4. CASE s # r
    <3>1. dec'[s] = dec[s] /\ held'[s] = held[s]
      BY <2>1, <2>4 DEF TypeOK, ListTypes, HistTypes
    <3>2. Ahead(s)' = Ahead(s) /\ (DecUncleared(s) => DecUncleared(s)')
      BY <1>10, <2>1, <2>4, <3>1 DEF Ahead, DecUncleared, Streams
    <3> QED
      BY <1>0, <2>1, <2>2, <3>1, <3>2
  <2> QED
    BY <2>3, <2>4
<1>11. CASE UNCHANGED vars
  <2>1. UNCHANGED <<recv, hand, dec, rd, sent, fresh, held>>
    BY <1>11 DEF vars, lists, readVars, histVars
  <2>2. /\ Ahead(s)' = Ahead(s) /\ RecvUncleared(s)' = RecvUncleared(s)
        /\ DecUncleared(s)' = DecUncleared(s)
    BY <2>1 DEF Ahead, RecvUncleared, DecUncleared
  <2> QED
    BY <1>0, <2>1, <2>2
<1>12. "audio" \in Streams /\ "video" \in Streams
  BY DEF Streams
<1> HIDE DEF Goal
<1>13. CASE Clear
  BY <1>5, <1>9, <1>10, <1>12, <1>13 DEF Clear
<1>14. CASE Read
  BY <1>2, <1>5, <1>6, <1>7, <1>8, <1>13, <1>14 DEF Read
<1> QED
  BY <1>1, <1>11, <1>14 DEF Next

LEMMA EndsStep ==
  ASSUME TypeOK, Ends, [Next]_vars
  PROVE  Ends'
<1>0. /\ rd = "endAudio" => Seen("video")
      /\ closing => Clearing
      /\ closing => \A s \in Streams : Seen(s)
      /\ "audio" \in Streams /\ "video" \in Streams
      /\ recv \in [Streams -> Seq(Packet)] /\ dec \in [Streams -> Seq(Packet)]
      /\ held \in [Streams -> SUBSET (1..MaxSent)] /\ closing \in BOOLEAN
  BY DEF Ends, Streams, TypeOK, ListTypes, HistTypes
<1>1. CASE Engine
  <2>1. UNCHANGED <<rd, closing, held>>
    BY <1>0, <1>1, EngineMoves
  <2>2. ASSUME NEW s \in Streams, Seen(s) PROVE Seen(s)'
    <3>1. Moved(s) /\ recv'[s] \in Seq(Packet)
      BY <1>1, EngineMoves, TypeStep DEF TypeOK, ListTypes
    <3>2. Numbers(recv[s]) = {}
      BY <2>2, NoNumbers DEF Seen
    <3>3. recv'[s] = <<>>
      BY <3>1, <3>2, NoNumbers DEF Moved
    <3>4. Ahead(s)' \subseteq Ahead(s)
      BY <3>1, <3>2 DEF Moved, Ahead
    <3> QED
      BY <2>1, <2>2, <3>3, <3>4 DEF Seen
  <2>3. Clearing' = Clearing
    BY <2>1 DEF Clearing
  <2>4. rd' = "endAudio" => Seen("video")'
    BY <1>0, <2>1, <2>2
  <2>5. closing' => Clearing' /\ \A s \in Streams : Seen(s)'
    BY <1>0, <2>1, <2>2, <2>3
  <2> QED
    BY <2>4, <2>5 DEF Ends
<1>2. ASSUME rd' # "endAudio", ~closing' PROVE Ends'
  BY <1>2 DEF Ends
<1>3. ASSUME rd \in {"loop", "endAudio", "closed"} PROVE ~closing
  BY <1>0, <1>3 DEF Clearing
<1>4. ASSUME NEW s, NEW jump, Recv(s, jump) PROVE Ends'
  <2>1. rd = "loop" /\ rd' = rd /\ closing' = closing
    BY <1>4 DEF Recv, histVars
  <2> QED
    BY <1>2, <1>3, <2>1
<1>5. CASE ReadEof \/ Seek \/ ClearTimes \/ Reopen
  <2>1. /\ rd' \in {"loop", "recvAudio", "closed"}
        /\ closing' = FALSE \/ (closing' = closing /\ rd \in {"loop", "closed"})
    BY <1>5 DEF ReadEof, Seek, ClearBegins, ClearTimes, Reopen, histVars
  <2> QED
    BY <1>2, <1>3, <2>1
<1>6. ASSUME NEW s, NEW here \in {"loop", "endAudio"}, EndedRest(s, here) PROVE Ends'
  <2>1. rd' \in {"loop", "recvAudio"} /\ closing' = closing /\ rd \in {"loop", "endAudio"}
    BY <1>6 DEF EndedRest, ClearBegins
  <2> QED
    BY <1>2, <1>3, <2>1
<1>7. ASSUME NEW s \in Streams, NothingLeft(s), held' = [held EXCEPT ![s] = Numbers(hand[s])],
             UNCHANGED <<recv, hand, dec>>
      PROVE  Seen(s)'
  BY <1>0, <1>7, NoNumbers DEF NothingLeft, Seen, Ahead
<1>8. CASE EndedVideo
  <2>1. /\ NothingLeft("video") /\ held' = [held EXCEPT !["video"] = Numbers(hand["video"])]
        /\ UNCHANGED <<recv, hand, dec>> /\ closing' = closing /\ rd = "loop"
    BY <1>8 DEF EndedVideo, lists
  <2>2. Seen("video")' /\ ~closing'
    BY <1>0, <1>3, <1>7, <2>1
  <2> QED
    BY <2>2 DEF Ends
<1>9. CASE EndedClose
  <2>1. /\ NothingLeft("audio") /\ held' = [held EXCEPT !["audio"] = Numbers(hand["audio"])]
        /\ UNCHANGED <<recv, hand, dec>> /\ rd = "endAudio" /\ rd' = "recvAudio"
    BY <1>9 DEF EndedClose, ClearBegins, lists
  <2>2. Seen("audio")'
    BY <1>0, <1>7, <2>1
  <2>3. Seen("video")'
    <3>1. held'["video"] = held["video"]
      BY <1>0, <2>1
    <3> QED
      BY <1>0, <2>1, <3>1 DEF Seen, Ahead
  <2>4. Clearing'
    BY <2>1 DEF Clearing
  <2> QED
    BY <2>1, <2>2, <2>3, <2>4 DEF Ends, Streams
<1>10. ASSUME NEW r \in Streams, NEW here \in {"recvAudio", "recvVideo", "decAudio", "decVideo"},
              NEW next \in {"recvVideo", "decAudio", "decVideo", "times"},
              ClearRecv(r, here, next) \/ ClearDec(r, here, next)
       PROVE  Ends'
  <2>1. rd' = next /\ Clearing' /\ closing' = closing
    BY <1>10 DEF ClearRecv, ClearDec, Clearing, histVars
  <2>2. ASSUME NEW s \in Streams, Seen(s), ClearRecv(r, here, next) PROVE Seen(s)'
    <3>1. recv' = [recv EXCEPT ![r] = <<>>] /\ UNCHANGED <<hand, dec, held>>
      BY <2>2 DEF ClearRecv, histVars
    <3>2. recv'[s] = <<>>
      BY <1>0, <2>2, <3>1 DEF Seen
    <3> QED
      BY <2>2, <3>1, <3>2 DEF Seen, Ahead
  <2>3. ASSUME NEW s \in Streams, Seen(s), ClearDec(r, here, next) PROVE Seen(s)'
    <3>1. /\ dec' = [dec EXCEPT ![r] = <<>>] /\ held' = [held EXCEPT ![r] = Numbers(hand[r])]
          /\ UNCHANGED <<recv, hand>>
      BY <2>3 DEF ClearDec
    <3>2. CASE s = r
      <4>1. dec'[s] = <<>> /\ held'[s] = Numbers(hand[s])
        BY <1>0, <3>1, <3>2
      <4> QED
        BY <2>3, <3>1, <4>1, NoNumbers DEF Seen, Ahead
    <3>3. CASE s # r
      <4>1. dec'[s] = dec[s] /\ held'[s] = held[s]
        BY <1>0, <3>1, <3>3
      <4> QED
        BY <2>3, <3>1, <4>1 DEF Seen, Ahead
    <3> QED
      BY <3>2, <3>3
  <2> QED
    BY <1>0, <1>10, <2>1, <2>2, <2>3 DEF Ends
<1>11. CASE UNCHANGED vars
  <2>1. UNCHANGED <<recv, hand, dec, rd, held, closing>>
    BY <1>11 DEF vars, lists, readVars, histVars
  <2> QED
    BY <2>1 DEF Ends, Seen, Ahead, Clearing
<1>12. CASE Clear
  BY <1>0, <1>5, <1>10, <1>12 DEF Clear
<1>13. CASE Read
  BY <1>4, <1>5, <1>6, <1>8, <1>9, <1>12, <1>13 DEF Read
<1> QED
  BY <1>1, <1>11, <1>13 DEF Next

-----------------------------------------------------------------------------
(***************************************************************************)
(* The theorems.                                                           *)
(***************************************************************************)

LEMMA InitEmpty ==
  ASSUME Init, NEW s \in Streams
  PROVE  recv[s] = <<>> /\ hand[s] = <<>> /\ dec[s] = <<>> /\ Inside(s) = <<>>
<1>1. recv[s] = <<>> /\ hand[s] = <<>> /\ dec[s] = <<>>
  BY DEF Init
<1>2. <<>> \o <<>> = <<>>
  BY EmptySeq, ConcatEmptySeq
<1> QED
  BY <1>1, <1>2 DEF Inside

LEMMA InitTypes ==
  ASSUME Init
  PROVE  TypeOK
<1> USE FFBufferAssumption
<1>0. 0 \in 0..MaxDts /\ 0 \in 0..MaxClears /\ 0 \in Nat
  OBVIOUS
<1>1. ListTypes
  <2>1. <<>> \in Seq(Packet)
    BY EmptySeq
  <2> QED
    BY <2>1 DEF Init, ListTypes
<1>2. ClockTypes
  <2>1. MinTime \in MinTime..CacheToPlayMax
    BY DEF CacheToPlayMax
  <2>2. last \in [Streams -> 0..MaxDts]
    BY DEF Init
  <2>3. play = "Init" /\ reset = FALSE /\ clock = 0 /\ toPlay = MinTime
    BY DEF Init
  <2> QED
    BY <1>0, <2>1, <2>2, <2>3 DEF ClockTypes
<1>3. TickTypes
  <2>1. first \in [Streams -> 0..MaxDts]
    BY DEF Init
  <2>2. tk = "idle" /\ span = 0 /\ due = 0 /\ some = FALSE
    BY DEF Init
  <2> QED
    BY <1>0, <2>1, <2>2 DEF TickTypes
<1>4. ReadTypes
  <2>1. PICK p \in Positions : pos = [s \in Streams |-> p]
    BY DEF Init
  <2>2. p \in 0..(MaxDts + 1)
    BY DEF Streams
  <2>3. pos \in [Streams -> 0..(MaxDts + 1)]
    BY <2>1, <2>2
  <2>4. sent \in [Streams -> 0..MaxSent]
    BY DEF Init
  <2>5. rd = "loop" /\ eof = FALSE /\ clears = 0
    BY DEF Init
  <2> QED
    BY <1>0, <2>3, <2>4, <2>5 DEF ReadTypes
<1>5. HistTypes
  <2>1. got \in [Streams -> 0..MaxSent]
    BY DEF Init
  <2>2. fresh \in [Streams -> 1..(MaxSent + 1)]
    BY DEF Init
  <2>3. held \in [Streams -> SUBSET (1..MaxSent)] /\ closing = FALSE
    BY DEF Init
  <2> QED
    BY <2>1, <2>2, <2>3 DEF HistTypes
<1> QED
  BY <1>1, <1>2, <1>3, <1>4, <1>5 DEF TypeOK

\* The inductive invariant holds.
THEOREM Invariance == Spec => []IInv
<1>1. Init => IInv
  <2> SUFFICES ASSUME Init PROVE IInv
    OBVIOUS
  <2>1. Hands
    BY InitEmpty DEF Hands
  <2>2. Order
    <3>1. ASSUME NEW s \in Streams PROVE Len(Inside(s)) = 0
      BY InitEmpty, EmptySeq
    <3> QED
      BY <3>1 DEF Order, Increasing
  <2>3. Stale
    <3>1. ASSUME NEW s \in Streams
          PROVE  Numbers(recv[s]) = {} /\ Ahead(s) = {}
      BY InitEmpty, NoNumbers DEF Ahead
    <3>2. ASSUME NEW s \in Streams PROVE fresh[s] <= sent[s] + 1
      BY DEF Init
    <3> QED
      BY <3>1, <3>2 DEF Stale
  <2>4. Ends
    BY DEF Init, Ends
  <2> QED
    BY <2>1, <2>2, <2>3, <2>4, InitTypes DEF IInv
<1>2. IInv /\ [Next]_vars => IInv'
  BY TypeStep, HandsStep, OrderStep, StaleStep, EndsStep DEF IInv
<1> QED
  BY <1>1, <1>2, PTL DEF Spec

\* Every variable of FFBuffer's model keeps its type; above all n_cache_to_play_time_ stays
\* between the two times of the setting, however often playing stalls.
THEOREM TypeCorrect == Spec => []TypeOK
<1>1. IInv => TypeOK
  BY DEF IInv
<1> QED
  BY <1>1, Invariance, PTL

\* When a clearing is over, no packet from before it goes to a decoder any more but for
\* those the tick held when its decode list was emptied.
THEOREM ClearedAll == Spec => []StaleOnlyHeld
<1>1. IInv => StaleOnlyHeld
  <2> SUFFICES ASSUME IInv, rd = "loop", NEW s \in Streams,
                      NEW n \in Numbers(dec[s]) \cup Numbers(hand[s]), n < fresh[s]
               PROVE  n \in held[s]
    BY DEF StaleOnlyHeld
  <2> QED
    BY DEF IInv, Stale, Ahead, DecUncleared
<1> QED
  BY <1>1, Invariance, PTL

\* A source that is closed because all of it was played loses no packet by the clearing but
\* those the tick held when BufferIsEmpty looked.
THEOREM EndComplete == Spec => EndLosesOnlyHeld
<1>1. IInv /\ closing => \A s \in Streams : Numbers(Inside(s)) \subseteq held[s]
  <2> SUFFICES ASSUME IInv, closing, NEW s \in Streams
               PROVE  Numbers(Inside(s)) \subseteq held[s]
    OBVIOUS
  <2>1. recv[s] = <<>> /\ Ahead(s) \subseteq held[s]
    BY DEF IInv, Ends, Seen
  <2>2. /\ dec[s] \in Seq(Packet) /\ hand[s] \in Seq(Packet)
        /\ dec[s] \o hand[s] \in Seq(Packet) /\ Inside(s) = (dec[s] \o hand[s]) \o recv[s]
    BY Parts DEF IInv, TypeOK
  <2>3. Inside(s) = dec[s] \o hand[s]
    BY <2>1, <2>2, ConcatEmptySeq
  <2> QED
    BY <2>1, <2>2, <2>3, NumbersConcat DEF Ahead
<1>2. IInv /\ [Next]_vars =>
        [closing => \A s \in Streams :
           \A n \in Numbers(Inside(s)) : n \in Numbers(Inside(s)') \cup {got'[s]} \cup held[s]]_vars
  BY <1>1
<1> QED
  BY <1>2, Invariance, PTL DEF Spec, EndLosesOnlyHeld

-----------------------------------------------------------------------------
(***************************************************************************)
(* Each stream implements PacketFlow.                                      *)
(***************************************************************************)

Queue(q) == [i \in 1..Len(q) |-> q[i].n]

LEMMA QueueOf ==
  ASSUME NEW q \in Seq(Packet)
  PROVE  /\ Queue(q) \in Seq(Nat) /\ Len(Queue(q)) = Len(q) /\ Len(q) \in Nat
         /\ \A i \in 1..Len(q) : Queue(q)[i] = q[i].n
<1>1. Len(q) \in Nat /\ \A i \in 1..Len(q) : q[i] \in Packet
  BY LenProperties, ElementOfSeq
<1>2. \A i \in 1..Len(q) : q[i].n \in Nat
  BY <1>1 DEF Packet
<1> QED
  BY <1>1, <1>2, IsASeq DEF Queue

LEMMA QueueAppend ==
  ASSUME NEW q \in Seq(Packet), NEW p \in Packet
  PROVE  Queue(Append(q, p)) = Append(Queue(q), p.n)
<1> DEFINE e == Append(q, p)
           lhs == Queue(e)
           rhs == Append(Queue(q), p.n)
<1>1. /\ e \in Seq(Packet) /\ Len(e) = Len(q) + 1 /\ e[Len(q) + 1] = p
      /\ \A i \in 1..Len(q) : e[i] = q[i]
  BY AppendProperties
<1>2. p.n \in Nat
  BY DEF Packet
<1>3. /\ Queue(q) \in Seq(Nat) /\ Len(Queue(q)) = Len(q) /\ Len(q) \in Nat
      /\ \A i \in 1..Len(q) : Queue(q)[i] = q[i].n
  BY QueueOf
<1>4. /\ rhs \in Seq(Nat) /\ Len(rhs) = Len(q) + 1 /\ rhs[Len(q) + 1] = p.n
      /\ \A i \in 1..Len(q) : rhs[i] = Queue(q)[i]
  <2> HIDE DEF Queue
  <2> QED
    BY <1>2, <1>3, AppendProperties
<1> HIDE DEF e
<1>5. lhs \in Seq(Nat) /\ Len(lhs) = Len(q) + 1 /\ \A i \in 1..(Len(q) + 1) : lhs[i] = e[i].n
  BY <1>1, QueueOf
<1> HIDE DEF lhs, rhs
<1>6. ASSUME NEW i \in 1..(Len(q) + 1) PROVE lhs[i] = rhs[i]
  <2>1. CASE i = Len(q) + 1
    BY <2>1, <1>1, <1>4, <1>5
  <2>2. CASE i \in 1..Len(q)
    BY <2>2, <1>1, <1>3, <1>4, <1>5
  <2> QED
    BY <2>1, <2>2, <1>3
<1>7. lhs = rhs
  BY <1>4, <1>5, <1>6, SeqEqual
<1> QED
  BY <1>7 DEF lhs, rhs, e

LEMMA QueueTail ==
  ASSUME NEW q \in Seq(Packet), q # <<>>
  PROVE  /\ Queue(q) # <<>> /\ Head(Queue(q)) = Head(q).n
         /\ Queue(Tail(q)) = Tail(Queue(q))
<1>1. Len(q) \in Nat \ {0}
  BY EmptySeq, LenProperties
<1>2. /\ Queue(q) \in Seq(Nat) /\ Len(Queue(q)) = Len(q)
      /\ \A i \in 1..Len(q) : Queue(q)[i] = q[i].n
  BY QueueOf
<1> DEFINE t == Tail(q)
           lhs == Queue(t)
           rhs == Tail(Queue(q))
<1>3. /\ t \in Seq(Packet) /\ Len(t) = Len(q) - 1 /\ Head(q) = q[1]
      /\ \A i \in 1..Len(t) : t[i] = q[i + 1]
  BY <1>1, HeadTailProperties
<1>4. Queue(q) # <<>>
  BY <1>1, <1>2, EmptySeq
<1>5. /\ rhs \in Seq(Nat) /\ Len(rhs) = Len(q) - 1 /\ Head(Queue(q)) = Queue(q)[1]
      /\ \A i \in 1..(Len(q) - 1) : rhs[i] = Queue(q)[i + 1]
  BY <1>2, <1>4, HeadTailProperties
<1> HIDE DEF t
<1>6. lhs \in Seq(Nat) /\ Len(lhs) = Len(q) - 1 /\ \A i \in 1..(Len(q) - 1) : lhs[i] = t[i].n
  BY <1>3, QueueOf
<1> HIDE DEF lhs, rhs
<1>7. ASSUME NEW i \in 1..(Len(q) - 1) PROVE lhs[i] = rhs[i]
  <2>1. i + 1 \in 1..Len(q)
    BY <1>1
  <2> QED
    BY <2>1, <1>2, <1>3, <1>5, <1>6
<1>8. lhs = rhs
  BY <1>5, <1>6, <1>7, SeqEqual
<1>9. Head(Queue(q)) = Head(q).n
  BY <1>1, <1>2, <1>3, <1>5
<1> QED
  BY <1>4, <1>8, <1>9 DEF lhs, rhs, t

InQueue(q) == {Queue(q)[i] : i \in 1..Len(Queue(q))}

LEMMA QueueParts ==
  ASSUME NEW a \in Seq(Packet), NEW b \in Seq(Packet), NEW c \in {a, b}, NEW n,
         Increasing(c, n)
  PROVE  /\ Queue(c) \in Seq(InQueue(a \o b))
         /\ \A i, j \in 1..Len(Queue(c)) : i < j => Queue(c)[i] < Queue(c)[j]
<1>1. c \in Seq(Packet) /\ a \o b \in Seq(Packet) /\ Numbers(c) \subseteq Numbers(a \o b)
  BY NumbersConcat
<1>2. /\ Queue(c) \in Seq(Nat) /\ Len(Queue(c)) = Len(c) /\ Len(c) \in Nat
      /\ \A i \in 1..Len(c) : Queue(c)[i] = c[i].n
  BY <1>1, QueueOf
<1> DEFINE d == a \o b
<1>3. /\ Len(Queue(d)) = Len(d) /\ \A i \in 1..Len(d) : Queue(d)[i] = d[i].n
      /\ Numbers(d) = {d[i].n : i \in 1..Len(d)}
      /\ Numbers(c) = {c[i].n : i \in 1..Len(c)}
  BY <1>1, QueueOf, NumbersOf
<1> HIDE DEF d
<1>4. Numbers(d) \subseteq InQueue(d)
  BY <1>3 DEF InQueue
<1>5. \A i \in 1..Len(c) : c[i].n \in InQueue(d)
  BY <1>1, <1>3, <1>4 DEF d
<1>6. Queue(c) \in Seq(InQueue(d))
  BY <1>2, <1>5, IsASeq DEF Queue
<1>7. \A i, j \in 1..Len(Queue(c)) : i < j => Queue(c)[i] < Queue(c)[j]
  BY <1>2 DEF Increasing
<1> QED
  BY <1>6, <1>7 DEF d

\* What a step does to the numbers in the queue of stream s.
Flow(s, q, q1) ==
  \/ /\ q1 = q /\ sent'[s] = sent[s] /\ got'[s] = got[s]
     /\ Clearing' = Clearing \/ Clearing' = ~Clearing
  \/ /\ ~Clearing /\ sent'[s] = sent[s] + 1 /\ q1 = Append(q, sent[s] + 1)
     /\ got'[s] = got[s] /\ Clearing' = Clearing
  \/ /\ q # <<>> /\ got'[s] = Head(q) /\ q1 = Tail(q)
     /\ sent'[s] = sent[s] /\ Clearing' = Clearing
  \/ /\ Clearing /\ q1 \in Seq({q[i] : i \in 1..Len(q)})
     /\ \A i, j \in 1..Len(q1) : i < j => q1[i] < q1[j]
     /\ sent'[s] = sent[s] /\ got'[s] = got[s] /\ Clearing' = Clearing

LEMMA StepFlow ==
  ASSUME IInv, [Next]_vars, NEW s \in Streams
  PROVE  Flow(s, Queue(Inside(s)), Queue(Inside(s)'))
<1>1. Step(s) /\ Inside(s) \in Seq(Packet)
  BY EveryStep, Parts DEF IInv, TypeOK
<1>2. Increasing(Inside(s)', sent'[s])
  BY OrderStep DEF IInv, Order
<1> DEFINE q == Queue(Inside(s))
           q1 == Queue(Inside(s)')
<1>3. CASE Stays(s) \/ Turns(s)
  <2>1. Inside(s)' = Inside(s) /\ Keeps(s) /\ (Clearing' = Clearing \/ Clearing' = ~Clearing)
    BY <1>3 DEF Stays, Turns
  <2>2. q1 = q
    BY <2>1
  <2> HIDE DEF q, q1
  <2>3. Flow(s, q, q1)
    BY <2>1, <2>2 DEF Flow, Keeps
  <2> QED
    BY <2>3 DEF q, q1
<1>4. CASE Enters(s)
  <2>1. PICK p \in Packet : p.n = sent[s] + 1 /\ Inside(s)' = Append(Inside(s), p)
    BY <1>4 DEF Enters
  <2>2. Queue(Append(Inside(s), p)) = Append(q, sent[s] + 1)
    BY <1>1, <2>1, QueueAppend
  <2>3. q1 = Append(q, sent[s] + 1)
    BY <2>1, <2>2
  <2>4. Clearing' = Clearing
    BY <1>4 DEF Enters, Clearing
  <2> HIDE DEF q, q1
  <2>5. Flow(s, q, q1)
    BY <1>4, <2>3, <2>4 DEF Flow, Enters
  <2> QED
    BY <2>5 DEF q, q1
<1>5. CASE Leaves(s)
  <2>1. q # <<>> /\ Head(q) = Head(Inside(s)).n /\ Queue(Tail(Inside(s))) = Tail(q)
    BY <1>1, <1>5, QueueTail DEF Leaves
  <2>2. q1 = Tail(q)
    BY <1>5, <2>1 DEF Leaves
  <2> HIDE DEF q, q1
  <2>3. Flow(s, q, q1)
    BY <1>5, <2>1, <2>2 DEF Flow, Leaves
  <2> QED
    BY <2>3 DEF q, q1
<1>6. CASE Drops(s)
  <2>1. PICK a \in Seq(Packet), b \in Seq(Packet) : Inside(s) = a \o b /\ Inside(s)' \in {a, b}
    BY <1>6 DEF Drops
  <2>2. PICK c \in {a, b} : Inside(s)' = c
    BY <2>1
  <2>3. Increasing(c, sent'[s])
    BY <1>2, <2>2
  <2>4. /\ Queue(c) \in Seq(InQueue(a \o b))
        /\ \A i, j \in 1..Len(Queue(c)) : i < j => Queue(c)[i] < Queue(c)[j]
    BY <2>1, <2>3, QueueParts
  <2>5. Queue(c) = q1 /\ InQueue(a \o b) = {q[i] : i \in 1..Len(q)}
    BY <2>1, <2>2 DEF InQueue
  <2>6. Clearing' = Clearing
    BY <1>6 DEF Drops, Clearing
  <2> HIDE DEF q, q1
  <2>7. /\ q1 \in Seq({q[i] : i \in 1..Len(q)})
        /\ \A i, j \in 1..Len(q1) : i < j => q1[i] < q1[j]
    BY <2>4, <2>5
  <2>8. Flow(s, q, q1)
    BY <1>6, <2>6, <2>7 DEF Flow, Drops, Keeps
  <2> QED
    BY <2>8 DEF q, q1
<1> QED
  BY <1>1, <1>3, <1>4, <1>5, <1>6 DEF Step

LEMMA QueueEmpty == Queue(<<>>) = <<>>
<1>1. Len(<<>>) = 0 /\ <<>> \in Seq(Packet)
  BY EmptySeq
<1>2. Queue(<<>>) \in Seq(Nat) /\ Len(Queue(<<>>)) = 0
  BY <1>1, QueueOf
<1> QED
  BY <1>2, EmptySeq

LEMMA InitFlow ==
  ASSUME Init, NEW s \in Streams
  PROVE  sent[s] = 0 /\ Queue(Inside(s)) = <<>> /\ got[s] = 0 /\ Clearing = FALSE
<1>1. Queue(Inside(s)) = <<>>
  BY InitEmpty, QueueEmpty
<1>2. sent[s] = 0 /\ got[s] = 0 /\ Clearing = FALSE
  BY DEF Init, Clearing
<1> QED
  BY <1>1, <1>2

\* The four lists of a stream, and the tick's passage between them, are one queue that only
\* a clearing takes packets out of unplayed.
THEOREM ListsAreQueues == Spec => InOrder
<1>1. Init => Audio!Init /\ Video!Init
  <2>1. "audio" \in Streams /\ "video" \in Streams
    BY DEF Streams
  <2> QED
    BY <2>1, InitFlow DEF Audio!Init, Video!Init, Queue
<1>2. IInv /\ [Next]_vars => [Audio!Next]_Audio!vars
  <2> SUFFICES ASSUME IInv, [Next]_vars PROVE [Audio!Next]_Audio!vars
    OBVIOUS
  <2>1. "audio" \in Streams
    BY DEF Streams
  <2>2. Flow("audio", Queue(Inside("audio")), Queue(Inside("audio")'))
    BY <2>1, StepFlow
  <2> QED
    BY <2>2 DEF Flow, Queue, Audio!Next, Audio!Put, Audio!Get, Audio!Drop, Audio!Packets,
                Audio!Clear, Audio!vars
<1>3. IInv /\ [Next]_vars => [Video!Next]_Video!vars
  <2> SUFFICES ASSUME IInv, [Next]_vars PROVE [Video!Next]_Video!vars
    OBVIOUS
  <2>1. "video" \in Streams
    BY DEF Streams
  <2>2. Flow("video", Queue(Inside("video")), Queue(Inside("video")'))
    BY <2>1, StepFlow
  <2> QED
    BY <2>2 DEF Flow, Queue, Video!Next, Video!Put, Video!Get, Video!Drop, Video!Packets,
                Video!Clear, Video!vars
<1> QED
  BY <1>1, <1>2, <1>3, Invariance, PTL DEF Spec, InOrder, Audio!Spec, Video!Spec

-----------------------------------------------------------------------------
(***************************************************************************)
(* A full buffer is played.  The fairness of FFBuffer is stated again with *)
(* the guards of its actions written out, since ENABLED is opaque to the   *)
(* provers: the tick goes on wherever it stands, and a front packet is     *)
(* seen to be old.                                                         *)
(***************************************************************************)
Weak(guard, A) == []<>~guard \/ []<><<A>>_vars
Strong(guard, A) == <>[]~guard \/ []<><<A>>_vars

GoesOn == TickFill \/ TickStep

Place(s) == IF s = "video" THEN "firstVideo" ELSE "firstAudio"
Looks(s, old) ==
  \/ s = "video" /\ TickFirst("video", "firstVideo", "firstAudio", old)
  \/ s = "audio" /\ TickFirst("audio", "firstAudio", "start", old)

SeesOld(s) == Strong(tk = Place(s), Looks(s, TRUE))

GuardFairness ==
  /\ Weak(tk # "idle" \/ play # "Playing" \/ reset, GoesOn)
  /\ \A s \in Streams : SeesOld(s)

\* Only a playing tick takes what is due.
Takes == tk \in {"takeVideo", "takeAudio", "push"} => play = "Playing"

Over == play = "Playing" \/ rd # "loop"
Lens == [s \in Streams |-> Len(recv[s])]

\* A tick has still to look at the packets of stream s.
Unseen(s) == tk \in {"idle", "firstVideo"} \/ (tk = "firstAudio" /\ s = "audio")

\* The clock is to be reset, and a packet of s will be left when it is.
Ready(s) == ~Over /\ reset /\ Lens[s] >= (IF Unseen(s) THEN 2 ELSE 1)

\* The clock is set and there is a packet of s.
Holds(s) == ~Over /\ ~reset /\ Lens[s] >= 1

\* The tick has seen enough to start playing.
Enough == ~Over /\ ~reset /\ tk \in {"firstAudio", "start"} /\ span >= CachingTime

LEMMA LensType == TypeOK => Lens \in [Streams -> Nat]
<1> SUFFICES ASSUME TypeOK PROVE Lens \in [Streams -> Nat]
  OBVIOUS
<1>1. \A s \in Streams : recv[s] \in Seq(Packet)
  BY DEF TypeOK, ListTypes
<1>2. \A s \in Streams : Len(recv[s]) \in Nat
  BY <1>1, LenProperties
<1> QED
  BY <1>2 DEF Lens

LEMMA TakesStep == Takes /\ [Next]_vars => Takes'
<1> SUFFICES ASSUME Takes, [Next]_vars PROVE Takes'
  OBVIOUS
<1>1. CASE TickFill \/ TickReset \/ TickStart \/ TickWait \/ TickEnd
  BY <1>1 DEF Takes, TickFill, TickReset, TickStart, TickWait, TickEnd, LocalsDone
<1>2. CASE TickPlay(0) \/ TickPlay(1)
  BY <1>2 DEF Takes, TickPlay
<1>3. ASSUME NEW old \in BOOLEAN,
             \/ TickFirst("video", "firstVideo", "firstAudio", old)
             \/ TickFirst("audio", "firstAudio", "start", old)
      PROVE  Takes'
  BY <1>3 DEF Takes, TickFirst
<1>4. CASE \/ TickTake("video", "takeVideo", "takeAudio")
           \/ TickTake("audio", "takeAudio", "push")
  BY <1>4 DEF Takes, TickTake
<1>5. CASE UNCHANGED <<tk, play>>
  BY <1>5 DEF Takes
<1>6. CASE TickPush("audio") \/ TickPush("video") \/ DoDecode("audio") \/ DoDecode("video")
  BY <1>5, <1>6 DEF TickPush, DoDecode, tickVars, clockVars
<1>7. CASE Read
  BY <1>5, <1>7 DEF Read, Recv, ReadEof, Seek, Clear, ClearRecv, ClearDec, ClearTimes, Reopen,
     EndedVideo, EndedClose, EndedRest, tickVars, clockVars
<1>8. CASE UNCHANGED vars
  BY <1>5, <1>8 DEF vars, tickVars, clockVars
<1> QED
  BY <1>1, <1>2, <1>3, <1>4, <1>6, <1>7, <1>8 DEF Next, Engine, TickStep

LEMMA LensTypeNext == TypeOK' => Lens' \in [Streams -> Nat]
<1> SUFFICES ASSUME TypeOK' PROVE Lens' \in [Streams -> Nat]
  OBVIOUS
<1>1. \A s \in Streams : recv'[s] \in Seq(Packet)
  BY DEF TypeOK, ListTypes
<1>2. \A s \in Streams : Len(recv'[s]) \in Nat
  BY <1>1, LenProperties
<1> QED
  BY <1>2 DEF Lens

\* What the reader does to a tick that waits: nothing, but for more packets.
Grows == /\ UNCHANGED <<tk, span, reset, toPlay>>
         /\ \A s \in Streams : Lens'[s] >= Lens[s]

\* The reader either interrupts a tick that waits for packets, or adds some.
LEMMA WaitReads ==
  ASSUME TypeOK, ~Over, Read
  PROVE  Over' \/ Grows
<1>1. \A s \in Streams : recv[s] \in Seq(Packet) /\ Len(recv[s]) \in Nat
  BY LenProperties DEF TypeOK, ListTypes
<1>2. rd = "loop" /\ play # "Playing"
  BY DEF Over
<1>3. CASE UNCHANGED <<recv, tk, span, reset, toPlay>>
  BY <1>1, <1>3 DEF Grows, Lens
<1>4. ASSUME NEW s \in Present, NEW jump \in {0, Gap}, Recv(s, jump) PROVE Grows
  <2> DEFINE p == [n |-> sent[s] + 1, dts |-> pos[s] + jump]
  <2>1. /\ s \in Streams
        /\ recv' = [recv EXCEPT ![s] = Append(@, p)]
        /\ UNCHANGED <<tk, span, reset, toPlay>>
    BY <1>4, FFBufferAssumption DEF Recv, tickVars, clockVars, Streams
  <2> HIDE DEF p
  <2>2. recv \in [Streams -> Seq(Packet)]
    BY DEF TypeOK, ListTypes
  <2>3. Len(Append(recv[s], p)) = Len(recv[s]) + 1
    BY <1>1, <2>1
  <2>4. \A x \in Streams : Len(recv'[x]) >= Len(recv[x])
    BY <1>1, <2>1, <2>2, <2>3
  <2> QED
    BY <2>1, <2>4 DEF Grows, Lens
<1>5. CASE ReadEof
  BY <1>3, <1>5 DEF ReadEof, lists, tickVars, clockVars
<1>6. CASE Seek
  BY <1>6 DEF Seek, ClearBegins, Over
<1>7. CASE EndedVideo
  BY <1>7 DEF EndedVideo, Over
<1>8. CASE EndedRest("video", "loop")
  BY <1>2, <1>8 DEF EndedRest, ClearBegins, Over
<1>9. ~Clear /\ ~Reopen /\ ~EndedClose /\ ~EndedRest("audio", "endAudio")
  BY <1>2 DEF Clear, ClearRecv, ClearDec, ClearTimes, Reopen, EndedClose, EndedRest
<1> QED
  BY <1>4, <1>5, <1>6, <1>7, <1>8, <1>9 DEF Read

\* What happens while a tick waits for packets.
LEMMA WaitSteps ==
  ASSUME TypeOK, Takes, ~Over, [Next]_vars
  PROVE  \/ Over'
         \/ Grows
         \/ TickFill \/ TickReset \/ TickWait
         \/ \E s \in Streams, old \in BOOLEAN : Looks(s, old)
<1>1. play # "Playing" /\ tk \notin {"takeVideo", "takeAudio", "push"}
  BY DEF Over, Takes
<1>2. CASE UNCHANGED <<recv, tk, span, reset, toPlay>>
  <2>1. Lens' = Lens
    BY <1>2 DEF Lens
  <2>2. \A s \in Streams : Lens[s] \in Nat
    BY LensType
  <2> QED
    BY <1>2, <2>1, <2>2 DEF Grows
<1>3. CASE Read
  BY <1>3, WaitReads
<1>4. CASE DoDecode("audio") \/ DoDecode("video")
  BY <1>2, <1>4 DEF DoDecode, tickVars, clockVars
<1>5. CASE UNCHANGED vars
  BY <1>2, <1>5 DEF vars, lists, tickVars, clockVars
<1>6. CASE TickStart
  BY <1>6 DEF TickStart, Over
<1>7. ASSUME NEW old \in BOOLEAN,
             \/ TickFirst("video", "firstVideo", "firstAudio", old)
             \/ TickFirst("audio", "firstAudio", "start", old)
      PROVE  \E s \in Streams, o \in BOOLEAN : Looks(s, o)
  <2>1. Looks("video", old) \/ Looks("audio", old)
    BY <1>7 DEF Looks
  <2> QED
    BY <2>1 DEF Streams
<1>8. /\ ~TickPlay(0) /\ ~TickPlay(1) /\ ~TickEnd /\ ~TickPush("audio") /\ ~TickPush("video")
      /\ ~TickTake("video", "takeVideo", "takeAudio") /\ ~TickTake("audio", "takeAudio", "push")
  BY <1>1 DEF TickPlay, TickEnd, TickPush, TickTake
<1> QED
  BY <1>3, <1>4, <1>5, <1>6, <1>7, <1>8 DEF Next, Engine, TickStep

\* A look at the packets of stream s.
LEMMA LookStep ==
  ASSUME TypeOK, NEW s \in Streams, NEW old \in BOOLEAN, Looks(s, old)
  PROVE  /\ tk = Place(s) /\ tk' = (IF s = "video" THEN "firstAudio" ELSE "start")
         /\ UNCHANGED <<play, rd, reset, toPlay>>
         /\ span \in Nat /\ span' >= span
         /\ Lens[s] >= 1 /\ old => span' >= CachingTime
         /\ Lens[s] >= 1 => Lens'[s] >= Lens[s] - 1
         /\ ~old => Lens'[s] = Lens[s]
         /\ \A x \in Streams : x # s => Lens'[x] = Lens[x]
<1>1. /\ recv \in [Streams -> Seq(Packet)] /\ recv[s] \in Seq(Packet)
      /\ Len(recv[s]) \in Nat /\ span \in Nat /\ CachingTime \in Nat
  BY LenProperties, FFBufferAssumption DEF TypeOK, ListTypes, TickTypes
<1> DEFINE here == Place(s)
           next == IF s = "video" THEN "firstAudio" ELSE "start"
<1>2. TickFirst(s, here, next, old)
  BY DEF Looks, Streams, Place
<1>3. tk = here /\ tk' = next /\ UNCHANGED <<play, rd, reset, toPlay>>
  BY <1>2 DEF TickFirst, clockVars, readVars
<1>4. CASE recv[s] = <<>>
  <2>1. recv' = recv /\ span' = span /\ Len(recv[s]) = 0
    BY <1>2, <1>4, EmptySeq DEF TickFirst
  <2> QED
    BY <1>1, <1>3, <2>1 DEF Lens
<1>5. CASE recv[s] # <<>>
  <2>1. span' = Larger(span, IF old THEN CachingTime ELSE CacheTime(recv[s]))
    BY <1>2, <1>5 DEF TickFirst
  <2>2. CacheTime(recv[s]) > span => CacheTime(recv[s]) >= span
    <3>1. 1 \in 1..Len(recv[s]) /\ Len(recv[s]) \in 1..Len(recv[s])
      BY <1>1, <1>5, EmptySeq
    <3>2. recv[s][1] \in Packet /\ recv[s][Len(recv[s])] \in Packet
      BY <1>1, <3>1, ElementOfSeq
    <3>3. recv[s][1].dts \in Int /\ recv[s][Len(recv[s])].dts \in Int
      BY <3>2 DEF Packet
    <3> QED
      BY <1>1, <1>5, <3>3 DEF CacheTime
  <2>3. span' >= span /\ (old => span' >= CachingTime)
    BY <1>1, <2>1, <2>2 DEF Larger
  <2>4. CASE old
    <3>1. recv' = [recv EXCEPT ![s] = Tail(@)]
      BY <1>2, <1>5, <2>4 DEF TickFirst
    <3>2. recv'[s] = Tail(recv[s]) /\ \A x \in Streams : x # s => recv'[x] = recv[x]
      BY <1>1, <3>1
    <3>3. Len(recv'[s]) = Len(recv[s]) - 1
      BY <1>1, <1>5, <3>2, HeadTailProperties
    <3> QED
      BY <1>1, <1>3, <2>3, <2>4, <3>2, <3>3 DEF Lens
  <2>5. CASE ~old
    <3>1. recv' = recv
      BY <1>2, <1>5, <2>5 DEF TickFirst
    <3> QED
      BY <1>1, <1>3, <2>3, <2>5, <3>1 DEF Lens
  <2> QED
    BY <2>4, <2>5
<1> QED
  BY <1>4, <1>5

LEMMA OtherSteps ==
  /\ TickFill => tk = "idle" /\ tk' = "firstVideo" /\ UNCHANGED <<recv, play, rd, reset, toPlay, span>>
  /\ TickReset => tk = "start" /\ tk' = "idle" /\ reset /\ ~reset' /\ UNCHANGED <<recv, play, rd>>
  /\ TickWait => /\ tk = "start" /\ tk' = "idle" /\ ~reset /\ span < toPlay
                 /\ UNCHANGED <<recv, play, rd, reset>>
BY DEF TickFill, TickReset, TickWait, LocalsDone, lists, clockVars, readVars

\* With the clock to be reset, a tick gets on to reset it, and leaves a packet of s.
LEMMA ReadySteps ==
  ASSUME TypeOK, Takes, NEW s \in Streams, Ready(s), [Next]_vars
  PROVE  \/ Over' \/ (tk = "start" /\ Holds(s)')
         \/ Ready(s)' /\ \/ tk' = tk
                         \/ tk = "idle" /\ tk' = "firstVideo"
                         \/ tk = "firstVideo" /\ tk' = "firstAudio"
                         \/ tk = "firstAudio" /\ tk' = "start"
<1> SUFFICES ASSUME ~Over' PROVE \/ tk = "start" /\ Holds(s)'
                                 \/ Ready(s)' /\ \/ tk' = tk
                                                 \/ tk = "idle" /\ tk' = "firstVideo"
                                                 \/ tk = "firstVideo" /\ tk' = "firstAudio"
                                                 \/ tk = "firstAudio" /\ tk' = "start"
  OBVIOUS
<1>0. Lens' \in [Streams -> Nat] /\ Lens'[s] \in Nat
  <2>1. TypeOK'
    BY TypeStep
  <2>2. Lens' \in [Streams -> Nat]
    BY <2>1, LensTypeNext
  <2> QED
    BY <2>2
<1>1. Lens \in [Streams -> Nat] /\ ~Over /\ reset /\ Lens[s] \in Nat
      /\ Lens[s] >= (IF Unseen(s) THEN 2 ELSE 1)
  BY LensType DEF Ready
<1>2. CASE Grows
  <2>1. tk' = tk /\ reset' = reset /\ Lens'[s] >= Lens[s] /\ Unseen(s)' = Unseen(s)
    BY <1>2 DEF Grows, Unseen
  <2> QED
    BY <1>0, <1>1, <2>1 DEF Ready
<1>3. CASE TickFill
  <2>1. tk = "idle" /\ tk' = "firstVideo" /\ reset' = reset /\ Lens' = Lens
    BY <1>3, OtherSteps DEF Lens
  <2>2. Unseen(s) /\ Unseen(s)'
    BY <2>1 DEF Unseen
  <2> QED
    BY <1>0, <1>1, <2>1, <2>2 DEF Ready
<1>4. CASE TickReset
  <2>1. tk = "start" /\ ~reset' /\ Lens' = Lens
    BY <1>4, OtherSteps DEF Lens
  <2>2. ~Unseen(s)
    BY <2>1 DEF Unseen
  <2> QED
    BY <1>0, <1>1, <2>1, <2>2 DEF Holds
<1>5. ~TickWait
  BY <1>1, OtherSteps
<1>6. ASSUME NEW x \in Streams, NEW old \in BOOLEAN, Looks(x, old)
      PROVE  Ready(s)' /\ \/ tk = "firstVideo" /\ tk' = "firstAudio"
                          \/ tk = "firstAudio" /\ tk' = "start"
  <2>1. /\ tk = Place(x) /\ tk' = (IF x = "video" THEN "firstAudio" ELSE "start")
        /\ reset' = reset
        /\ Lens[x] >= 1 => Lens'[x] >= Lens[x] - 1
        /\ x # s => Lens'[s] = Lens[s]
    BY <1>6, LookStep
  <2>2. x = "video" \/ x = "audio"
    BY DEF Streams
  <2>3. \/ tk = "firstVideo" /\ tk' = "firstAudio"
        \/ tk = "firstAudio" /\ tk' = "start"
    BY <2>1, <2>2 DEF Place
  <2>4. CASE x = s
    <3>1. Unseen(s) /\ ~Unseen(s)'
      BY <2>1, <2>2, <2>4 DEF Unseen, Place
    <3> QED
      BY <1>0, <1>1, <2>1, <2>3, <2>4, <3>1 DEF Ready
  <2>5. CASE x # s
    <3>1. Unseen(s)' => Unseen(s)
      BY <2>1, <2>2, <2>5 DEF Unseen, Place, Streams
    <3> QED
      BY <1>0, <1>1, <2>1, <2>3, <2>5, <3>1 DEF Ready
  <2> QED
    BY <2>4, <2>5
<1> QED
  BY <1>1, <1>2, <1>3, <1>4, <1>5, <1>6, WaitSteps

\* With the clock set, the ticks go round until one starts playing or sees an old packet.
LEMMA HoldsSteps ==
  ASSUME TypeOK, Takes, NEW s \in Streams, Holds(s), [Next]_vars
  PROVE  /\ \/ Over' \/ Enough'
            \/ Holds(s)' /\ \/ tk' = tk
                            \/ tk = "idle" /\ tk' = "firstVideo"
                            \/ tk = "firstVideo" /\ tk' = "firstAudio"
                            \/ tk = "firstAudio" /\ tk' = "start"
                            \/ tk = "start" /\ tk' = "idle"
         /\ Looks(s, TRUE) => Enough'
<1>0. Lens' \in [Streams -> Nat] /\ Lens'[s] \in Nat
  <2>1. TypeOK'
    BY TypeStep
  <2>2. Lens' \in [Streams -> Nat]
    BY <2>1, LensTypeNext
  <2> QED
    BY <2>2
<1>1. /\ Lens \in [Streams -> Nat] /\ ~Over /\ ~reset /\ Lens[s] \in Nat /\ Lens[s] >= 1
      /\ span \in Nat /\ CachingTime \in Nat
  BY LensType, FFBufferAssumption DEF Holds, TypeOK, TickTypes
<1>2. ASSUME NEW x \in Streams, NEW old \in BOOLEAN, Looks(x, old)
      PROVE  \/ x = s /\ old /\ Enough'
             \/ ~(x = s /\ old)
                /\ Holds(s)' /\ \/ tk = "firstVideo" /\ tk' = "firstAudio"
                                \/ tk = "firstAudio" /\ tk' = "start"
  <2>1. /\ tk = Place(x) /\ tk' = (IF x = "video" THEN "firstAudio" ELSE "start")
        /\ UNCHANGED <<play, rd, reset>>
        /\ Lens[x] >= 1 /\ old => span' >= CachingTime
        /\ ~old => Lens'[x] = Lens[x]
        /\ x # s => Lens'[s] = Lens[s]
    BY <1>2, LookStep
  <2>2. x = "video" \/ x = "audio"
    BY DEF Streams
  <2>3. \/ tk = "firstVideo" /\ tk' = "firstAudio"
        \/ tk = "firstAudio" /\ tk' = "start"
    BY <2>1, <2>2 DEF Place
  <2>4. ~Over'
    BY <1>1, <2>1 DEF Over
  <2>5. CASE x = s /\ old
    BY <1>1, <2>1, <2>3, <2>4, <2>5 DEF Enough
  <2>6. CASE ~(x = s /\ old)
    <3>1. Lens'[s] = Lens[s]
      BY <2>1, <2>6
    <3> QED
      BY <1>1, <2>1, <2>3, <2>4, <2>6, <3>1 DEF Holds
  <2> QED
    BY <2>5, <2>6
<1>3. Looks(s, TRUE) => Enough'
  BY <1>2
<1>4. CASE Grows
  <2>1. tk' = tk /\ reset' = reset /\ Lens'[s] >= Lens[s]
    BY <1>4 DEF Grows
  <2>2. Lens'[s] >= 1
    BY <1>0, <1>1, <2>1
  <2> QED
    BY <1>1, <1>3, <2>1, <2>2 DEF Holds
<1>5. CASE TickFill \/ TickWait
  <2>1. /\ \/ tk = "idle" /\ tk' = "firstVideo"
           \/ tk = "start" /\ tk' = "idle"
        /\ UNCHANGED <<play, rd, reset>> /\ Lens' = Lens
    BY <1>5, OtherSteps DEF Lens
  <2>2. ~Over'
    BY <1>1, <2>1 DEF Over
  <2> QED
    BY <1>1, <1>3, <2>1, <2>2 DEF Holds
<1>6. ~TickReset
  BY <1>1, OtherSteps
<1> QED
  BY <1>1, <1>2, <1>3, <1>4, <1>5, <1>6, WaitSteps

\* A tick that has seen enough starts playing, if what is to be cached is not more than what
\* the reader collects.
LEMMA EnoughSteps ==
  ASSUME CacheToPlayMax <= CachingTime, TypeOK, Takes, Enough, [Next]_vars
  PROVE  \/ Over'
         \/ Enough' /\ tk' = tk
         \/ Enough' /\ tk = "firstAudio" /\ tk' = "start"
<1>0. span' \in Nat
  BY TypeStep DEF TypeOK, TickTypes
<1>1. /\ ~Over /\ ~reset /\ tk \in {"firstAudio", "start"} /\ span >= CachingTime
      /\ span \in Nat /\ CachingTime \in Nat /\ toPlay \in Nat /\ toPlay <= CachingTime
  BY FFBufferAssumption DEF Enough, TypeOK, TickTypes, ClockTypes, CacheToPlayMax
<1>2. CASE Grows
  BY <1>1, <1>2 DEF Grows, Enough
<1>3. ASSUME NEW x \in Streams, NEW old \in BOOLEAN, Looks(x, old)
      PROVE  Enough' /\ tk = "firstAudio" /\ tk' = "start"
  <2>1. /\ tk = Place(x) /\ tk' = (IF x = "video" THEN "firstAudio" ELSE "start")
        /\ UNCHANGED <<play, rd, reset>> /\ span' >= span
    BY <1>3, LookStep
  <2>2. tk = "firstAudio" /\ tk' = "start"
    BY <1>1, <2>1 DEF Place
  <2>3. span' >= CachingTime
    BY <1>0, <1>1, <2>1
  <2>4. ~Over'
    BY <1>1, <2>1 DEF Over
  <2> QED
    BY <1>1, <2>1, <2>2, <2>3, <2>4 DEF Enough
<1>4. ~TickFill /\ ~TickReset /\ ~TickWait
  BY <1>1, OtherSteps
<1> QED
  BY <1>1, <1>2, <1>3, <1>4, WaitSteps

LEMMA GoesOnMoves == GoesOn /\ tk # "push" => tk' # tk
BY DEF GoesOn, TickStep, TickFill, TickFirst, TickReset, TickStart, TickWait, TickTake, TickPush,
   TickEnd, LocalsDone

\* A full list has two packets.
LEMMA FullList ==
  ASSUME TypeOK, ~NeedMoreData
  PROVE  \E s \in Streams : Lens[s] >= 2
<1>1. PICK s \in Streams : ~(CacheTime(recv[s]) <= CachingTime)
  BY DEF NeedMoreData, Larger, Streams
<1>2. recv[s] \in Seq(Packet) /\ Len(recv[s]) \in Nat /\ CachingTime \in Nat
  BY LenProperties, FFBufferAssumption DEF TypeOK, ListTypes
<1>3. recv[s] # <<>>
  BY <1>1, <1>2 DEF CacheTime
<1>4. Len(recv[s]) # 1
  <2> SUFFICES ASSUME Len(recv[s]) = 1 PROVE FALSE
    OBVIOUS
  <2>1. recv[s][1].dts \in Int
    <3>1. recv[s][1] \in Packet
      BY <1>2, ElementOfSeq
    <3> QED
      BY <3>1 DEF Packet
  <2>2. CacheTime(recv[s]) = 0
    BY <1>2, <2>1, EmptySeq DEF CacheTime
  <2> QED
    BY <1>1, <1>2, <2>2
<1>5. Len(recv[s]) # 0
  BY <1>2, <1>3, EmptySeq
<1>6. Len(recv[s]) >= 2
  <2> DEFINE n == Len(recv[s])
  <2>1. n \in Nat /\ n # 0 /\ n # 1
    BY <1>2, <1>4, <1>5
  <2> HIDE DEF n
  <2>2. n >= 2
    BY <2>1
  <2> QED
    BY <2>2 DEF n
<1> QED
  BY <1>6 DEF Lens

PlaysOut(s) == Ready(s) \/ Holds(s) ~> Over

\* Packets of one stream that are not all taken before the clock is set start playing.
LEMMA StreamPlays ==
  ASSUME CacheToPlayMax <= CachingTime, NEW s \in Streams
  PROVE  Spec /\ GuardFairness => PlaysOut(s)
<1> DEFINE Rd(x) == Ready(s) /\ tk = x
           Hd(x) == Holds(s) /\ tk = x
           En(x) == Enough /\ tk = x
           Typed == TypeOK /\ Takes
           Drive == tk # "idle" \/ play # "Playing" \/ reset
           See == Looks(s, TRUE)
           Here == tk = Place(s)
<1>1. Spec => []Typed
  <2>1. Init => Takes
    BY DEF Init, Takes
  <2> QED
    BY <2>1, TakesStep, TypeCorrect, PTL DEF Spec
<1>2. /\ Typed /\ Rd("idle") /\ [Next]_vars => (Rd("idle") \/ Rd("firstVideo") \/ Over)'
      /\ Typed /\ Rd("firstVideo") /\ [Next]_vars => (Rd("firstVideo") \/ Rd("firstAudio") \/ Over)'
      /\ Typed /\ Rd("firstAudio") /\ [Next]_vars => (Rd("firstAudio") \/ Rd("start") \/ Over)'
      /\ Typed /\ Rd("start") /\ [Next]_vars => (Rd("start") \/ Holds(s) \/ Over)'
  BY ReadySteps
<1>3. /\ Typed /\ Hd("idle") /\ [Next]_vars => (Hd("idle") \/ Hd("firstVideo") \/ Enough \/ Over)'
      /\ Typed /\ Hd("firstVideo") /\ [Next]_vars
           => (Hd("firstVideo") \/ Hd("firstAudio") \/ Enough \/ Over)'
      /\ Typed /\ Hd("firstAudio") /\ [Next]_vars
           => (Hd("firstAudio") \/ Hd("start") \/ Enough \/ Over)'
      /\ Typed /\ Hd("start") /\ [Next]_vars => (Hd("start") \/ Hd("idle") \/ Enough \/ Over)'
  BY HoldsSteps
<1>4. /\ Typed /\ En("firstAudio") /\ [Next]_vars => (En("firstAudio") \/ En("start") \/ Over)'
      /\ Typed /\ En("start") /\ [Next]_vars => (En("start") \/ Over)'
  BY EnoughSteps
<1>5. ASSUME NEW x \in {"idle", "firstVideo", "firstAudio", "start"}
      PROVE  /\ Rd(x) \/ Hd(x) \/ En(x) => Drive
             /\ Rd(x) /\ <<GoesOn>>_vars => ~Rd(x)'
             /\ Hd(x) /\ <<GoesOn>>_vars => ~Hd(x)'
             /\ En(x) /\ <<GoesOn>>_vars => ~En(x)'
             /\ Hd(x) => Holds(s)
  BY GoesOnMoves DEF Ready, Holds, Enough, Over
<1>6. Typed /\ Holds(s) /\ [Next]_vars /\ <<See>>_vars => Enough'
  BY HoldsSteps
<1>7. /\ Typed /\ Ready(s) => Rd("idle") \/ Rd("firstVideo") \/ Rd("firstAudio") \/ Rd("start")
      /\ Typed /\ Holds(s) => Hd("idle") \/ Hd("firstVideo") \/ Hd("firstAudio") \/ Hd("start")
      /\ Enough => En("firstAudio") \/ En("start")
  BY DEF Ready, Holds, Enough, Over, Takes, TypeOK, TickTypes
<1>8. Hd(Place(s)) => Here
  OBVIOUS
<1>9. Place(s) = "firstVideo" \/ Place(s) = "firstAudio"
  BY DEF Place
<1>10. GuardFairness => Weak(Drive, GoesOn) /\ Strong(Here, See)
  BY DEF GuardFairness, SeesOld
<1> HIDE DEF Rd, Hd, En, Typed, Drive, See, Here
<1>11. /\ (Rd("idle") => Drive) /\ (Hd("idle") => Drive)
       /\ (Rd("firstVideo") => Drive) /\ (Hd("firstVideo") => Drive)
       /\ (Rd("firstAudio") => Drive) /\ (Hd("firstAudio") => Drive) /\ (En("firstAudio") => Drive)
       /\ (Rd("start") => Drive) /\ (Hd("start") => Drive) /\ (En("start") => Drive)
  BY <1>5
<1>12. /\ Rd("idle") /\ <<GoesOn>>_vars => ~Rd("idle")'
       /\ Rd("firstVideo") /\ <<GoesOn>>_vars => ~Rd("firstVideo")'
       /\ Rd("firstAudio") /\ <<GoesOn>>_vars => ~Rd("firstAudio")'
       /\ Rd("start") /\ <<GoesOn>>_vars => ~Rd("start")'
  BY <1>5
<1>13. /\ Hd("idle") /\ <<GoesOn>>_vars => ~Hd("idle")'
       /\ Hd("firstVideo") /\ <<GoesOn>>_vars => ~Hd("firstVideo")'
       /\ Hd("firstAudio") /\ <<GoesOn>>_vars => ~Hd("firstAudio")'
       /\ Hd("start") /\ <<GoesOn>>_vars => ~Hd("start")'
  BY <1>5
<1>14. /\ En("firstAudio") /\ <<GoesOn>>_vars => ~En("firstAudio")'
       /\ En("start") /\ <<GoesOn>>_vars => ~En("start")'
  BY <1>5
<1>15. Spec /\ GuardFairness => (Rd("idle") ~> Rd("firstVideo") \/ Over)
  BY <1>1, <1>2, <1>10, <1>11, <1>12, PTL DEF Spec, Weak
<1>16. Spec /\ GuardFairness => (Rd("firstVideo") ~> Rd("firstAudio") \/ Over)
  BY <1>1, <1>2, <1>10, <1>11, <1>12, PTL DEF Spec, Weak
<1>17. Spec /\ GuardFairness => (Rd("firstAudio") ~> Rd("start") \/ Over)
  BY <1>1, <1>2, <1>10, <1>11, <1>12, PTL DEF Spec, Weak
<1>18. Spec /\ GuardFairness => (Rd("start") ~> Holds(s) \/ Over)
  BY <1>1, <1>2, <1>10, <1>11, <1>12, PTL DEF Spec, Weak
<1>19. Spec /\ GuardFairness => (Hd("idle") ~> Hd("firstVideo") \/ Enough \/ Over)
  BY <1>1, <1>3, <1>10, <1>11, <1>13, PTL DEF Spec, Weak
<1>20. Spec /\ GuardFairness => (Hd("firstVideo") ~> Hd("firstAudio") \/ Enough \/ Over)
  BY <1>1, <1>3, <1>10, <1>11, <1>13, PTL DEF Spec, Weak
<1>21. Spec /\ GuardFairness => (Hd("firstAudio") ~> Hd("start") \/ Enough \/ Over)
  BY <1>1, <1>3, <1>10, <1>11, <1>13, PTL DEF Spec, Weak
<1>22. Spec /\ GuardFairness => (Hd("start") ~> Hd("idle") \/ Enough \/ Over)
  BY <1>1, <1>3, <1>10, <1>11, <1>13, PTL DEF Spec, Weak
<1>23. Spec /\ GuardFairness => (Enough ~> Over)
  BY <1>1, <1>4, <1>7, <1>10, <1>11, <1>14, PTL DEF Spec, Weak
<1>24. Spec /\ GuardFairness => (Holds(s) ~> Hd(Place(s)) \/ Enough \/ Over)
  <2> DEFINE Gets(x) == Spec /\ GuardFairness => (Holds(s) ~> Hd(x) \/ Enough \/ Over)
  <2>1. Gets("firstVideo") /\ Gets("firstAudio")
    BY <1>1, <1>7, <1>19, <1>20, <1>21, <1>22, PTL
  <2>2. Gets("firstVideo")
    BY <2>1
  <2>3. Gets("firstAudio")
    BY <2>1
  <2> HIDE DEF Gets
  <2>4. Gets(Place(s))
    BY <1>9, <2>2, <2>3
  <2> QED
    BY <2>4 DEF Gets
<1>25. Holds(s) /\ Typed /\ [Next]_vars => (Holds(s) \/ Enough \/ Over)'
  BY HoldsSteps DEF Typed
<1>26. Spec /\ GuardFairness => (Holds(s) ~> Enough \/ Over)
  BY <1>1, <1>6, <1>8, <1>10, <1>24, <1>25, PTL DEF Spec, Strong
<1> QED
  BY <1>1, <1>7, <1>15, <1>16, <1>17, <1>18, <1>23, <1>26, PTL DEF PlaysOut

\* A buffer so full that the reader stops is played or cleared, also when the clock has to be
\* reset first and when packets go to the decoders before.  The assumption, that playing does
\* not wait for more than the reader collects, holds by default, and with setCacheParams for
\* every minimum but those between 10 s and 60 s, for which the theorem does not.
THEOREM FullPlays ==
  ASSUME CacheToPlayMax <= CachingTime
  PROVE  Spec /\ GuardFairness => FullBufferPlays
<1>1. TypeOK /\ ~NeedMoreData =>
        \/ Over
        \/ Ready("audio") \/ Holds("audio")
        \/ Ready("video") \/ Holds("video")
  <2> SUFFICES ASSUME TypeOK, ~NeedMoreData, ~Over
               PROVE  \/ Ready("audio") \/ Holds("audio")
                      \/ Ready("video") \/ Holds("video")
    OBVIOUS
  <2>1. PICK s \in Streams : Lens[s] >= 2
    BY FullList
  <2>2. Lens[s] \in Nat
    BY LensType
  <2>3. Ready(s) \/ Holds(s)
    BY <2>1, <2>2 DEF Ready, Holds
  <2> QED
    BY <2>3 DEF Streams
<1>2. "audio" \in Streams /\ "video" \in Streams
  BY DEF Streams
<1>3. Spec /\ GuardFairness => PlaysOut("audio")
  BY <1>2, StreamPlays
<1>4. Spec /\ GuardFairness => PlaysOut("video")
  BY <1>2, StreamPlays
<1>5. Over <=> (play = "Playing" \/ rd # "loop")
  BY DEF Over
<1> QED
  BY <1>1, <1>3, <1>4, <1>5, TypeCorrect, PTL DEF PlaysOut, FullBufferPlays
=============================================================================
