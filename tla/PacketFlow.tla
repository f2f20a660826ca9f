----------------------------- MODULE PacketFlow -----------------------------
(***************************************************************************)
(* What FFBuffer promises of one stream, however its four lists, its two   *)
(* threads and its clock work: packets come out in the order in which they *)
(* went in, each at most once, and only a clearing drops any.  Packets are *)
(* the numbers 1, 2, 3, ... in the order of their arrival.                 *)
(***************************************************************************)
EXTENDS Naturals, Sequences

VARIABLES
  sent,      \* packets that went in
  queue,     \* packets inside
  got,       \* the last packet that came out
  clearing   \* a clearing goes on

vars == <<sent, queue, got, clearing>>

Init == sent = 0 /\ queue = <<>> /\ got = 0 /\ clearing = FALSE

Put == /\ ~clearing
       /\ sent' = sent + 1 /\ queue' = Append(queue, sent + 1)
       /\ UNCHANGED <<got, clearing>>

Get == /\ queue # <<>>
       /\ got' = Head(queue) /\ queue' = Tail(queue)
       /\ UNCHANGED <<sent, clearing>>

Packets == {queue[i] : i \in 1..Len(queue)}

\* Some packets are dropped, the others keep their order, which is that of their numbers.
Drop == /\ clearing
        /\ queue' \in Seq(Packets)
        /\ \A i, j \in 1..Len(queue') : i < j => queue'[i] < queue'[j]
        /\ UNCHANGED <<sent, got, clearing>>

Clear == /\ clearing' = ~clearing
         /\ UNCHANGED <<sent, queue, got>>

Next == Put \/ Get \/ Drop \/ Clear

Spec == Init /\ [][Next]_vars
=============================================================================
