----------------------------- MODULE ByteQueue ------------------------------
(***************************************************************************)
(* What both buffers of the project promise: bytes come out in the order   *)
(* in which they went in, each once, and never more than Capacity wait.    *)
(* ServerBuffer and ClientBuffer keep an array and two positions in it.    *)
(***************************************************************************)
EXTENDS Naturals, Sequences

CONSTANTS Capacity, Bytes

VARIABLE queue

Init == queue = <<>>

Put(bytes) ==
    /\ Len(queue) + Len(bytes) <= Capacity
    /\ queue' = queue \o bytes

Take(n) ==
    /\ n \in 1..Len(queue)
    /\ queue' = SubSeq(queue, n + 1, Len(queue))

Next ==
    \/ \E n \in 1..Capacity : \E bytes \in [1..n -> Bytes] : Put(bytes)
    \/ \E n \in 1..Len(queue) : Take(n)

Spec == Init /\ [][Next]_queue
=============================================================================
