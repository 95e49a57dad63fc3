----------------------------- MODULE FifoQueue -----------------------------
(***************************************************************************)
(* What a byte buffer between one producer and one consumer promises: the  *)
(* consumer takes the bytes in the order in which they were put, each of   *)
(* them once, and no more than Capacity are stored.  Operations are atomic.*)
(***************************************************************************)
EXTENDS Naturals, Sequences

CONSTANTS Byte, Capacity

VARIABLES queue,   \* the bytes stored
          in,      \* what the last Put added
          out      \* what the last Take returned

Init == queue = <<>> /\ in = <<>> /\ out = <<>>

Put == /\ in' \in Seq(Byte)
       /\ Len(queue) + Len(in') \leq Capacity
       /\ queue' = queue \o in'
       /\ UNCHANGED out

Take == /\ \E n \in 0..Len(queue) :
              /\ out' = SubSeq(queue, 1, n)
              /\ queue' = SubSeq(queue, n + 1, Len(queue))
        /\ UNCHANGED in

Next == Put \/ Take

Spec == Init /\ [][Next]_<<queue, in, out>>
============================================================================
