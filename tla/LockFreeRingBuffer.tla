------------------------- MODULE LockFreeRingBuffer -------------------------
(***************************************************************************)
(* The ring buffer between the socket and the serialisation code of a TCP  *)
(* connection: yogi-core/src/base/LockFreeRingBuffer.hpp.  One thread      *)
(* produces and one consumes without a lock; they share the two indices    *)
(* and the bytes.  An operation loads the indices, moves bytes one at a    *)
(* time and then stores its own index; the other thread may run between    *)
(* any two of these steps.  The arrays handed to the socket are filled and *)
(* emptied by the operating system while both threads go on.               *)
(*                                                                         *)
(* Loads and stores of the indices are taken to be sequentially            *)
(* consistent.  Index arithmetic on std::size_t is written with integers:  *)
(* where the code goes below zero it adds MAX_SIZE right after.            *)
(***************************************************************************)
EXTENDS Integers, Sequences

CONSTANTS MAX_SIZE,   \* slots, one more than the capacity
          Byte,       \* the values of a char
          Inputs,     \* the byte strings a caller passes to write
          Sizes       \* the sizes a caller passes to read

ASSUME SizeAssumption   == MAX_SIZE \in Nat /\ MAX_SIZE \geq 2
ASSUME InputsAssumption == \A s \in Inputs : s \in Seq(Byte)
ASSUME SizesAssumption  == \A n \in Sizes : n \in Nat

VARIABLES m_writeIdx, m_readIdx, m_data,
          wpc,    \* what the producer is doing
          wmax,   \* the bytes it may write before it next loads m_readIdx
          wbuf,   \* the bytes it writes in this operation
          wdone,  \* how many of them are in m_data
          rpc,    \* what the consumer is doing
          rmax,   \* the bytes it may read before it next loads m_writeIdx
          rbuf,   \* the bytes it has copied in this operation
          in,     \* the bytes the producer's last operation has stored
          out,    \* the bytes the consumer's last operation has returned
          failed  \* an assertion of the code has failed

producer == <<wpc, wmax, wbuf, wdone>>
consumer == <<rpc, rmax, rbuf>>
vars == <<m_writeIdx, m_readIdx, m_data, producer, consumer, in, out, failed>>

----------------------------------------------------------------------------
read_available(writeIdx, readIdx) ==
    IF writeIdx \geq readIdx THEN writeIdx - readIdx
                             ELSE writeIdx + MAX_SIZE - readIdx

\* Mutant: no slot is kept free.
write_available_NoGap(writeIdx, readIdx) ==
    IF writeIdx \geq readIdx THEN readIdx - writeIdx + MAX_SIZE ELSE readIdx - writeIdx

write_available(writeIdx, readIdx) ==
    IF writeIdx \geq readIdx THEN readIdx - writeIdx - 1 + MAX_SIZE
                             ELSE readIdx - writeIdx - 1

\* The index n slots after idx, for n < MAX_SIZE: next_index, the two copies
\* of read and write on either side of the end of m_data, and the new index
\* they store (0 when they end exactly at the end).
Advance(idx, n) == IF idx + n \geq MAX_SIZE THEN idx + n - MAX_SIZE ELSE idx + n

next_index(idx) == Advance(idx, 1)

empty == m_writeIdx = m_readIdx

\* The sizes of the contiguous arrays for the socket.
first_read_size(writeIdx, readIdx) ==
    IF writeIdx < readIdx THEN MAX_SIZE - readIdx ELSE writeIdx - readIdx

\* Mutant: the last slot is handed out although the consumer is at slot 0.
first_write_size_NoGap(writeIdx, readIdx) ==
    IF writeIdx < readIdx THEN readIdx - writeIdx - 1 ELSE MAX_SIZE - writeIdx

first_write_size(writeIdx, readIdx) ==
    IF writeIdx < readIdx
      THEN readIdx - writeIdx - 1
      ELSE MAX_SIZE - writeIdx - (IF readIdx = 0 THEN 1 ELSE 0)

Smaller(m, n) == IF m \leq n THEN m ELSE n

----------------------------------------------------------------------------
Init ==
    /\ m_writeIdx = 0 /\ m_readIdx = 0
    /\ m_data \in [0..MAX_SIZE - 1 -> Byte]
    /\ wpc = "idle" /\ wmax = 0 /\ wbuf = <<>> /\ wdone = 0
    /\ rpc = "idle" /\ rmax = 0 /\ rbuf = <<>>
    /\ in = <<>> /\ out = <<>> /\ failed = FALSE

----------------------------------------------------------------------------
(* The producer.                                                           *)

\* write: load the indices and see how much of the input fits; with no room
\* at all the function returns.
WriteBegin(s) ==
    LET avail == write_available(m_writeIdx, m_readIdx)
        count == Smaller(Len(s), avail)
    IN  /\ wpc = "idle" /\ avail # 0
        /\ wpc' = "write" /\ wmax' = count /\ wdone' = 0
        /\ wbuf' = SubSeq(s, 1, count)
        /\ UNCHANGED <<m_writeIdx, m_readIdx, m_data, consumer, in, out, failed>>

WriteByte ==
    /\ wpc = "write" /\ wdone < Len(wbuf)
    /\ m_data' = [m_data EXCEPT ![Advance(m_writeIdx, wdone)] = wbuf[wdone + 1]]
    /\ wdone' = wdone + 1
    /\ UNCHANGED <<m_writeIdx, m_readIdx, wpc, wmax, wbuf, consumer, in, out, failed>>

StoreWriteIdx ==
    /\ m_writeIdx' = Advance(m_writeIdx, Len(wbuf))
    /\ in' = wbuf
    /\ wpc' = "idle" /\ wmax' = 0 /\ wbuf' = <<>> /\ wdone' = 0

WriteEnd ==
    /\ wpc = "write" /\ wdone = Len(wbuf)
    /\ StoreWriteIdx
    /\ UNCHANGED <<m_readIdx, m_data, consumer, out, failed>>

\* first_write_array: the socket is given the free slots up to the end.
FirstWriteArray ==
    /\ wpc = "idle"
    /\ wpc' = "array" /\ wmax' = first_write_size(m_writeIdx, m_readIdx)
    /\ UNCHANGED <<m_writeIdx, m_readIdx, m_data, wbuf, wdone, consumer, in, out, failed>>

\* The operating system stores a byte that has been received.
ArrayFill(b) ==
    /\ wpc = "array" /\ wdone < wmax
    /\ m_data' = [m_data EXCEPT ![m_writeIdx + wdone] = b]
    /\ wbuf' = Append(wbuf, b) /\ wdone' = wdone + 1
    /\ UNCHANGED <<m_writeIdx, m_readIdx, wpc, wmax, consumer, in, out, failed>>

CommitFirstWriteArray ==
    /\ wpc = "array"
    /\ failed' = (failed \/ wdone > first_write_size(m_writeIdx, m_readIdx))
    /\ StoreWriteIdx
    /\ UNCHANGED <<m_readIdx, m_data, consumer, out>>

----------------------------------------------------------------------------
(* The consumer.                                                           *)

\* read: load the indices; with nothing to read the function returns.
ReadBegin(n) ==
    LET avail == read_available(m_writeIdx, m_readIdx)
    IN  /\ rpc = "idle" /\ avail # 0
        /\ rpc' = "read" /\ rmax' = Smaller(n, avail)
        /\ UNCHANGED <<m_writeIdx, m_readIdx, m_data, producer, rbuf, in, out, failed>>

ReadByte ==
    /\ rpc = "read" /\ Len(rbuf) < rmax
    /\ rbuf' = Append(rbuf, m_data[Advance(m_readIdx, Len(rbuf))])
    /\ UNCHANGED <<m_writeIdx, m_readIdx, m_data, producer, rpc, rmax, in, out, failed>>

StoreReadIdx ==
    /\ m_readIdx' = Advance(m_readIdx, Len(rbuf))
    /\ out' = rbuf
    /\ rpc' = "idle" /\ rmax' = 0 /\ rbuf' = <<>>

ReadEnd ==
    /\ rpc = "read" /\ Len(rbuf) = rmax
    /\ StoreReadIdx
    /\ UNCHANGED <<m_writeIdx, m_data, producer, in, failed>>

\* Mutant: the caller does not look at empty.
Front_Unchecked ==
    /\ rpc = "idle"
    /\ rpc' = "pop" /\ rmax' = 1 /\ rbuf' = <<m_data[m_readIdx]>>
    /\ UNCHANGED <<m_writeIdx, m_readIdx, m_data, producer, in, out, failed>>

\* front, which its caller calls only after it has seen that empty is false.
Front ==
    /\ rpc = "idle" /\ ~empty
    /\ rpc' = "pop" /\ rmax' = 1 /\ rbuf' = <<m_data[m_readIdx]>>
    /\ UNCHANGED <<m_writeIdx, m_readIdx, m_data, producer, in, out, failed>>

Pop ==
    /\ rpc = "pop"
    /\ failed' = (failed \/ empty)
    /\ m_readIdx' = next_index(m_readIdx)
    /\ out' = rbuf
    /\ rpc' = "idle" /\ rmax' = 0 /\ rbuf' = <<>>
    /\ UNCHANGED <<m_writeIdx, m_data, producer, in>>

\* first_read_array: the socket is given the stored bytes up to the end.
FirstReadArray ==
    /\ rpc = "idle"
    /\ rpc' = "array" /\ rmax' = first_read_size(m_writeIdx, m_readIdx)
    /\ UNCHANGED <<m_writeIdx, m_readIdx, m_data, producer, rbuf, in, out, failed>>

\* The operating system sends a byte.
ArraySend ==
    /\ rpc = "array" /\ Len(rbuf) < rmax
    /\ rbuf' = Append(rbuf, m_data[m_readIdx + Len(rbuf)])
    /\ UNCHANGED <<m_writeIdx, m_readIdx, m_data, producer, rpc, rmax, in, out, failed>>

\* commit_first_read_array wraps only when it ends exactly at the end.
CommitFirstReadArray ==
    /\ rpc = "array"
    /\ failed' = (failed \/ Len(rbuf) > first_read_size(m_writeIdx, m_readIdx))
    /\ m_readIdx' = IF m_readIdx + Len(rbuf) = MAX_SIZE THEN 0
                                                       ELSE m_readIdx + Len(rbuf)
    /\ out' = rbuf
    /\ rpc' = "idle" /\ rmax' = 0 /\ rbuf' = <<>>
    /\ UNCHANGED <<m_writeIdx, m_data, producer, in>>

----------------------------------------------------------------------------
ProducerNext ==
    \/ \E s \in Inputs : WriteBegin(s)
    \/ WriteByte \/ WriteEnd \/ FirstWriteArray
    \/ \E b \in Byte : ArrayFill(b)
    \/ CommitFirstWriteArray

ConsumerNext ==
    \/ \E n \in Sizes : ReadBegin(n)
    \/ ReadByte \/ ReadEnd \/ Front \/ Pop
    \/ FirstReadArray \/ ArraySend \/ CommitFirstReadArray

Next == ProducerNext \/ ConsumerNext

Spec == Init /\ [][Next]_vars

----------------------------------------------------------------------------
(* Properties.                                                             *)

Index == 0..MAX_SIZE - 1

\* The values the variables can have.
TypeOK ==
    /\ m_writeIdx \in Index /\ m_readIdx \in Index
    /\ m_data \in [Index -> Byte]
    /\ wpc \in {"idle", "write", "array"} /\ wmax \in Nat
    /\ wbuf \in Seq(Byte) /\ wdone \in Nat
    /\ rpc \in {"idle", "read", "pop", "array"} /\ rmax \in Nat
    /\ rbuf \in Seq(Byte) /\ in \in Seq(Byte) /\ out \in Seq(Byte)
    /\ failed \in BOOLEAN

\* The assertions of pop and of the two commit functions hold although the
\* other thread has moved its index since the array was handed out.
AssertionsHold == ~failed

\* A slot the producer, or the socket for it, may write is never one that the
\* consumer, or the socket for it, may still read, nor one that holds a byte
\* not yet consumed.
SlotsDisjoint ==
    \A i \in 0..wmax - 1 :
        /\ i < MAX_SIZE
        /\ \A j \in 0..rmax - 1 :
               Advance(m_writeIdx, i) # Advance(m_readIdx, j)
        /\ \A j \in 0..read_available(m_writeIdx, m_readIdx) - 1 :
               Advance(m_writeIdx, i) # Advance(m_readIdx, j)

\* The bytes stored, oldest first.
Contents == [i \in 1..read_available(m_writeIdx, m_readIdx) |->
                m_data[Advance(m_readIdx, i - 1)]]

\* The buffer is a FIFO queue of capacity MAX_SIZE - 1: an operation takes
\* effect when it stores its index, and what the consumer is given is what was
\* written, in order, once.
Fifo == INSTANCE FifoQueue WITH queue <- Contents, Capacity <- MAX_SIZE - 1
IsFifo == Fifo!Spec
=============================================================================
