--------------------- MODULE LockFreeRingBuffer_proofs ---------------------
(***************************************************************************)
(* The ring buffer is correct for every number of slots, every alphabet    *)
(* and every sequence of calls: the type invariant, the assertions of the  *)
(* code, the disjointness of what the two threads touch, and the           *)
(* refinement of FifoQueue.                                                *)
(***************************************************************************)
EXTENDS LockFreeRingBuffer, TLAPS

ReadAvail  == read_available(m_writeIdx, m_readIdx)
WriteAvail == write_available(m_writeIdx, m_readIdx)

\* The bytes an operation has stored are behind the write index, and what it
\* may still write fits between the indices although the consumer has moved.
ProducerInv ==
    /\ wmax \leq WriteAvail
    /\ wpc = "idle"  => wmax = 0 /\ wbuf = <<>> /\ wdone = 0
    /\ wpc = "write" => Len(wbuf) = wmax /\ wdone \leq wmax
    /\ wpc = "array" => /\ Len(wbuf) = wdone /\ wdone \leq wmax
                        /\ wmax \leq first_write_size(m_writeIdx, m_readIdx)
    /\ \A i \in 1..wdone : m_data[Advance(m_writeIdx, i - 1)] = wbuf[i]

\* The bytes an operation has copied are still the oldest in the buffer, and
\* what it may still copy has been published by the producer.
ConsumerInv ==
    /\ rmax \leq ReadAvail /\ Len(rbuf) \leq rmax
    /\ rpc = "idle"  => rmax = 0 /\ rbuf = <<>>
    /\ rpc = "pop"   => rmax = 1 /\ Len(rbuf) = 1
    /\ rpc = "array" => rmax \leq first_read_size(m_writeIdx, m_readIdx)
    /\ \A i \in 1..Len(rbuf) : rbuf[i] = m_data[Advance(m_readIdx, i - 1)]

IInv == TypeOK /\ AssertionsHold /\ ProducerInv /\ ConsumerInv
----------------------------------------------------------------------------
(* Index arithmetic.                                                       *)

\* The slots are divided between the two threads, one is always left over.
LEMMA Available ==
  ASSUME NEW w \in Index, NEW r \in Index
  PROVE  /\ read_available(w, r) \in Nat
         /\ write_available(w, r) \in Nat
         /\ read_available(w, r) + write_available(w, r) = MAX_SIZE - 1
         /\ first_write_size(w, r) \in Nat
         /\ first_write_size(w, r) \leq write_available(w, r)
         /\ w + first_write_size(w, r) \leq MAX_SIZE
         /\ first_read_size(w, r) \in Nat
         /\ first_read_size(w, r) \leq read_available(w, r)
         /\ r + first_read_size(w, r) \leq MAX_SIZE
  BY SizeAssumption DEF Index, read_available, write_available,
       first_write_size, first_read_size

LEMMA AvailableBounded ==
  ASSUME NEW w \in Index, NEW r \in Index
  PROVE  /\ read_available(w, r) < MAX_SIZE /\ write_available(w, r) < MAX_SIZE
         /\ first_write_size(w, r) < MAX_SIZE /\ first_read_size(w, r) < MAX_SIZE
  BY SizeAssumption DEF Index, read_available, write_available,
       first_write_size, first_read_size

LEMMA AdvanceIndex ==
  ASSUME NEW idx \in Index, NEW n \in Nat, n < MAX_SIZE
  PROVE  /\ Advance(idx, n) \in Index
         /\ idx + n < MAX_SIZE => Advance(idx, n) = idx + n
         /\ idx + n = MAX_SIZE => Advance(idx, n) = 0
  BY SizeAssumption DEF Index, Advance

\* Different distances lead to different slots.
LEMMA AdvanceInjective ==
  ASSUME NEW idx \in Index, NEW m \in Nat, NEW n \in Nat,
         m < MAX_SIZE, n < MAX_SIZE, m # n
  PROVE  Advance(idx, m) # Advance(idx, n)
  BY SizeAssumption DEF Index, Advance

LEMMA AdvanceTwice ==
  ASSUME NEW idx \in Index, NEW m \in Nat, NEW n \in Nat, m + n < MAX_SIZE
  PROVE  Advance(Advance(idx, m), n) = Advance(idx, m + n)
  BY SizeAssumption DEF Index, Advance

\* The first free slot is the one behind the stored bytes.
LEMMA FreeBehindStored ==
  ASSUME NEW w \in Index, NEW r \in Index
  PROVE  Advance(r, read_available(w, r)) = w
  BY SizeAssumption DEF Index, Advance, read_available

\* The producer moves on: stored bytes grow, free slots shrink, and an array
\* that the socket is reading from stays readable.
LEMMA ProducerMoves ==
  ASSUME NEW w \in Index, NEW r \in Index, NEW n \in Nat,
         n \leq write_available(w, r)
  PROVE  /\ read_available(Advance(w, n), r) = read_available(w, r) + n
         /\ write_available(Advance(w, n), r) = write_available(w, r) - n
         /\ first_read_size(w, r) \leq first_read_size(Advance(w, n), r)
  BY SizeAssumption DEF Index, Advance, read_available, write_available, first_read_size

\* The consumer moves on, in the same way.
LEMMA ConsumerMoves ==
  ASSUME NEW w \in Index, NEW r \in Index, NEW n \in Nat,
         n \leq read_available(w, r)
  PROVE  /\ read_available(w, Advance(r, n)) = read_available(w, r) - n
         /\ write_available(w, Advance(r, n)) = write_available(w, r) + n
         /\ first_write_size(w, r) \leq first_write_size(w, Advance(r, n))
  BY SizeAssumption DEF Index, Advance, read_available, write_available, first_write_size

\* A free slot is not a stored one.
LEMMA FreeNotStored ==
  ASSUME NEW w \in Index, NEW r \in Index, NEW i \in Nat, NEW j \in Nat,
         i < write_available(w, r), j < read_available(w, r)
  PROVE  Advance(w, i) # Advance(r, j)
  BY SizeAssumption DEF Index, Advance, read_available, write_available
----------------------------------------------------------------------------
(* The inductive invariant.                                                *)

LEMMA InitIInv == Init => IInv
  <1> SUFFICES ASSUME Init PROVE IInv
    OBVIOUS
  <1>1. TypeOK
    <2>1. 0 \in Index /\ m_data \in [Index -> Byte]
      BY SizeAssumption DEF Init, Index
    <2>2. <<>> \in Seq(Byte)
      OBVIOUS
    <2>3. failed \in BOOLEAN
      BY DEF Init
    <2> QED
      BY <2>1, <2>2, <2>3 DEF Init, TypeOK
  <1>2. ReadAvail = 0 /\ WriteAvail = MAX_SIZE - 1
    BY SizeAssumption DEF Init, ReadAvail, WriteAvail, read_available, write_available
  <1> QED
    BY <1>1, <1>2, SizeAssumption DEF Init, IInv, ProducerInv, ConsumerInv, AssertionsHold

\* Storing a byte in a free slot leaves every stored byte alone, and so the
\* bytes the consumer has copied.
LEMMA StoreKeepsStored ==
  ASSUME IInv, NEW i \in Nat, i < wmax, NEW b \in Byte,
         m_data' = [m_data EXCEPT ![Advance(m_writeIdx, i)] = b]
  PROVE  /\ m_data' \in [Index -> Byte]
         /\ m_data'[Advance(m_writeIdx, i)] = b
         /\ \A j \in Nat : j < ReadAvail =>
               m_data'[Advance(m_readIdx, j)] = m_data[Advance(m_readIdx, j)]
         /\ \A j \in Nat : j < i =>
               m_data'[Advance(m_writeIdx, j)] = m_data[Advance(m_writeIdx, j)]
  <1>0. /\ m_writeIdx \in Index /\ m_readIdx \in Index
        /\ m_data \in [Index -> Byte] /\ wmax \in Nat /\ wmax \leq WriteAvail
    BY DEF IInv, TypeOK, ProducerInv
  <1>1. ReadAvail \in Nat /\ WriteAvail \in Nat /\ ReadAvail + WriteAvail = MAX_SIZE - 1
    BY <1>0, Available DEF ReadAvail, WriteAvail
  <1>2. i < WriteAvail /\ i < MAX_SIZE
    BY <1>0, <1>1, SizeAssumption
  <1>3. Advance(m_writeIdx, i) \in Index
    BY <1>0, <1>2, AdvanceIndex
  <1>4. ASSUME NEW j \in Nat, j < ReadAvail
        PROVE  m_data'[Advance(m_readIdx, j)] = m_data[Advance(m_readIdx, j)]
    <2>1. Advance(m_readIdx, j) \in Index
      BY <1>0, <1>1, <1>4, AdvanceIndex, SizeAssumption
    <2>2. Advance(m_writeIdx, i) # Advance(m_readIdx, j)
      BY <1>0, <1>2, <1>4, FreeNotStored DEF ReadAvail, WriteAvail
    <2> QED
      BY <1>0, <2>1, <2>2
  <1>5. ASSUME NEW j \in Nat, j < i
        PROVE  m_data'[Advance(m_writeIdx, j)] = m_data[Advance(m_writeIdx, j)]
    <2>1. Advance(m_writeIdx, j) \in Index
      BY <1>0, <1>2, <1>5, AdvanceIndex, SizeAssumption
    <2>2. Advance(m_writeIdx, i) # Advance(m_writeIdx, j)
      BY <1>0, <1>2, <1>5, AdvanceInjective, SizeAssumption
    <2> QED
      BY <1>0, <2>1, <2>2
  <1> QED
    BY <1>0, <1>3, <1>4, <1>5

\* The consumer's part of the invariant speaks of stored bytes only.
LEMMA ConsumerKept ==
  ASSUME IInv, UNCHANGED <<m_writeIdx, m_readIdx, consumer>>,
         \A j \in Nat : j < ReadAvail =>
             m_data'[Advance(m_readIdx, j)] = m_data[Advance(m_readIdx, j)]
  PROVE  ConsumerInv'
  <1>1. /\ ConsumerInv /\ rbuf \in Seq(Byte) /\ rmax \in Nat
        /\ m_writeIdx \in Index /\ m_readIdx \in Index
    BY DEF IInv, TypeOK
  <1>2. ReadAvail \in Nat
    BY <1>1, Available DEF ReadAvail
  <1>3. ASSUME NEW i \in 1..Len(rbuf)
        PROVE  rbuf[i] = m_data'[Advance(m_readIdx, i - 1)]
    <2>1. i - 1 \in Nat /\ i - 1 < ReadAvail
      BY <1>1, <1>2 DEF ConsumerInv
    <2> QED
      BY <1>1, <2>1 DEF ConsumerInv
  <1> QED
    BY <1>1, <1>3 DEF ConsumerInv, consumer, ReadAvail

LEMMA WriteBeginIInv == ASSUME IInv, NEW s \in Inputs, WriteBegin(s) PROVE IInv'
  <1>0. /\ s \in Seq(Byte) /\ m_writeIdx \in Index /\ m_readIdx \in Index
        /\ WriteAvail \in Nat
    BY InputsAssumption, Available DEF IInv, TypeOK, WriteAvail
  <1> DEFINE count == Smaller(Len(s), WriteAvail)
  <1>1. count \in Nat /\ count \leq WriteAvail /\ count \leq Len(s)
    BY <1>0 DEF Smaller
  <1>2. wmax' = count /\ wbuf' = SubSeq(s, 1, count) /\ wpc' = "write" /\ wdone' = 0
    BY DEF WriteBegin, WriteAvail
  <1>3. wbuf' \in Seq(Byte) /\ Len(wbuf') = count
    BY <1>0, <1>1, <1>2
  <1>4. UNCHANGED <<m_writeIdx, m_readIdx, m_data, consumer, in, out, failed>>
    BY DEF WriteBegin
  <1>5. TypeOK'
    BY <1>1, <1>2, <1>3, <1>4 DEF IInv, TypeOK, consumer
  <1>6. ProducerInv'
    BY <1>1, <1>2, <1>3, <1>4 DEF ProducerInv, WriteAvail
  <1>7. ConsumerInv'
    BY <1>4, ConsumerKept
  <1> QED
    BY <1>4, <1>5, <1>6, <1>7 DEF IInv, AssertionsHold

LEMMA WriteByteIInv == ASSUME IInv, WriteByte PROVE IInv'
  <1>0. /\ wbuf \in Seq(Byte) /\ wdone \in Nat /\ wmax \in Nat
        /\ wpc = "write" /\ Len(wbuf) = wmax /\ wdone < wmax
        /\ wbuf[wdone + 1] \in Byte
    BY DEF IInv, TypeOK, ProducerInv, WriteByte
  <1>1. /\ m_data' = [m_data EXCEPT ![Advance(m_writeIdx, wdone)] = wbuf[wdone + 1]]
        /\ wdone' = wdone + 1
        /\ UNCHANGED <<m_writeIdx, m_readIdx, wpc, wmax, wbuf, consumer, in, out, failed>>
    BY DEF WriteByte
  <1>2. /\ m_data' \in [Index -> Byte]
        /\ m_data'[Advance(m_writeIdx, wdone)] = wbuf[wdone + 1]
        /\ \A j \in Nat : j < ReadAvail =>
              m_data'[Advance(m_readIdx, j)] = m_data[Advance(m_readIdx, j)]
        /\ \A j \in Nat : j < wdone =>
              m_data'[Advance(m_writeIdx, j)] = m_data[Advance(m_writeIdx, j)]
    BY <1>0, <1>1, StoreKeepsStored
  <1>3. TypeOK'
    BY <1>0, <1>1, <1>2 DEF IInv, TypeOK, consumer
  <1>4. ASSUME NEW i \in 1..wdone'
        PROVE  m_data'[Advance(m_writeIdx, i - 1)] = wbuf[i]
    <2>1. CASE i = wdone + 1
      BY <1>0, <1>2, <2>1
    <2>2. CASE i # wdone + 1
      <3>1. i \in 1..wdone /\ i - 1 \in Nat /\ i - 1 < wdone
        BY <1>0, <1>1, <2>2
      <3> QED
        BY <1>2, <3>1 DEF IInv, ProducerInv
    <2> QED
      BY <2>1, <2>2
  <1>5. ProducerInv'
    BY <1>0, <1>1, <1>4 DEF IInv, ProducerInv, WriteAvail
  <1>6. ConsumerInv'
    BY <1>1, <1>2, ConsumerKept
  <1> QED
    BY <1>1, <1>3, <1>5, <1>6 DEF IInv, AssertionsHold

\* The producer stores its index and is idle again; what it has written
\* becomes readable.
LEMMA StoreWriteIdxIInv ==
  ASSUME IInv, StoreWriteIdx, wpc # "idle", UNCHANGED <<m_readIdx, m_data, consumer, out>>,
         failed' = FALSE
  PROVE  IInv'
  <1>0. /\ m_writeIdx \in Index /\ m_readIdx \in Index
        /\ wbuf \in Seq(Byte) /\ wmax \in Nat /\ Len(wbuf) \leq wmax /\ wmax \leq WriteAvail
        /\ WriteAvail \in Nat /\ ReadAvail \in Nat /\ WriteAvail < MAX_SIZE
    <2>1. /\ m_writeIdx \in Index /\ m_readIdx \in Index
          /\ wbuf \in Seq(Byte) /\ wmax \in Nat /\ wmax \leq WriteAvail
          /\ wpc \in {"write", "array"} /\ wdone \in Nat
      BY DEF IInv, TypeOK, ProducerInv
    <2>2. Len(wbuf) \leq wmax
      BY <2>1 DEF IInv, ProducerInv
    <2>3. /\ ReadAvail \in Nat /\ WriteAvail \in Nat
          /\ ReadAvail + WriteAvail = MAX_SIZE - 1
      BY <2>1, Available DEF ReadAvail, WriteAvail
    <2> QED
      BY <2>1, <2>2, <2>3, SizeAssumption
  <1>1. /\ m_writeIdx' = Advance(m_writeIdx, Len(wbuf)) /\ m_readIdx' = m_readIdx
        /\ wpc' = "idle" /\ wmax' = 0 /\ wbuf' = <<>> /\ wdone' = 0 /\ in' = wbuf
    BY DEF StoreWriteIdx
  <1>2. /\ m_writeIdx' \in Index
        /\ ReadAvail' = ReadAvail + Len(wbuf)
        /\ WriteAvail' = WriteAvail - Len(wbuf)
        /\ first_read_size(m_writeIdx, m_readIdx) \leq first_read_size(m_writeIdx', m_readIdx')
    <2>1. /\ Len(wbuf) \in Nat /\ Len(wbuf) < MAX_SIZE
          /\ Len(wbuf) \leq write_available(m_writeIdx, m_readIdx)
      BY <1>0, SizeAssumption DEF WriteAvail
    <2>2. m_writeIdx' \in Index
      BY <1>0, <1>1, <2>1, AdvanceIndex
    <2> QED
      BY <1>0, <1>1, <2>1, <2>2, ProducerMoves DEF ReadAvail, WriteAvail
  <1>3. TypeOK'
    <2>1. <<>> \in Seq(Byte)
      OBVIOUS
    <2>2. failed' \in BOOLEAN
      OBVIOUS
    <2> QED
      BY <1>0, <1>1, <1>2, <2>1, <2>2 DEF IInv, TypeOK, consumer
  <1>4. ProducerInv'
    BY <1>0, <1>1, <1>2 DEF ProducerInv
  <1>5. ConsumerInv'
    <2>1. /\ rmax \in Nat /\ rmax \leq ReadAvail'
      BY <1>0, <1>2 DEF IInv, TypeOK, ConsumerInv
    <2>2. rpc = "array" => rmax \leq first_read_size(m_writeIdx', m_readIdx')
      <3>1. first_read_size(m_writeIdx, m_readIdx) \in Nat
              /\ first_read_size(m_writeIdx', m_readIdx') \in Nat
        BY <1>0, <1>1, <1>2, Available
      <3> QED
        BY <1>2, <2>1, <3>1 DEF IInv, ConsumerInv
    <2> QED
      BY <1>1, <2>1, <2>2 DEF IInv, ConsumerInv, consumer
  <1> QED
    BY <1>3, <1>4, <1>5 DEF IInv, AssertionsHold

LEMMA WriteEndIInv == ASSUME IInv, WriteEnd PROVE IInv'
  <1>1. failed' = FALSE
    BY DEF WriteEnd, IInv, TypeOK, AssertionsHold
  <1> QED
    BY <1>1, StoreWriteIdxIInv DEF WriteEnd

LEMMA FirstWriteArrayIInv == ASSUME IInv, FirstWriteArray PROVE IInv'
  <1>0. m_writeIdx \in Index /\ m_readIdx \in Index
    BY DEF IInv, TypeOK
  <1> DEFINE size == first_write_size(m_writeIdx, m_readIdx)
  <1>1. size \in Nat /\ size \leq WriteAvail
    BY <1>0, Available DEF WriteAvail
  <1>2. /\ wpc' = "array" /\ wmax' = size /\ wbuf = <<>> /\ wdone = 0
        /\ UNCHANGED <<m_writeIdx, m_readIdx, m_data, wbuf, wdone, consumer, in, out, failed>>
    BY DEF FirstWriteArray, IInv, ProducerInv
  <1>3. TypeOK'
    BY <1>1, <1>2 DEF IInv, TypeOK, consumer
  <1>4. ProducerInv'
    BY <1>1, <1>2 DEF ProducerInv, WriteAvail
  <1>5. ConsumerInv'
    BY <1>2, ConsumerKept
  <1> QED
    BY <1>2, <1>3, <1>4, <1>5 DEF IInv, AssertionsHold

LEMMA ArrayFillIInv == ASSUME IInv, NEW b \in Byte, ArrayFill(b) PROVE IInv'
  <1>0. /\ m_writeIdx \in Index /\ m_readIdx \in Index
        /\ wbuf \in Seq(Byte) /\ wdone \in Nat /\ wmax \in Nat
        /\ wpc = "array" /\ Len(wbuf) = wdone /\ wdone < wmax
        /\ wmax \leq first_write_size(m_writeIdx, m_readIdx)
    BY DEF IInv, TypeOK, ProducerInv, ArrayFill
  <1>1. Advance(m_writeIdx, wdone) = m_writeIdx + wdone
    <2> DEFINE size == first_write_size(m_writeIdx, m_readIdx)
    <2>0. size \in Nat /\ m_writeIdx + size \leq MAX_SIZE /\ m_writeIdx \in Nat
      BY <1>0, Available, SizeAssumption DEF Index
    <2>1. m_writeIdx + wdone < MAX_SIZE /\ wdone < MAX_SIZE
      <3> HIDE DEF size
      <3>1. wmax \leq size
        BY <1>0 DEF size
      <3> QED
        BY <1>0, <2>0, <3>1, SizeAssumption
    <2> QED
      BY <1>0, <2>1, AdvanceIndex
  <1>2. /\ m_data' = [m_data EXCEPT ![Advance(m_writeIdx, wdone)] = b]
        /\ wbuf' = Append(wbuf, b) /\ wdone' = wdone + 1
        /\ UNCHANGED <<m_writeIdx, m_readIdx, wpc, wmax, consumer, in, out, failed>>
    BY <1>1 DEF ArrayFill
  <1>3. /\ wbuf' \in Seq(Byte) /\ Len(wbuf') = wdone + 1 /\ wbuf'[wdone + 1] = b
        /\ \A i \in 1..wdone : wbuf'[i] = wbuf[i]
    BY <1>0, <1>2
  <1>4. /\ m_data' \in [Index -> Byte]
        /\ m_data'[Advance(m_writeIdx, wdone)] = b
        /\ \A j \in Nat : j < ReadAvail =>
              m_data'[Advance(m_readIdx, j)] = m_data[Advance(m_readIdx, j)]
        /\ \A j \in Nat : j < wdone =>
              m_data'[Advance(m_writeIdx, j)] = m_data[Advance(m_writeIdx, j)]
    BY <1>0, <1>2, StoreKeepsStored
  <1>5. TypeOK'
    BY <1>0, <1>2, <1>3, <1>4 DEF IInv, TypeOK, consumer
  <1>6. ASSUME NEW i \in 1..wdone'
        PROVE  m_data'[Advance(m_writeIdx, i - 1)] = wbuf'[i]
    <2>1. CASE i = wdone + 1
      BY <1>0, <1>3, <1>4, <2>1
    <2>2. CASE i # wdone + 1
      <3>1. i \in 1..wdone /\ i - 1 \in Nat /\ i - 1 < wdone
        BY <1>0, <1>2, <2>2
      <3> QED
        BY <1>3, <1>4, <3>1 DEF IInv, ProducerInv
    <2> QED
      BY <2>1, <2>2
  <1>7. ProducerInv'
    BY <1>0, <1>2, <1>3, <1>6 DEF IInv, ProducerInv, WriteAvail
  <1>8. ConsumerInv'
    BY <1>2, <1>4, ConsumerKept
  <1> QED
    BY <1>2, <1>5, <1>7, <1>8 DEF IInv, AssertionsHold

LEMMA CommitFirstWriteArrayIInv == ASSUME IInv, CommitFirstWriteArray PROVE IInv'
  <1>1. wdone \leq first_write_size(m_writeIdx, m_readIdx)
    <2>1. first_write_size(m_writeIdx, m_readIdx) \in Nat
      BY Available DEF IInv, TypeOK
    <2> QED
      BY <2>1 DEF IInv, TypeOK, ProducerInv, CommitFirstWriteArray
  <1>2. failed' = FALSE
    <2>1. ~(wdone > first_write_size(m_writeIdx, m_readIdx))
      <3>1. first_write_size(m_writeIdx, m_readIdx) \in Nat /\ wdone \in Nat
        BY Available DEF IInv, TypeOK
      <3> QED
        BY <1>1, <3>1
    <2> QED
      BY <2>1 DEF CommitFirstWriteArray, IInv, AssertionsHold
  <1> QED
    BY <1>2, StoreWriteIdxIInv DEF CommitFirstWriteArray

\* The consumer stores its index and is idle again; the slots it has read
\* become free.
LEMMA StoreReadIdxIInv ==
  ASSUME IInv, m_readIdx' = Advance(m_readIdx, Len(rbuf)),
         out' = rbuf, rpc' = "idle", rmax' = 0, rbuf' = <<>>,
         UNCHANGED <<m_writeIdx, m_data, producer, in>>, failed' = FALSE
  PROVE  IInv'
  <1>0. /\ m_writeIdx \in Index /\ m_readIdx \in Index
        /\ rbuf \in Seq(Byte) /\ rmax \in Nat /\ Len(rbuf) \leq rmax /\ rmax \leq ReadAvail
        /\ wmax \in Nat /\ wmax \leq WriteAvail
    BY DEF IInv, TypeOK, ProducerInv, ConsumerInv
  <1>1. /\ WriteAvail \in Nat /\ ReadAvail \in Nat
        /\ ReadAvail + WriteAvail = MAX_SIZE - 1
    BY <1>0, Available DEF ReadAvail, WriteAvail
  <1>2. /\ Len(rbuf) \in Nat /\ Len(rbuf) < MAX_SIZE
        /\ Len(rbuf) \leq read_available(m_writeIdx, m_readIdx)
    BY <1>0, <1>1, SizeAssumption DEF ReadAvail
  <1>3. m_readIdx' \in Index
    BY <1>0, <1>2, AdvanceIndex
  <1>4. /\ ReadAvail' = ReadAvail - Len(rbuf)
        /\ WriteAvail' = WriteAvail + Len(rbuf)
        /\ first_write_size(m_writeIdx, m_readIdx) \leq first_write_size(m_writeIdx', m_readIdx')
    BY <1>0, <1>2, ConsumerMoves DEF ReadAvail, WriteAvail
  <1>5. TypeOK'
    <2>1. <<>> \in Seq(Byte)
      OBVIOUS
    <2>2. failed' \in BOOLEAN
      OBVIOUS
    <2> QED
      BY <1>0, <1>3, <2>1, <2>2 DEF IInv, TypeOK, producer
  <1>6. ProducerInv'
    <2>1. wmax \leq WriteAvail'
      BY <1>0, <1>1, <1>2, <1>4
    <2>2. wpc = "array" => wmax \leq first_write_size(m_writeIdx', m_readIdx')
      <3>1. first_write_size(m_writeIdx, m_readIdx) \in Nat
              /\ first_write_size(m_writeIdx', m_readIdx') \in Nat
        BY <1>0, <1>3, Available
      <3> QED
        BY <1>0, <1>4, <3>1 DEF IInv, ProducerInv
    <2> QED
      BY <2>1, <2>2 DEF IInv, ProducerInv, producer
  <1>7. ConsumerInv'
    BY <1>0, <1>1, <1>2, <1>4 DEF ConsumerInv
  <1> QED
    BY <1>5, <1>6, <1>7 DEF IInv, AssertionsHold

\* The producer's part of the invariant does not depend on the consumer's
\* progress within an operation.
LEMMA ProducerKept ==
  ASSUME IInv, UNCHANGED <<m_writeIdx, m_readIdx, m_data, producer>>
  PROVE  ProducerInv'
  BY DEF IInv, ProducerInv, producer, WriteAvail

LEMMA ReadBeginIInv == ASSUME IInv, NEW n \in Sizes, ReadBegin(n) PROVE IInv'
  <1>0. /\ n \in Nat /\ m_writeIdx \in Index /\ m_readIdx \in Index /\ ReadAvail \in Nat
    BY SizesAssumption, Available DEF IInv, TypeOK, ReadAvail
  <1>1. /\ rpc' = "read" /\ rmax' = Smaller(n, ReadAvail) /\ rbuf' = <<>>
        /\ UNCHANGED <<m_writeIdx, m_readIdx, m_data, producer, rbuf, in, out, failed>>
    BY DEF ReadBegin, ReadAvail, IInv, ConsumerInv
  <1>2. rmax' \in Nat /\ rmax' \leq ReadAvail
    BY <1>0, <1>1 DEF Smaller
  <1>3. TypeOK'
    BY <1>1, <1>2 DEF IInv, TypeOK, producer
  <1>4. ConsumerInv'
    BY <1>1, <1>2 DEF ConsumerInv, ReadAvail
  <1>5. ProducerInv'
    BY <1>1, ProducerKept
  <1> QED
    BY <1>1, <1>3, <1>4, <1>5 DEF IInv, AssertionsHold

\* One more byte is copied from the slot behind the ones copied before.
LEMMA CopyIInv ==
  ASSUME IInv, rpc \in {"read", "array"}, Len(rbuf) < rmax,
         rbuf' = Append(rbuf, m_data[Advance(m_readIdx, Len(rbuf))]),
         UNCHANGED <<m_writeIdx, m_readIdx, m_data, producer, rpc, rmax, in, out, failed>>
  PROVE  IInv'
  <1>0. /\ m_writeIdx \in Index /\ m_readIdx \in Index /\ m_data \in [Index -> Byte]
        /\ rbuf \in Seq(Byte) /\ rmax \in Nat /\ rmax \leq ReadAvail
    BY DEF IInv, TypeOK, ConsumerInv
  <1>1. Len(rbuf) \in Nat /\ Len(rbuf) < MAX_SIZE
    <2>1. Len(rbuf) \in Nat /\ ReadAvail \in Nat /\ ReadAvail < MAX_SIZE
      BY <1>0, Available, AvailableBounded DEF ReadAvail
    <2> QED
      BY <1>0, <2>1, SizeAssumption
  <1>2. m_data[Advance(m_readIdx, Len(rbuf))] \in Byte
    BY <1>0, <1>1, AdvanceIndex
  <1>3. /\ rbuf' \in Seq(Byte) /\ Len(rbuf') = Len(rbuf) + 1
        /\ rbuf'[Len(rbuf) + 1] = m_data[Advance(m_readIdx, Len(rbuf))]
        /\ \A i \in 1..Len(rbuf) : rbuf'[i] = rbuf[i]
    BY <1>0, <1>2
  <1>4. TypeOK'
    BY <1>3 DEF IInv, TypeOK, producer
  <1>5. ASSUME NEW i \in 1..Len(rbuf')
        PROVE  rbuf'[i] = m_data[Advance(m_readIdx, i - 1)]
    <2>1. CASE i = Len(rbuf) + 1
      BY <1>1, <1>3, <2>1
    <2>2. CASE i # Len(rbuf) + 1
      <3>1. i \in 1..Len(rbuf)
        BY <1>1, <1>3, <2>2
      <3> QED
        BY <1>3, <3>1 DEF IInv, ConsumerInv
    <2> QED
      BY <2>1, <2>2
  <1>6. ConsumerInv'
    BY <1>0, <1>1, <1>3, <1>5 DEF IInv, ConsumerInv, ReadAvail
  <1>7. ProducerInv'
    BY ProducerKept
  <1> QED
    BY <1>4, <1>6, <1>7 DEF IInv, AssertionsHold

LEMMA ReadByteIInv == ASSUME IInv, ReadByte PROVE IInv'
  BY CopyIInv DEF ReadByte

LEMMA ReadEndIInv == ASSUME IInv, ReadEnd PROVE IInv'
  <1>1. failed' = FALSE
    BY DEF ReadEnd, IInv, TypeOK, AssertionsHold
  <1> QED
    BY <1>1, StoreReadIdxIInv DEF ReadEnd, StoreReadIdx

LEMMA FrontIInv == ASSUME IInv, Front PROVE IInv'
  <1>0. /\ m_writeIdx \in Index /\ m_readIdx \in Index /\ m_data \in [Index -> Byte]
        /\ m_writeIdx # m_readIdx
    BY DEF IInv, TypeOK, Front, empty
  <1>1. ReadAvail \in Nat /\ 1 \leq ReadAvail /\ Advance(m_readIdx, 0) = m_readIdx
    BY <1>0, SizeAssumption DEF ReadAvail, read_available, Index, Advance
  <1>2. /\ rpc' = "pop" /\ rmax' = 1 /\ rbuf' = <<m_data[m_readIdx]>>
        /\ UNCHANGED <<m_writeIdx, m_readIdx, m_data, producer, in, out, failed>>
    BY DEF Front
  <1>3. rbuf' \in Seq(Byte) /\ Len(rbuf') = 1 /\ rbuf'[1] = m_data[m_readIdx]
    BY <1>0, <1>2
  <1>4. TypeOK'
    BY <1>2, <1>3 DEF IInv, TypeOK, producer
  <1>5. \A i \in 1..Len(rbuf') : rbuf'[i] = m_data[Advance(m_readIdx, i - 1)]
    <2> SUFFICES ASSUME NEW i \in 1..1 PROVE rbuf'[i] = m_data[Advance(m_readIdx, i - 1)]
      BY <1>3
    <2>1. i = 1 /\ i - 1 = 0
      OBVIOUS
    <2> QED
      BY <1>1, <1>3, <2>1
  <1>6. ConsumerInv'
    BY <1>1, <1>2, <1>3, <1>5 DEF ConsumerInv, ReadAvail
  <1>7. ProducerInv'
    BY <1>2, ProducerKept
  <1> QED
    BY <1>2, <1>4, <1>6, <1>7 DEF IInv, AssertionsHold

LEMMA PopIInv == ASSUME IInv, Pop PROVE IInv'
  <1>0. /\ m_writeIdx \in Index /\ m_readIdx \in Index
        /\ Len(rbuf) = 1 /\ 1 \leq ReadAvail
    BY DEF IInv, TypeOK, ConsumerInv, Pop
  <1>1. ~empty
    BY <1>0, SizeAssumption DEF empty, ReadAvail, read_available, Index
  <1>2. failed' = FALSE
    BY <1>1 DEF Pop, IInv, TypeOK, AssertionsHold
  <1> QED
    BY <1>0, <1>2, StoreReadIdxIInv DEF Pop, next_index

LEMMA FirstReadArrayIInv == ASSUME IInv, FirstReadArray PROVE IInv'
  <1>0. m_writeIdx \in Index /\ m_readIdx \in Index
    BY DEF IInv, TypeOK
  <1> DEFINE size == first_read_size(m_writeIdx, m_readIdx)
  <1>1. size \in Nat /\ size \leq ReadAvail
    BY <1>0, Available DEF ReadAvail
  <1>2. /\ rpc' = "array" /\ rmax' = size /\ rbuf = <<>>
        /\ UNCHANGED <<m_writeIdx, m_readIdx, m_data, producer, rbuf, in, out, failed>>
    BY DEF FirstReadArray, IInv, ConsumerInv
  <1>3. TypeOK'
    BY <1>1, <1>2 DEF IInv, TypeOK, producer
  <1>4. ConsumerInv'
    BY <1>1, <1>2 DEF ConsumerInv, ReadAvail
  <1>5. ProducerInv'
    BY <1>2, ProducerKept
  <1> QED
    BY <1>2, <1>3, <1>4, <1>5 DEF IInv, AssertionsHold

\* An array that starts at the read index ends before the end of m_data.
LEMMA ArrayContiguous ==
  ASSUME IInv, rpc = "array"
  PROVE  /\ Len(rbuf) \in Nat /\ Len(rbuf) < MAX_SIZE
         /\ Len(rbuf) \leq first_read_size(m_writeIdx, m_readIdx)
         /\ m_readIdx + Len(rbuf) \leq MAX_SIZE
         /\ Len(rbuf) < rmax => m_readIdx + Len(rbuf) < MAX_SIZE
  <1> DEFINE size == first_read_size(m_writeIdx, m_readIdx)
  <1>1. /\ m_writeIdx \in Index /\ m_readIdx \in Index /\ Len(rbuf) \in Nat /\ rmax \in Nat
        /\ Len(rbuf) \leq rmax /\ rmax \leq size
    BY DEF IInv, TypeOK, ConsumerInv
  <1>2. /\ size \in Nat /\ m_readIdx + size \leq MAX_SIZE /\ m_readIdx \in Nat
        /\ size < MAX_SIZE
    BY <1>1, Available, AvailableBounded DEF Index
  <1> HIDE DEF size
  <1>3. /\ Len(rbuf) < MAX_SIZE /\ Len(rbuf) \leq size /\ m_readIdx + Len(rbuf) \leq MAX_SIZE
        /\ Len(rbuf) < rmax => m_readIdx + Len(rbuf) < MAX_SIZE
    BY <1>1, <1>2, SizeAssumption
  <1> QED
    BY <1>1, <1>3 DEF size

LEMMA ArraySendIInv == ASSUME IInv, ArraySend PROVE IInv'
  <1>1. Advance(m_readIdx, Len(rbuf)) = m_readIdx + Len(rbuf)
    BY ArrayContiguous, AdvanceIndex DEF ArraySend, IInv, TypeOK
  <1> QED
    BY <1>1, CopyIInv DEF ArraySend

LEMMA CommitFirstReadArrayIInv == ASSUME IInv, CommitFirstReadArray PROVE IInv'
  <1>0. rpc = "array" /\ m_writeIdx \in Index /\ m_readIdx \in Index
    BY DEF CommitFirstReadArray, IInv, TypeOK
  <1>1. m_readIdx' = Advance(m_readIdx, Len(rbuf))
    <2>1. /\ Len(rbuf) \in Nat /\ m_readIdx \in Nat /\ MAX_SIZE \in Nat
          /\ m_readIdx + Len(rbuf) \leq MAX_SIZE
      BY <1>0, ArrayContiguous, SizeAssumption DEF Index
    <2> QED
      BY <2>1 DEF CommitFirstReadArray, Advance
  <1>2. ~(Len(rbuf) > first_read_size(m_writeIdx, m_readIdx))
    <2>1. first_read_size(m_writeIdx, m_readIdx) \in Nat
      BY <1>0, Available
    <2> QED
      BY <1>0, <2>1, ArrayContiguous
  <1>3. failed' = FALSE
    BY <1>2 DEF CommitFirstReadArray, IInv, TypeOK, AssertionsHold
  <1> QED
    BY <1>1, <1>3, StoreReadIdxIInv DEF CommitFirstReadArray

LEMMA NextIInv == IInv /\ [Next]_vars => IInv'
  <1> SUFFICES ASSUME IInv, [Next]_vars PROVE IInv'
    OBVIOUS
  <1>1. CASE ProducerNext
    BY <1>1, WriteBeginIInv, WriteByteIInv, WriteEndIInv, FirstWriteArrayIInv,
       ArrayFillIInv, CommitFirstWriteArrayIInv DEF ProducerNext
  <1>2. CASE ConsumerNext
    BY <1>2, ReadBeginIInv, ReadByteIInv, ReadEndIInv, FrontIInv, PopIInv,
       FirstReadArrayIInv, ArraySendIInv, CommitFirstReadArrayIInv DEF ConsumerNext
  <1>3. CASE UNCHANGED vars
    <2>1. TypeOK' /\ AssertionsHold'
      BY <1>3 DEF vars, producer, consumer, IInv, TypeOK, AssertionsHold
    <2>2. ProducerInv' /\ ConsumerInv'
      BY <1>3 DEF vars, producer, consumer, IInv, ProducerInv, ConsumerInv, ReadAvail, WriteAvail
    <2> QED
      BY <2>1, <2>2 DEF IInv
  <1> QED
    BY <1>1, <1>2, <1>3 DEF Next

THEOREM Invariance == Spec => []IInv
  BY InitIInv, NextIInv, PTL DEF Spec

\* The variables keep their types: in particular neither index ever leaves
\* m_data, for any number of slots.
THEOREM TypeCorrect == Spec => []TypeOK
  <1>1. IInv => TypeOK
    BY DEF IInv
  <1> QED
    BY <1>1, Invariance, PTL

\* The assertions of pop and of the two commit functions never fail.
THEOREM AssertionsNeverFail == Spec => []AssertionsHold
  <1>1. IInv => AssertionsHold
    BY DEF IInv
  <1> QED
    BY <1>1, Invariance, PTL

\* No slot is written by one thread while the other may read it, and no byte is
\* overwritten before it has been consumed.
THEOREM NoDataRace == Spec => []SlotsDisjoint
  <1>1. IInv => SlotsDisjoint
    <2> SUFFICES ASSUME IInv, NEW i \in 0..wmax - 1
                 PROVE  /\ i < MAX_SIZE
                        /\ \A j \in 0..rmax - 1 :
                              Advance(m_writeIdx, i) # Advance(m_readIdx, j)
                        /\ \A j \in 0..ReadAvail - 1 :
                              Advance(m_writeIdx, i) # Advance(m_readIdx, j)
      BY DEF SlotsDisjoint, ReadAvail
    <2>1. /\ m_writeIdx \in Index /\ m_readIdx \in Index
          /\ wmax \in Nat /\ wmax \leq WriteAvail /\ rmax \in Nat /\ rmax \leq ReadAvail
      BY DEF IInv, TypeOK, ProducerInv, ConsumerInv
    <2>2. /\ ReadAvail \in Nat /\ WriteAvail \in Nat /\ WriteAvail < MAX_SIZE
      BY <2>1, Available, AvailableBounded DEF ReadAvail, WriteAvail
    <2>3. i \in Nat /\ i < WriteAvail /\ i < MAX_SIZE
      BY <2>1, <2>2, SizeAssumption
    <2>4. ASSUME NEW j \in 0..ReadAvail - 1
          PROVE  Advance(m_writeIdx, i) # Advance(m_readIdx, j)
      <3>1. j \in Nat /\ j < ReadAvail
        BY <2>2
      <3> QED
        BY <2>1, <2>3, <3>1, FreeNotStored DEF ReadAvail, WriteAvail
    <2>5. 0..rmax - 1 \subseteq 0..ReadAvail - 1
      BY <2>1, <2>2
    <2> QED
      BY <2>3, <2>4, <2>5
  <1> QED
    BY <1>1, Invariance, PTL

----------------------------------------------------------------------------
(* Refinement.  Contents is the queue.                                     *)

QueueOf(w, r, d) == [i \in 1..read_available(w, r) |-> d[Advance(r, i - 1)]]

LEMMA QueueOfSeq ==
  ASSUME NEW w \in Index, NEW r \in Index, NEW d \in [Index -> Byte]
  PROVE  /\ QueueOf(w, r, d) \in Seq(Byte)
         /\ Len(QueueOf(w, r, d)) = read_available(w, r)
         /\ read_available(w, r) \in Nat
         /\ \A i \in 1..read_available(w, r) : QueueOf(w, r, d)[i] = d[Advance(r, i - 1)]
  <1> DEFINE n == read_available(w, r)
  <1>1. n \in Nat /\ n < MAX_SIZE
    BY Available, AvailableBounded
  <1>2. \A i \in 1..n : d[Advance(r, i - 1)] \in Byte
    <2> SUFFICES ASSUME NEW i \in 1..n PROVE d[Advance(r, i - 1)] \in Byte
      OBVIOUS
    <2> HIDE DEF n
    <2>1. i - 1 \in Nat /\ i - 1 < MAX_SIZE
      BY <1>1, SizeAssumption
    <2> QED
      BY <2>1, AdvanceIndex
  <1>3. QueueOf(w, r, d) = [i \in 1..n |-> d[Advance(r, i - 1)]]
    BY DEF QueueOf
  <1> HIDE DEF n
  <1>4. QueueOf(w, r, d) \in [1..n -> Byte]
    BY <1>2, <1>3
  <1>5. QueueOf(w, r, d) \in Seq(Byte) /\ Len(QueueOf(w, r, d)) = n
    BY <1>1, <1>4
  <1>6. \A i \in 1..n : QueueOf(w, r, d)[i] = d[Advance(r, i - 1)]
    BY <1>3
  <1> QED
    BY <1>1, <1>5, <1>6 DEF n

LEMMA ContentsSeq ==
  ASSUME IInv
  PROVE  /\ Contents \in Seq(Byte) /\ Len(Contents) = ReadAvail /\ ReadAvail \in Nat
         /\ \A i \in 1..ReadAvail : Contents[i] = m_data[Advance(m_readIdx, i - 1)]
  <1>1. Contents = QueueOf(m_writeIdx, m_readIdx, m_data)
    BY DEF Contents, QueueOf
  <1> QED
    BY <1>1, QueueOfSeq DEF IInv, TypeOK, ReadAvail

LEMMA NextContentsSeq ==
  ASSUME IInv'
  PROVE  /\ Contents' \in Seq(Byte) /\ Len(Contents') = ReadAvail' /\ ReadAvail' \in Nat
         /\ \A i \in 1..ReadAvail' : Contents'[i] = m_data'[Advance(m_readIdx', i - 1)]
  <1>1. Contents' = QueueOf(m_writeIdx', m_readIdx', m_data')
    BY DEF Contents, QueueOf
  <1> QED
    BY <1>1, QueueOfSeq DEF IInv, TypeOK, ReadAvail

\* Sequences with the same length and elements are the same.
LEMMA SeqEqual ==
  ASSUME NEW S, NEW s \in Seq(S), NEW t \in Seq(S), Len(s) = Len(t),
         \A i \in 1..Len(s) : s[i] = t[i]
  PROVE  s = t
  OBVIOUS

\* Until an index moves the queue is unchanged, whatever is written to the
\* free slots.
LEMMA QueueKept ==
  ASSUME IInv, IInv', UNCHANGED <<m_writeIdx, m_readIdx>>,
         \A j \in Nat : j < ReadAvail =>
             m_data'[Advance(m_readIdx, j)] = m_data[Advance(m_readIdx, j)]
  PROVE  Contents' = Contents
  <1>1. ReadAvail \in Nat /\ ReadAvail' = ReadAvail
    BY ContentsSeq DEF ReadAvail
  <1>2. \A i \in 1..ReadAvail :
           m_data'[Advance(m_readIdx, i - 1)] = m_data[Advance(m_readIdx, i - 1)]
    BY <1>1
  <1> QED
    BY <1>2 DEF Contents, ReadAvail

\* Storing the write index puts the bytes written behind the queue.
LEMMA StoreWriteIdxPuts ==
  ASSUME IInv, IInv', StoreWriteIdx, wdone = Len(wbuf), wpc # "idle",
         UNCHANGED <<m_readIdx, m_data, out>>
  PROVE  Fifo!Put
  <1>1. /\ m_writeIdx \in Index /\ m_readIdx \in Index /\ wbuf \in Seq(Byte)
        /\ Len(wbuf) \in Nat /\ Len(wbuf) \leq WriteAvail
    <2>1. /\ m_writeIdx \in Index /\ m_readIdx \in Index /\ wbuf \in Seq(Byte)
          /\ wmax \in Nat /\ wdone \in Nat /\ wpc \in {"write", "array"}
          /\ wmax \leq WriteAvail
      BY DEF IInv, TypeOK, ProducerInv
    <2>2. WriteAvail \in Nat /\ Len(wbuf) \leq wmax
      BY <2>1, Available DEF IInv, ProducerInv, WriteAvail
    <2> QED
      BY <2>1, <2>2
  <1>2. /\ Contents \in Seq(Byte) /\ Len(Contents) = ReadAvail /\ ReadAvail \in Nat
        /\ \A i \in 1..ReadAvail : Contents[i] = m_data[Advance(m_readIdx, i - 1)]
    BY ContentsSeq
  <1>3. /\ Contents' \in Seq(Byte) /\ Len(Contents') = ReadAvail' /\ ReadAvail' \in Nat
        /\ \A i \in 1..ReadAvail' : Contents'[i] = m_data'[Advance(m_readIdx', i - 1)]
    BY NextContentsSeq
  <1>4. ReadAvail' = ReadAvail + Len(wbuf)
    BY <1>1, ProducerMoves DEF StoreWriteIdx, ReadAvail, WriteAvail
  <1>5. ReadAvail + WriteAvail = MAX_SIZE - 1 /\ WriteAvail \in Nat
    BY <1>1, Available DEF ReadAvail, WriteAvail
  <1>6. Advance(m_readIdx, ReadAvail) = m_writeIdx
    BY <1>1, FreeBehindStored DEF ReadAvail
  <1>7. /\ Contents \o wbuf \in Seq(Byte) /\ Len(Contents \o wbuf) = ReadAvail + Len(wbuf)
        /\ \A i \in 1..ReadAvail : (Contents \o wbuf)[i] = Contents[i]
        /\ \A i \in 1..Len(wbuf) : (Contents \o wbuf)[ReadAvail + i] = wbuf[i]
    <2>1. Contents \in Seq(Byte) /\ wbuf \in Seq(Byte)
      BY <1>1, <1>2
    <2>2. /\ Contents \o wbuf \in Seq(Byte)
          /\ Len(Contents \o wbuf) = Len(Contents) + Len(wbuf)
          /\ \A i \in 1..Len(Contents) : (Contents \o wbuf)[i] = Contents[i]
          /\ \A i \in 1..Len(wbuf) : (Contents \o wbuf)[Len(Contents) + i] = wbuf[i]
      BY <2>1
    <2>3. Len(Contents) = ReadAvail
      BY <1>2
    <2> QED
      BY <2>2, <2>3, Zenon
  <1>8. ASSUME NEW i \in 1..ReadAvail'
        PROVE  Contents'[i] = (Contents \o wbuf)[i]
    <2>1. CASE i \leq ReadAvail
      BY <1>2, <1>3, <1>4, <1>7, <2>1
    <2>2. CASE ~(i \leq ReadAvail)
      <3> DEFINE k == i - ReadAvail
      <3>1. k \in 1..Len(wbuf) /\ i = ReadAvail + k /\ k - 1 \in Nat
              /\ ReadAvail + (k - 1) < MAX_SIZE /\ i - 1 = ReadAvail + (k - 1)
        BY <1>1, <1>2, <1>4, <1>5, <2>2, SizeAssumption
      <3>2. Advance(m_readIdx, i - 1) = Advance(m_writeIdx, k - 1)
        <4> HIDE DEF k
        <4>1. Advance(Advance(m_readIdx, ReadAvail), k - 1) = Advance(m_readIdx, ReadAvail + (k - 1))
          BY <1>1, <1>2, <3>1, AdvanceTwice
        <4> QED
          BY <1>6, <3>1, <4>1
      <3>3. m_data[Advance(m_writeIdx, k - 1)] = wbuf[k]
        BY <3>1 DEF IInv, ProducerInv
      <3>4. (Contents \o wbuf)[i] = wbuf[k]
        <4> HIDE DEF k
        <4> QED
          BY <1>7, <3>1
      <3> QED
        BY <1>3, <3>2, <3>3, <3>4
    <2> QED
      BY <2>1, <2>2
  <1>9. Contents' = Contents \o wbuf
    BY <1>3, <1>4, <1>7, <1>8, SeqEqual
  <1>10. in' = wbuf
    BY DEF StoreWriteIdx
  <1>11. Len(Contents) + Len(in') \leq MAX_SIZE - 1
    BY <1>1, <1>2, <1>5, <1>10, SizeAssumption
  <1> QED
    BY <1>1, <1>9, <1>10, <1>11 DEF Fifo!Put

\* Storing the read index takes the bytes copied from the front of the queue.
LEMMA StoreReadIdxTakes ==
  ASSUME IInv, IInv', m_readIdx' = Advance(m_readIdx, Len(rbuf)), out' = rbuf,
         UNCHANGED <<m_writeIdx, m_data, in>>
  PROVE  Fifo!Take
  <1> DEFINE n == Len(rbuf)
  <1>1. /\ m_writeIdx \in Index /\ m_readIdx \in Index /\ rbuf \in Seq(Byte)
        /\ n \in Nat /\ n \leq ReadAvail
        /\ \A i \in 1..n : rbuf[i] = m_data[Advance(m_readIdx, i - 1)]
    <2>1. /\ m_writeIdx \in Index /\ m_readIdx \in Index /\ rbuf \in Seq(Byte)
          /\ rmax \in Nat /\ rmax \leq ReadAvail /\ n \leq rmax /\ n \in Nat
      BY DEF IInv, TypeOK, ConsumerInv
    <2>2. ReadAvail \in Nat
      BY <2>1, Available DEF ReadAvail
    <2>3. \A i \in 1..n : rbuf[i] = m_data[Advance(m_readIdx, i - 1)]
      BY DEF IInv, ConsumerInv
    <2> HIDE DEF n
    <2> QED
      BY <2>1, <2>2, <2>3
  <1>2. /\ Contents \in Seq(Byte) /\ Len(Contents) = ReadAvail /\ ReadAvail \in Nat
        /\ \A i \in 1..ReadAvail : Contents[i] = m_data[Advance(m_readIdx, i - 1)]
    BY ContentsSeq
  <1>3. /\ Contents' \in Seq(Byte) /\ Len(Contents') = ReadAvail' /\ ReadAvail' \in Nat
        /\ \A i \in 1..ReadAvail' : Contents'[i] = m_data'[Advance(m_readIdx', i - 1)]
    BY NextContentsSeq
  <1>4. ReadAvail' = ReadAvail - n
    BY <1>1, ConsumerMoves DEF ReadAvail
  <1>5. ReadAvail < MAX_SIZE
    BY <1>1, AvailableBounded DEF ReadAvail
  <1>6. out' = SubSeq(Contents, 1, n)
    <2>1. /\ SubSeq(Contents, 1, n) \in Seq(Byte) /\ Len(SubSeq(Contents, 1, n)) = n
          /\ \A i \in 1..n : SubSeq(Contents, 1, n)[i] = Contents[i]
      <3> HIDE DEF n
      <3> QED
        BY <1>1, <1>2
    <2>2. \A i \in 1..n : rbuf[i] = SubSeq(Contents, 1, n)[i]
      BY <1>1, <1>2, <2>1
    <2> QED
      BY <1>1, <2>1, <2>2, SeqEqual
  <1>7. Contents' = SubSeq(Contents, n + 1, Len(Contents))
    <2> DEFINE rest == SubSeq(Contents, n + 1, Len(Contents))
    <2>1. /\ rest \in Seq(Byte) /\ Len(rest) = ReadAvail - n
          /\ \A i \in 1..ReadAvail - n : rest[i] = Contents[n + i]
      <3> HIDE DEF n
      <3> QED
        BY <1>1, <1>2
    <2>2. ASSUME NEW i \in 1..ReadAvail'
          PROVE  Contents'[i] = rest[i]
      <3> HIDE DEF n
      <3>1. /\ i - 1 \in Nat /\ n + (i - 1) < MAX_SIZE /\ n + i \in 1..ReadAvail
            /\ (n + i) - 1 = n + (i - 1) /\ i \in 1..ReadAvail - n
        BY <1>1, <1>2, <1>4, <1>5, SizeAssumption
      <3>2. Contents'[i] = m_data[Advance(Advance(m_readIdx, n), i - 1)]
        BY <1>3 DEF n
      <3>3. Advance(Advance(m_readIdx, n), i - 1) = Advance(m_readIdx, n + (i - 1))
        BY <1>1, <3>1, AdvanceTwice
      <3>4. Contents[n + i] = m_data[Advance(m_readIdx, n + (i - 1))]
        BY <1>2, <3>1
      <3> QED
        BY <2>1, <3>1, <3>2, <3>3, <3>4
    <2> HIDE DEF rest
    <2>3. Contents' = rest
      BY <1>3, <1>4, <2>1, <2>2, SeqEqual
    <2> QED
      BY <2>3 DEF rest
  <1>8. n \in 0..Len(Contents)
    BY <1>1, <1>2
  <1> QED
    BY <1>6, <1>7, <1>8 DEF Fifo!Take

LEMMA NextRefines ==
  ASSUME IInv, IInv', [Next]_vars
  PROVE  [Fifo!Next]_<<Contents, in, out>>
  <1> DEFINE Kept == \A j \in Nat : j < ReadAvail =>
                        m_data'[Advance(m_readIdx, j)] = m_data[Advance(m_readIdx, j)]
  <1>1. ASSUME UNCHANGED <<m_writeIdx, m_readIdx, in, out>>, Kept
        PROVE  UNCHANGED <<Contents, in, out>>
    BY <1>1, QueueKept
  <1>2. CASE (\E s \in Inputs : WriteBegin(s)) \/ FirstWriteArray
    BY <1>1, <1>2 DEF WriteBegin, FirstWriteArray
  <1>3. CASE WriteByte
    <2>1. /\ wdone \in Nat /\ wdone < wmax /\ wbuf[wdone + 1] \in Byte
      BY <1>3 DEF WriteByte, IInv, TypeOK, ProducerInv
    <2>2. Kept
      BY <1>3, <2>1, StoreKeepsStored DEF WriteByte
    <2> QED
      BY <1>1, <1>3, <2>2 DEF WriteByte
  <1>4. CASE \E b \in Byte : ArrayFill(b)
    <2> PICK b \in Byte : ArrayFill(b)
      BY <1>4
    <2>1. /\ wdone \in Nat /\ wdone < wmax /\ wmax \in Nat /\ wpc = "array"
          /\ m_writeIdx \in Index /\ m_readIdx \in Index
          /\ wmax \leq first_write_size(m_writeIdx, m_readIdx)
      BY DEF ArrayFill, IInv, TypeOK, ProducerInv
    <2>2. Advance(m_writeIdx, wdone) = m_writeIdx + wdone
      <3> DEFINE size == first_write_size(m_writeIdx, m_readIdx)
      <3>1. size \in Nat /\ m_writeIdx + size \leq MAX_SIZE /\ m_writeIdx \in Nat /\ size < MAX_SIZE
        BY <2>1, Available, AvailableBounded DEF Index
      <3>2. wmax \leq size
        BY <2>1
      <3> HIDE DEF size
      <3>3. m_writeIdx + wdone < MAX_SIZE /\ wdone < MAX_SIZE
        BY <2>1, <3>1, <3>2, SizeAssumption
      <3> QED
        BY <2>1, <3>3, AdvanceIndex
    <2>3. Kept
      BY <2>1, <2>2, StoreKeepsStored DEF ArrayFill
    <2> QED
      BY <1>1, <2>3 DEF ArrayFill
  <1>5. CASE WriteEnd
    BY <1>5, StoreWriteIdxPuts DEF WriteEnd, Fifo!Next
  <1>6. CASE CommitFirstWriteArray
    <2>1. wdone = Len(wbuf)
      BY <1>6 DEF CommitFirstWriteArray, IInv, ProducerInv
    <2> QED
      BY <1>6, <2>1, StoreWriteIdxPuts DEF CommitFirstWriteArray, Fifo!Next
  <1>7. CASE (\E n \in Sizes : ReadBegin(n)) \/ ReadByte \/ Front \/ FirstReadArray \/ ArraySend
    BY <1>1, <1>7 DEF ReadBegin, ReadByte, Front, FirstReadArray, ArraySend
  <1>8. CASE ReadEnd
    BY <1>8, StoreReadIdxTakes DEF ReadEnd, StoreReadIdx, Fifo!Next
  <1>9. CASE Pop
    <2>1. Len(rbuf) = 1
      BY <1>9 DEF Pop, IInv, ConsumerInv
    <2> QED
      BY <1>9, <2>1, StoreReadIdxTakes DEF Pop, next_index, Fifo!Next
  <1>10. CASE CommitFirstReadArray
    <2>1. m_readIdx' = Advance(m_readIdx, Len(rbuf))
      <3>1. /\ Len(rbuf) \in Nat /\ m_readIdx \in Nat /\ MAX_SIZE \in Nat
            /\ m_readIdx + Len(rbuf) \leq MAX_SIZE
        BY <1>10, ArrayContiguous, SizeAssumption DEF CommitFirstReadArray, IInv, TypeOK, Index
      <3> QED
        BY <1>10, <3>1 DEF CommitFirstReadArray, Advance
    <2> QED
      BY <1>10, <2>1, StoreReadIdxTakes DEF CommitFirstReadArray, Fifo!Next
  <1>11. CASE UNCHANGED vars
    BY <1>1, <1>11 DEF vars
  <1> QED
    BY <1>2, <1>3, <1>4, <1>5, <1>6, <1>7, <1>8, <1>9, <1>10, <1>11
       DEF Next, ProducerNext, ConsumerNext

\* The ring buffer implements the FIFO queue: for every number of slots, every
\* interleaving of the two threads and the socket, the consumer gets the bytes
\* that were written, in order and once.
THEOREM Refinement == Spec => IsFifo
  <1>1. Init => Fifo!Init
    BY SizeAssumption DEF Init, Fifo!Init, Contents, read_available
  <1>2. IInv /\ IInv' /\ [Next]_vars => [Fifo!Next]_<<Contents, in, out>>
    BY NextRefines
  <1> QED
    BY <1>1, <1>2, Invariance, PTL DEF Spec, IsFifo, Fifo!Spec
=============================================================================
