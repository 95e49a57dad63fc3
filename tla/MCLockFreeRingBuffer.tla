------------------------ MODULE MCLockFreeRingBuffer ------------------------
(* A buffer of three bytes, with inputs and reads longer than it.          *)
EXTENDS LockFreeRingBuffer

CONSTANT MaxChunk   \* bound on the length of an input and of a read

MCInputs == UNION {[1..n -> Byte] : n \in 1..MaxChunk}
MCSizes  == 1..MaxChunk
=============================================================================
