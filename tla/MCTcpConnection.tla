-------------------------- MODULE MCTcpConnection --------------------------
(* Small instances of TcpConnection: sizes are written in base 4.          *)
EXTENDS TcpConnection

\* A message without payload, one whose size takes a byte and one whose size
\* takes two.
ThreeMessages == << [type |-> 1, payload |-> <<>>],
                    [type |-> 2, payload |-> <<3>>],
                    [type |-> 3, payload |-> <<1, 0, 2>>] >>

\* A message that is longer than the space that becomes free at a time.
LongMessage == << [type |-> 1, payload |-> <<2, 3>>] >>

\* The encoding of sizes in base 128, as the code has it, and the numbers around
\* those at which it grows by a byte.
Code == INSTANCE SizeCoding WITH Radix <- 128

Sizes == (0..300) \cup UNION {(128^k - 150)..(128^k + 150) : k \in 2..4}

\* What is read back is the number written, whatever follows it in the buffer, and
\* exactly the bytes written are consumed; and TcpConnection::deserialize, which
\* adds bytes until the number can be read, takes no proper prefix for a number.
\* Nothing of this depends on the state, so it is evaluated at the start.
SizesReadBack ==
    sent = 0 /\ beats = 0 => \A value \in Sizes :
        \A rest \in {<<>>, <<0>>, <<129, 3>>} : Code!ReadsBack(value, rest)
=============================================================================
