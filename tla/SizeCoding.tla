----------------------------- MODULE SizeCoding -----------------------------
(***************************************************************************)
(* The encoding of a std::size_t on the wire: the serialize_one,           *)
(* can_deserialize_one and deserialize_one functions for std::size_t in    *)
(* yogi-core/src/serialization.  A number is written in base Radix (128 in *)
(* the code), most significant digit first, in one to five bytes; every    *)
(* byte but the last has its highest bit, worth Radix, set.                *)
(***************************************************************************)
EXTENDS Naturals, Sequences

CONSTANT Radix

ASSUME RadixAssumption == Radix \in Nat /\ Radix \geq 2

Octet == 0..(2 * Radix - 1)

continued(byte) == byte \geq Radix

\* What a digit is worth: 1 << (7 * k) in the code.
weight(k) ==
    CASE k = 0 -> 1
      [] k = 1 -> Radix
      [] k = 2 -> Radix * Radix
      [] k = 3 -> Radix * Radix * Radix
      [] k = 4 -> Radix * Radix * Radix * Radix

\* One more than the largest number that five digits hold.
Capacity == weight(4) * Radix

\* Mutant: a number that needs one more digit does not get it.
length_Short(value) ==
    IF value > weight(4) THEN 5 ELSE IF value > weight(3) THEN 4
    ELSE IF value > weight(2) THEN 3 ELSE IF value > weight(1) THEN 2 ELSE 1

length(value) ==
    IF value \geq weight(4) THEN 5 ELSE IF value \geq weight(3) THEN 4
    ELSE IF value \geq weight(2) THEN 3 ELSE IF value \geq weight(1) THEN 2 ELSE 1

\* Digit k of value, counted from the last one.
digit(value, k) == (value \div weight(k)) % Radix

serialize_size(value) ==
    [i \in 1..length(value) |->
        digit(value, length(value) - i) + (IF i < length(value) THEN Radix ELSE 0)]

can_deserialize_size(buffer) == \E i \in 1..Len(buffer) : ~continued(buffer[i])

\* How many bytes deserialize_one consumes.
size_end(buffer) ==
    CHOOSE i \in 1..Len(buffer) :
        ~continued(buffer[i]) /\ \A j \in 1..(i - 1) : continued(buffer[j])

\* The number it reads from them; only for a buffer that holds one.
deserialize_size(buffer) ==
    LET tmp[i \in 0..size_end(buffer)] ==
            IF i = 0 THEN 0 ELSE (tmp[i - 1] * Radix) + (buffer[i] % Radix)
    IN  tmp[size_end(buffer)]

----------------------------------------------------------------------------
\* What is read back is the number written, whatever follows it in the buffer, and
\* exactly the bytes written are consumed; no proper prefix is taken for a number.
ReadsBack(value, rest) ==
    LET bytes == serialize_size(value)
    IN  /\ deserialize_size(bytes \o rest) = value
        /\ size_end(bytes \o rest) = Len(bytes)
        /\ \A n \in 0..Len(bytes) :
              can_deserialize_size(SubSeq(bytes, 1, n)) <=> n = Len(bytes)
=============================================================================
