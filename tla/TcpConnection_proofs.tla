------------------------ MODULE TcpConnection_proofs ------------------------
(***************************************************************************)
(* What holds of a TCP connection for every base of the size encoding,     *)
(* every size of the buffers, every list of messages and every number of   *)
(* heartbeats: the handshake between the receive operation and             *)
(* deserialize() loses no wakeup; sizes are read back as they were         *)
(* written; no buffer holds more than its capacity; and the messages are   *)
(* delivered whole and in the order in which they were sent, as long as no *)
(* waiting send() was disturbed.                                           *)
(***************************************************************************)
EXTENDS TcpConnection, TLAPS, SequenceTheorems, WellFoundedInduction

----------------------------------------------------------------------------
(* Wakeups.                                                                *)

\* deserialize() is never posted as switched off.
LEMMA BeginIsOn == Begin # "off"
BY DEF Begin

\* The steps of the sending end leave the receiving end alone.
LEMMA SendingEnd == ASSUME NoLostWakeup, UNCHANGED receiveVars PROVE NoLostWakeup'
BY DEF NoLostWakeup, receiveVars

\* NoLostWakeup is inductive: deserialize() switches itself off only under the
\* mutex, in the step that looks at m_inBuffer again, and that step starts a
\* receive; a receive that ends without starting another one has posted
\* deserialize(), which cannot switch itself off before the mutex is free.
LEMMA WakeupStep == ASSUME NoLostWakeup, [Next]_vars PROVE NoLostWakeup'
<1>1. CASE Send
  BY <1>1, SendingEnd DEF Send
<1>2. CASE WakeTooEarly
  BY <1>2, SendingEnd DEF WakeTooEarly
<1>3. CASE WakeInHeader
  BY <1>3, SendingEnd DEF WakeInHeader
<1>4. CASE WakeInPayload
  BY <1>4, SendingEnd DEF WakeInPayload
<1>5. CASE OnTimeout
  BY <1>5, SendingEnd DEF OnTimeout
<1>6. CASE WakeInHeartbeat
  BY <1>6, SendingEnd DEF WakeInHeartbeat
<1>7. CASE \E n \in 1..OutSize : OnSendCompleted(n)
  BY <1>7, SendingEnd DEF OnSendCompleted
<1>8. CASE \E n \in 0..InSize : OnReceiveCompleted(n)
  BY <1>8, BeginIsOn DEF OnReceiveCompleted, NoLostWakeup
<1>9. CASE ReceiveAgain
  BY <1>9 DEF ReceiveAgain, NoLostWakeup
<1>10. CASE ReadSize
  BY <1>10 DEF ReadSize, NoLostWakeup
<1>11. CASE ReadSizeEmpty
  BY <1>11 DEF ReadSizeEmpty, NoLostWakeup
<1>12. CASE ReadPayload
  BY <1>12 DEF ReadPayload, NoLostWakeup
<1>13. CASE Forward
  BY <1>13 DEF Forward, NoLostWakeup
<1>14. CASE wait_for_more_data
  BY <1>14, BeginIsOn DEF wait_for_more_data, StartReceive, NoLostWakeup
<1>15. CASE UNCHANGED vars
  BY <1>15, SendingEnd DEF vars
<1> QED
  BY <1>1, <1>2, <1>3, <1>4, <1>5, <1>6, <1>7, <1>8, <1>9, <1>10, <1>11, <1>12,
     <1>13, <1>14, <1>15 DEF Next, Deserialize

\* While no deserialize() is posted or running, m_inBuffer is empty and a
\* receive is under way (NoLostWakeup), in every state of every instance.
THEOREM WakeupsKept == Spec => []NoLostWakeup
<1>1. Init => NoLostWakeup
  BY DEF Init, NoLostWakeup
<1>2. NoLostWakeup /\ [Next]_vars => NoLostWakeup'
  BY WakeupStep
<1> QED
  BY <1>1, <1>2, PTL DEF Spec

----------------------------------------------------------------------------
(* Numbers.                                                                *)

\* A set of naturals has a least element.
LEMMA Least ==
    ASSUME NEW T, T \subseteq Nat, T # {}
    PROVE  \E x \in T : \A y \in T : x <= y
<1>1. PICK x \in T : \A y \in T : ~ (<<y, x>> \in OpToRel(<, Nat))
  BY NatLessThanWellFounded, WFMin, Zenon
<1>2. \A y \in T : y < x => <<y, x>> \in OpToRel(<, Nat)
  BY DEF OpToRel
<1>3. \A y \in T : ~(y < x)
  BY <1>1, <1>2, Zenon
<1> QED BY <1>3

\* Induction over the naturals for a set, from the least number outside of it.
LEMMA Induction ==
    ASSUME NEW S, 0 \in S, \A n \in Nat : n \in S => n + 1 \in S
    PROVE  \A n \in Nat : n \in S
<1> DEFINE T == {n \in Nat : n \notin S}
<1>1. SUFFICES ASSUME T # {}
               PROVE  FALSE
  OBVIOUS
<1>2. PICK x \in T : \A y \in T : x <= y
  BY <1>1, Least
<1>3. x \in Nat /\ x # 0 /\ x - 1 \in T
  OBVIOUS
<1> QED BY <1>2, <1>3

\* What the digits are worth.
LEMMA Weights ==
    /\ weight(0) = 1
    /\ \A k \in 0..4 : weight(k) \in Nat /\ weight(k) > 0
    /\ \A k \in 0..3 : weight(k + 1) = weight(k) * Radix
    /\ Capacity \in Nat
<1> DEFINE R == Radix
<1>0. R \in Nat /\ R > 0
  BY RadixAssumption
<1>1. weight(0) = 1 /\ weight(1) = R /\ weight(2) = R * R /\ weight(3) = R * R * R
      /\ weight(4) = R * R * R * R
  BY DEF weight
<1>2. R * R \in Nat /\ R * R > 0
  BY <1>0
<1>3. R * R * R \in Nat /\ R * R * R > 0
  BY <1>0, <1>2
<1>4. R * R * R * R \in Nat /\ R * R * R * R > 0
  BY <1>0, <1>3
<1>5. \A k \in 0..4 : weight(k) \in Nat /\ weight(k) > 0
  BY <1>0, <1>1, <1>2, <1>3, <1>4
<1>6. \A k \in 0..3 : weight(k + 1) = weight(k) * R
  BY <1>0, <1>1
<1>7. Capacity \in Nat
  BY <1>0, <1>1, <1>4 DEF Capacity
<1> QED BY <1>1, <1>5, <1>6, <1>7

\* How division and remainder go together.
LEMMA Division ==
    ASSUME NEW a \in Nat, NEW b \in Nat, NEW c \in Nat, b > 0, c > 0
    PROVE  /\ a \div b \in Nat
           /\ (a \div b) \div c = a \div (b * c)
           /\ a = b * (a \div b) + (a % b)
           /\ a % b \in 0..(b - 1)
<1>1. (a \div b) \div c = a \div (b * c)
  OBVIOUS
<1>2. a = b * (a \div b) + (a % b)
  OBVIOUS
<1> QED BY <1>1, <1>2

\* A number takes one to five bytes, and its first digit is below the base.
LEMMA Lengths ==
    ASSUME NEW value \in Nat
    PROVE  /\ length(value) \in 1..5
           /\ value < Capacity => value \div weight(length(value) - 1) < Radix
<1>1. length(value) \in 1..5
  BY DEF length
<1>2. ASSUME value < Capacity
      PROVE  value < weight(length(value) - 1) * Radix
  BY <1>2, Weights, RadixAssumption DEF length, Capacity
<1>3. ASSUME NEW w \in Nat, w > 0, value < w * Radix
      PROVE  value \div w < Radix
  BY <1>3, RadixAssumption
<1> QED BY <1>1, <1>2, <1>3, Weights

\* A digit, and how a number grows by it.
LEMMA Digits ==
    ASSUME NEW value \in Nat, NEW k \in 0..4
    PROVE  /\ digit(value, k) \in 0..(Radix - 1)
           /\ k < 4 => value \div weight(k)
                         = (value \div weight(k + 1)) * Radix + digit(value, k)
<1> DEFINE q == value \div weight(k)
<1>1. q \in Nat
  BY Weights
<1>2. q = Radix * (q \div Radix) + (q % Radix) /\ q % Radix \in 0..(Radix - 1)
  BY <1>1, RadixAssumption
<1>3. ASSUME k < 4
      PROVE  q \div Radix = value \div weight(k + 1)
  BY <1>3, Weights, Division, RadixAssumption
<1>4. q \div Radix \in Nat
  BY <1>1, RadixAssumption
<1> QED BY <1>1, <1>2, <1>3, <1>4, RadixAssumption DEF digit

\* What is written.
LEMMA Encoded ==
    ASSUME NEW value \in Nat
    PROVE  /\ serialize_size(value) \in Seq(Octet)
           /\ Len(serialize_size(value)) = length(value)
           /\ \A i \in 1..length(value) :
                 /\ continued(serialize_size(value)[i]) <=> i < length(value)
                 /\ serialize_size(value)[i] % Radix = digit(value, length(value) - i)
<1> DEFINE n == length(value)
           b == serialize_size(value)
<1>1. n \in 1..5
  BY Lengths
<1>2. ASSUME NEW i \in 1..n
      PROVE  digit(value, n - i) \in 0..(Radix - 1)
  <2>1. n - i \in 0..4
    BY <1>1
  <2> QED BY <2>1, Digits
<1>3. \A i \in 1..n : b[i] = digit(value, n - i) + (IF i < n THEN Radix ELSE 0)
  BY DEF serialize_size
<1>4. \A i \in 1..n : b[i] \in Octet
  BY <1>1, <1>2, <1>3, RadixAssumption DEF Octet
<1>5. b \in [1..n -> Octet]
  BY <1>4 DEF serialize_size
<1>6. b \in Seq(Octet) /\ Len(b) = n
  BY <1>1, <1>5
<1>7. ASSUME NEW d \in 0..(Radix - 1)
      PROVE  d % Radix = d /\ (d + Radix) % Radix = d
  BY RadixAssumption
<1>8. ASSUME NEW i \in 1..n
      PROVE  /\ continued(b[i]) <=> i < n
             /\ b[i] % Radix = digit(value, n - i)
  <2> DEFINE d == digit(value, n - i)
  <2>1. d \in 0..(Radix - 1)
    BY <1>2
  <2>2. d % Radix = d /\ (d + Radix) % Radix = d
    BY <1>7, <2>1
  <2>3. CASE i < n
    <3>1. b[i] = d + Radix
      BY <1>3, <2>3
    <3> QED BY <2>1, <2>2, <2>3, <3>1, RadixAssumption DEF continued
  <2>4. CASE ~(i < n)
    <3>1. b[i] = d + 0
      BY <1>3, <2>4
    <3> QED BY <2>1, <2>2, <2>4, <3>1, RadixAssumption DEF continued
  <2> QED BY <2>3, <2>4
<1> QED BY <1>6, <1>8

\* The first byte that is not continued ends a number.
LEMMA SizeEnds ==
    ASSUME NEW b \in Seq(Octet), NEW n \in 1..Len(b),
           ~continued(b[n]), \A i \in 1..(n - 1) : continued(b[i])
    PROVE  size_end(b) = n
<1> DEFINE Ends(i) == ~continued(b[i]) /\ \A j \in 1..(i - 1) : continued(b[j])
<1>0. Len(b) \in Nat
  OBVIOUS
<1>1. Ends(n)
  OBVIOUS
<1>2. ASSUME NEW i \in 1..Len(b), Ends(i)
      PROVE  i = n
  <2>1. ~(i < n)
    <3>1. i < n => i \in 1..(n - 1)
      BY <1>0
    <3> QED BY <1>1, <1>2, <3>1
  <2>2. ~(n < i)
    <3>1. n < i => n \in 1..(i - 1)
      BY <1>0
    <3> QED BY <1>1, <1>2, <3>1
  <2> QED BY <1>0, <2>1, <2>2
<1>3. size_end(b) = CHOOSE i \in 1..Len(b) : Ends(i)
  BY DEF size_end
<1> HIDE DEF Ends
<1> QED BY <1>1, <1>2, <1>3, Zenon

\* The function that deserialize_size computes, as an equation,
Folds(g, b, n) ==
    g = [i \in 0..n |-> IF i = 0 THEN 0 ELSE (g[i - 1] * Radix) + (b[i] % Radix)]

\* and the function itself.
Folded(b, n) == CHOOSE g : Folds(g, b, n)

\* Reading a number evaluates it.
LEMMA Folding ==
    ASSUME NEW b
    PROVE  deserialize_size(b) = Folded(b, size_end(b))[size_end(b)]
BY DEF deserialize_size, Folded, Folds

\* What the equation says step by step.
LEMMA FoldSteps ==
    ASSUME NEW g, NEW b, NEW n \in Nat, Folds(g, b, n)
    PROVE  /\ DOMAIN g = 0..n
           /\ g[0] = 0
           /\ \A i \in 1..n : g[i] = (g[i - 1] * Radix) + (b[i] % Radix)
BY DEF Folds

\* What was written is read back, whatever follows.
LEMMA Decoded ==
    ASSUME NEW value \in Nat, value < Capacity, NEW b \in Seq(Octet),
           Len(b) >= length(value),
           \A i \in 1..length(value) : b[i] = serialize_size(value)[i]
    PROVE  /\ can_deserialize_size(b)
           /\ size_end(b) = length(value)
           /\ deserialize_size(b) = value
<1> DEFINE n == length(value)
           rest(i) == value \div weight(n - i)
           h == [i \in 0..n |-> IF i = 0 THEN 0 ELSE rest(i)]
<1>1. n \in 1..5 /\ Len(b) \in Nat
  BY Lengths
<1>2. \A i \in 1..n : /\ continued(b[i]) <=> i < n
                      /\ b[i] % Radix = digit(value, n - i)
  BY Encoded
<1>3. n \in 1..Len(b) /\ ~continued(b[n])
  BY <1>1, <1>2
<1>4. size_end(b) = n
  <2>1. \A i \in 1..(n - 1) : continued(b[i])
    BY <1>1, <1>2
  <2> QED BY <1>3, <2>1, SizeEnds
<1>5. ASSUME NEW i \in 1..n
      PROVE  /\ rest(i) \in Nat
             /\ i > 1 => rest(i) = (rest(i - 1) * Radix) + (b[i] % Radix)
  <2>1. n - i \in 0..4
    BY <1>1
  <2>2. rest(i) \in Nat
    <3>1. weight(n - i) \in Nat /\ weight(n - i) > 0
      BY <2>1, Weights
    <3> QED BY <3>1
  <2>3. ASSUME i > 1
        PROVE  rest(i) = (rest(i - 1) * Radix) + digit(value, n - i)
    <3>1. n - i < 4 /\ (n - i) + 1 = n - (i - 1)
      BY <1>1, <2>3
    <3> QED BY <2>1, <3>1, Digits
  <2> QED BY <1>2, <2>2, <2>3
<1>6. rest(1) = (0 * Radix) + (b[1] % Radix)
  <2>1. n - 1 \in 0..4 /\ 1 \in 1..n
    BY <1>1
  <2>2. rest(1) \in Nat /\ rest(1) < Radix
    BY <1>5, <2>1, Lengths
  <2>3. rest(1) % Radix = rest(1)
    BY <2>2, RadixAssumption
  <2>4. b[1] % Radix = rest(1)
    BY <1>2, <2>1, <2>3 DEF digit
  <2> QED BY <2>2, <2>4, RadixAssumption
<1>7. rest(n) = value
  <2>1. n - n = 0
    BY <1>1
  <2> QED BY <2>1, Weights
<1>8. Folds(h, b, n)
  <2>1. ASSUME NEW i \in 0..n
        PROVE  h[i] = IF i = 0 THEN 0 ELSE (h[i - 1] * Radix) + (b[i] % Radix)
    <3>1. CASE i = 0
      BY <3>1
    <3>2. CASE i = 1
      <4>1. h[1] = rest(1) /\ h[0] = 0
        BY <1>1
      <4> QED BY <1>6, <3>2, <4>1
    <3>3. CASE i # 0 /\ i # 1
      <4>1. i \in 1..n /\ i > 1 /\ i - 1 \in 0..n /\ i - 1 # 0
        BY <1>1, <3>3
      <4>2. h[i] = rest(i) /\ h[i - 1] = rest(i - 1)
        BY <1>1, <4>1
      <4> QED BY <1>5, <4>1, <4>2
    <3> QED BY <3>1, <3>2, <3>3
  <2> HIDE DEF rest
  <2>2. h = [i \in 0..n |-> h[i]]
    BY Zenon
  <2> QED BY <2>1, <2>2 DEF Folds
<1>9. Folds(Folded(b, n), b, n)
  BY <1>8, Zenon DEF Folded
<1>10. ASSUME NEW g, Folds(g, b, n)
       PROVE  g[n] = value
  <2>1. /\ g[0] = 0
        /\ \A i \in 1..n : g[i] = (g[i - 1] * Radix) + (b[i] % Radix)
    BY <1>1, <1>10, FoldSteps
  <2>2. g[1] = rest(1)
    BY <1>1, <1>6, <2>1
  <2> DEFINE S == {k \in Nat : k < n => g[k + 1] = rest(k + 1)}
  <2>3. 0 \in S
    BY <1>1, <2>2
  <2>4. ASSUME NEW k \in Nat, k \in S
        PROVE  k + 1 \in S
    <3>1. SUFFICES ASSUME k + 1 < n
                   PROVE  g[k + 2] = rest(k + 2)
      OBVIOUS
    <3>2. k < n /\ k + 2 \in 1..n /\ k + 2 > 1 /\ (k + 2) - 1 = k + 1
      BY <1>1, <3>1
    <3> HIDE DEF rest
    <3>3. g[k + 1] = rest(k + 1)
      BY <2>4, <3>2
    <3> QED BY <1>5, <2>1, <3>2, <3>3
  <2>5. n - 1 \in S
    <3>1. n - 1 \in Nat
      BY <1>1
    <3> HIDE DEF S
    <3> QED BY <2>3, <2>4, <3>1, Induction
  <2>6. g[n] = rest(n)
    <3>1. n - 1 < n /\ (n - 1) + 1 = n
      BY <1>1
    <3> HIDE DEF rest
    <3> QED BY <2>5, <3>1
  <2> QED BY <1>7, <2>6
<1> QED BY <1>3, <1>4, <1>9, <1>10, Folding DEF can_deserialize_size

\* Where a number ends in any bytes.
LEMMA SizeEndType ==
    ASSUME NEW b \in Seq(Octet), can_deserialize_size(b)
    PROVE  size_end(b) \in 1..Len(b)
<1> DEFINE T == {i \in 1..Len(b) : ~continued(b[i])}
<1>1. Len(b) \in Nat
  OBVIOUS
<1>2. T \subseteq Nat /\ T # {}
  BY <1>1 DEF can_deserialize_size
<1>3. PICK n \in T : \A i \in T : n <= i
  BY <1>2, Least
<1>4. n \in 1..Len(b) /\ ~continued(b[n])
  OBVIOUS
<1>5. \A i \in 1..(n - 1) : continued(b[i])
  BY <1>1, <1>3, <1>4
<1> QED BY <1>4, <1>5, SizeEnds

\* Whatever the bytes are, what is read is a number.
LEMMA NumberType ==
    ASSUME NEW b \in Seq(Octet), can_deserialize_size(b)
    PROVE  deserialize_size(b) \in Nat
<1> DEFINE d(i) == b[i] % Radix
           E == {n \in Nat : n <= Len(b) => \E g : Folds(g, b, n)}
<1>1. Len(b) \in Nat
  OBVIOUS
<1>2. \A i \in 1..Len(b) : d(i) \in Nat
  BY <1>1, RadixAssumption DEF Octet
<1>3. 0 \in E
  <2> DEFINE g == [i \in 0..0 |-> 0]
  <2>1. Folds(g, b, 0)
    BY DEF Folds
  <2> QED BY <2>1
<1>4. ASSUME NEW n \in Nat, n \in E
      PROVE  n + 1 \in E
  <2>1. SUFFICES ASSUME n + 1 <= Len(b)
                 PROVE  \E g : Folds(g, b, n + 1)
    OBVIOUS
  <2>2. n <= Len(b)
    BY <1>1, <2>1
  <2>3. PICK g : Folds(g, b, n)
    BY <1>4, <2>2
  <2> DEFINE h == [i \in 0..(n + 1) |-> IF i = n + 1 THEN (g[n] * Radix) + d(i) ELSE g[i]]
  <2>4. /\ g[0] = 0
        /\ \A i \in 1..n : g[i] = (g[i - 1] * Radix) + d(i)
    BY <2>3, FoldSteps
  <2>5. ASSUME NEW i \in 0..(n + 1)
        PROVE  h[i] = IF i = 0 THEN 0 ELSE (h[i - 1] * Radix) + d(i)
    <3> HIDE DEF d
    <3>1. CASE i = 0
      BY <2>4, <3>1
    <3>2. CASE i \in 1..n
      <4>1. i # n + 1 /\ i # 0 /\ i - 1 # n + 1 /\ i - 1 \in 0..(n + 1)
        BY <3>2
      <4>2. h[i] = g[i] /\ h[i - 1] = g[i - 1]
        BY <4>1
      <4> QED BY <2>4, <3>2, <4>1, <4>2
    <3>3. CASE i = n + 1
      <4>1. n # n + 1 /\ n \in 0..(n + 1) /\ i - 1 = n /\ i # 0
        BY <3>3
      <4>2. h[n] = g[n] /\ h[i] = (g[n] * Radix) + d(i)
        BY <3>3, <4>1
      <4> QED BY <4>1, <4>2
    <3> QED BY <3>1, <3>2, <3>3
  <2>6. h = [i \in 0..(n + 1) |-> h[i]]
    BY Zenon
  <2>7. Folds(h, b, n + 1)
    BY <2>5, <2>6 DEF Folds
  <2> QED BY <2>7
<1>5. \A n \in Nat : n \in E
  <2> HIDE DEF E
  <2> QED BY <1>3, <1>4, Induction
<1> DEFINE n == size_end(b)
           g == Folded(b, n)
<1>6. n \in 1..Len(b) /\ n \in Nat
  BY <1>1, SizeEndType
<1>7. Folds(g, b, n)
  <2>1. \E f : Folds(f, b, n)
    BY <1>1, <1>5, <1>6
  <2> QED BY <2>1, Zenon DEF Folded
<1>8. /\ g[0] = 0
      /\ \A i \in 1..n : g[i] = (g[i - 1] * Radix) + d(i)
  BY <1>6, <1>7, FoldSteps
<1> DEFINE V == {k \in Nat : k <= n => g[k] \in Nat}
<1>9. 0 \in V
  BY <1>8
<1>10. ASSUME NEW k \in Nat, k \in V
       PROVE  k + 1 \in V
  <2>1. SUFFICES ASSUME k + 1 <= n
                 PROVE  g[k + 1] \in Nat
    OBVIOUS
  <2>2. k <= n /\ k + 1 \in 1..n /\ (k + 1) - 1 = k /\ k + 1 \in 1..Len(b)
    BY <1>1, <1>6, <2>1
  <2>3. g[k] \in Nat /\ d(k + 1) \in Nat
    BY <1>2, <1>10, <2>2
  <2>4. g[k + 1] = (g[k] * Radix) + d(k + 1)
    BY <1>8, <2>2
  <2> HIDE DEF g, d
  <2> QED BY <2>3, <2>4, RadixAssumption
<1>11. n \in V
  <2> HIDE DEF V
  <2> QED BY <1>6, <1>9, <1>10, Induction
<1>12. g[n] \in Nat
  BY <1>6, <1>11
<1> QED BY <1>12, Folding

\* The size encoding, for every base: a number below the capacity of five bytes is
\* read back as it was written whatever follows it, exactly its bytes are consumed,
\* and deserialize(), which adds bytes until can_deserialize_size, takes no proper
\* prefix for a number (ReadsBack, which SizesReadBack evaluates at base 128).
THEOREM NumbersReadBack ==
    \A value \in Nat, rest \in Seq(Octet) : value < Capacity => ReadsBack(value, rest)
<1> SUFFICES ASSUME NEW value \in Nat, NEW rest \in Seq(Octet), value < Capacity
             PROVE  ReadsBack(value, rest)
  OBVIOUS
<1> DEFINE b == serialize_size(value)
           l == length(value)
<1>1. /\ b \in Seq(Octet) /\ Len(b) = l
      /\ \A i \in 1..l : continued(b[i]) <=> i < l
  BY Encoded
<1>2. l \in 1..5 /\ l \in Nat
  BY Lengths
<1>3. deserialize_size(b \o rest) = value /\ size_end(b \o rest) = l
  <2> DEFINE c == b \o rest
  <2>1. c \in Seq(Octet) /\ Len(c) >= l /\ \A i \in 1..l : c[i] = b[i]
    <3> HIDE DEF b, l
    <3>1. /\ c \in Seq(Octet) /\ Len(c) = Len(b) + Len(rest)
          /\ \A i \in 1..(Len(b) + Len(rest)) :
                c[i] = IF i <= Len(b) THEN b[i] ELSE rest[i - Len(b)]
      BY <1>1, ConcatProperties
    <3>2. Len(rest) \in Nat
      OBVIOUS
    <3> HIDE DEF c
    <3> QED BY <1>1, <1>2, <3>1, <3>2
  <2> HIDE DEF c
  <2> QED BY <2>1, Decoded DEF c
<1>4. ASSUME NEW n \in 0..Len(b)
      PROVE  can_deserialize_size(SubSeq(b, 1, n)) <=> n = Len(b)
  <2> DEFINE s == SubSeq(b, 1, n)
  <2> HIDE DEF b, l
  <2>0. n \in 0..l
    BY <1>1, <1>4
  <2>1. Len(s) = n /\ \A i \in 1..n : s[i] = b[i]
    <3>1. \A i \in 1..n : b[i] \in Octet
      BY <1>1, <1>2, <2>0
    <3>2. /\ s \in Seq(Octet)
          /\ Len(s) = IF 1 <= n THEN n - 1 + 1 ELSE 0
          /\ \A i \in 1..(n - 1 + 1) : s[i] = b[1 + i - 1]
      BY <2>0, <3>1, SubSeqProperties
    <3> HIDE DEF s
    <3> QED BY <1>2, <2>0, <3>2
  <2> HIDE DEF s
  <2>2. can_deserialize_size(s) <=> \E i \in 1..n : ~continued(b[i])
    BY <2>1 DEF can_deserialize_size
  <2>3. (\E i \in 1..n : ~continued(b[i])) <=> n = l
    BY <1>1, <1>2, <2>0
  <2> QED BY <1>1, <2>2, <2>3 DEF s
<1> QED BY <1>1, <1>3, <1>4 DEF ReadsBack

----------------------------------------------------------------------------
(* Sequences.                                                              *)

\* ConcatAssociative, for bytes.
LEMMA Assoc ==
    ASSUME NEW a \in Seq(Octet), NEW b \in Seq(Octet), NEW c \in Seq(Octet)
    PROVE  (a \o b) \o c = a \o (b \o c)
BY ConcatAssociative

\* The first bytes of a sequence.
LEMMA Firsts ==
    ASSUME NEW S, NEW s \in Seq(S), NEW n \in Nat
    PROVE  /\ First(s, n) \in Seq(S)
           /\ Len(First(s, n)) = Min2(n, Len(s))
           /\ \A i \in 1..Len(First(s, n)) : First(s, n)[i] = s[i]
<1> DEFINE m == Min2(n, Len(s))
<1>1. m \in Nat /\ m <= Len(s)
  BY DEF Min2
<1>2. \A i \in 1..m : s[i] \in S
  BY <1>1
<1>3. /\ SubSeq(s, 1, m) \in Seq(S)
      /\ Len(SubSeq(s, 1, m)) = IF 1 <= m THEN m - 1 + 1 ELSE 0
      /\ \A i \in 1..(m - 1 + 1) : SubSeq(s, 1, m)[i] = s[1 + i - 1]
  BY <1>1, <1>2, SubSeqProperties
<1> QED BY <1>1, <1>3 DEF First

\* The bytes after them.
LEMMA Afters ==
    ASSUME NEW S, NEW s \in Seq(S), NEW n \in Nat
    PROVE  /\ After(s, n) \in Seq(S)
           /\ Len(After(s, n)) = Len(s) - Min2(n, Len(s))
           /\ \A i \in 1..Len(After(s, n)) : After(s, n)[i] = s[n + i]
<1> DEFINE l == Len(s)
           t == SubSeq(s, n + 1, l)
<1>1. l \in Nat /\ \A i \in (n + 1)..l : s[i] \in S
  OBVIOUS
<1>2. /\ t \in Seq(S)
      /\ Len(t) = IF n + 1 <= l THEN l - (n + 1) + 1 ELSE 0
      /\ \A i \in 1..(l - (n + 1) + 1) : t[i] = s[(n + 1) + i - 1]
  BY <1>1, SubSeqProperties
<1>3. Len(t) = l - Min2(n, l)
  <2> HIDE DEF l, t
  <2>1. CASE n < l
    BY <1>1, <1>2, <2>1 DEF Min2
  <2>2. CASE ~(n < l)
    BY <1>1, <1>2, <2>2 DEF Min2
  <2> QED BY <2>1, <2>2
<1>4. ASSUME NEW i \in 1..Len(t)
      PROVE  t[i] = s[n + i]
  <2>1. i \in 1..(l - (n + 1) + 1) /\ (n + 1) + i - 1 = n + i
    BY <1>1, <1>2
  <2> QED BY <1>2, <2>1
<1>5. After(s, n) = t
  BY DEF After
<1> QED BY <1>2, <1>3, <1>4, <1>5, Zenon

\* Together they are the sequence.
LEMMA Split ==
    ASSUME NEW S, NEW s \in Seq(S), NEW n \in Nat
    PROVE  First(s, n) \o After(s, n) = s
<1> DEFINE a == First(s, n)
           b == After(s, n)
<1>1. /\ a \in Seq(S) /\ b \in Seq(S) /\ Len(s) \in Nat
      /\ Len(a) = Min2(n, Len(s)) /\ Len(b) = Len(s) - Min2(n, Len(s))
      /\ \A i \in 1..Len(a) : a[i] = s[i]
      /\ \A i \in 1..Len(b) : b[i] = s[n + i]
  BY Firsts, Afters
<1> HIDE DEF a, b
<1>2. /\ a \o b \in Seq(S)
      /\ Len(a \o b) = Len(a) + Len(b)
      /\ \A i \in 1..(Len(a) + Len(b)) : (a \o b)[i] = IF i <= Len(a) THEN a[i] ELSE b[i - Len(a)]
  BY <1>1, ConcatProperties
<1>3. Len(a \o b) = Len(s)
  BY <1>1, <1>2 DEF Min2
<1>4. ASSUME NEW i \in 1..Len(a \o b)
      PROVE  (a \o b)[i] = s[i]
  <2>1. CASE i <= Len(a)
    BY <1>1, <1>2, <2>1
  <2>2. CASE ~(i <= Len(a))
    <3>1. Len(a) = n /\ i - Len(a) \in 1..Len(b) /\ n + (i - Len(a)) = i
      BY <1>1, <1>2, <1>3, <2>2 DEF Min2
    <3> QED BY <1>1, <1>2, <2>2, <3>1
  <2> QED BY <2>1, <2>2
<1> QED BY <1>1, <1>2, <1>3, <1>4, SeqEqual DEF a, b

\* What is written and what is left of it.
LEMMA Written ==
    ASSUME NEW b \in Seq(Octet), Len(b) <= OutSize, NEW x \in Seq(Octet)
    PROVE  /\ write(b, x) \in Seq(Octet) /\ Len(write(b, x)) <= OutSize
           /\ unwritten(b, x) \in Seq(Octet)
           /\ write(b, x) \o unwritten(b, x) = b \o x
           /\ unwritten(b, x) = x => write(b, x) = b
<1> DEFINE n == OutSize - Len(b)
           f == First(x, n)
           a == After(x, n)
<1>1. n \in Nat /\ Len(b) \in Nat
  BY BoundsAssumption
<1>2. f \in Seq(Octet) /\ Len(f) <= n /\ a \in Seq(Octet) /\ f \o a = x
  <2>1. f \in Seq(Octet) /\ Len(f) = Min2(n, Len(x))
    BY <1>1, Firsts
  <2>2. Len(f) <= n
    BY <1>1, <2>1 DEF Min2
  <2>3. a \in Seq(Octet)
    BY <1>1, Afters
  <2>4. f \o a = x
    BY <1>1, Split, Zenon
  <2> QED BY <2>1, <2>2, <2>3, <2>4
<1>3. write(b, x) = b \o f /\ unwritten(b, x) = a
  BY DEF write, unwritten
<1> HIDE DEF f, a
<1>4. b \o f \in Seq(Octet) /\ Len(b \o f) = Len(b) + Len(f)
  BY <1>2, ConcatProperties
<1>5. Len(b \o f) <= OutSize
  BY <1>1, <1>2, <1>4, BoundsAssumption
<1>6. (b \o f) \o a = b \o x
  <2>1. f \in Seq(Octet) /\ a \in Seq(Octet)
    BY <1>2
  <2>2. (b \o f) \o a = b \o (f \o a)
    BY <2>1, Assoc, Zenon
  <2> QED BY <1>2, <2>2
<1>7. a = x => b \o f = b
  <2>1. a = x => f = <<>>
    BY <1>2, ConcatEqualIffEmpty
  <2> QED BY <2>1, ConcatEmptySeq
<1> QED BY <1>2, <1>3, <1>4, <1>5, <1>6, <1>7

----------------------------------------------------------------------------
(* Types.                                                                  *)

\* A send() that waits has taken a message.
Waiting ==
    /\ sender.at = "idle" => sender = Idle
    /\ sender.at # "idle" => sent > 0

\* The array of a receive operation is free.
RoomToReceive == receiving /\ ~committed => Len(inBuffer) + receiveArray <= InSize

\* The inductive invariant of the types.
Typed == TypeOK /\ Waiting /\ RoomToReceive

\* What a message consists of.
LEMMA MessageParts ==
    ASSUME NEW i \in 1..Len(Messages)
    PROVE  LET m == Messages[i]
           IN  /\ m \in Message
               /\ m.type \in Nat /\ m.payload \in Seq(Octet) /\ Len(m.payload) \in Nat
               /\ serialize_size(m.type) \in Seq(Octet)
               /\ Len(serialize_size(m.type)) \in 1..5
               /\ Header(m) \in Seq(Octet)
<1> DEFINE m == Messages[i]
           t == serialize_size(m.type)
           v == Len(m.payload) + Len(t)
<1>1. m \in Message
  BY MessagesAssumption
<1>2. m.type \in Nat /\ m.payload \in Seq(Octet)
  BY <1>1 DEF Message
<1>3. Len(m.payload) \in Nat
  BY <1>2
<1>4. t \in Seq(Octet) /\ Len(t) \in 1..5
  BY <1>2, Encoded, Lengths
<1>5. serialize_size(v) \in Seq(Octet)
  <2>1. v \in Nat
    <3> HIDE DEF m, t
    <3>1. Len(t) \in Nat
      BY <1>4
    <3> QED BY <1>3, <3>1
  <2> HIDE DEF v
  <2> QED BY <2>1, Encoded
<1>6. Header(m) \in Seq(Octet)
  BY <1>4, <1>5, ConcatProperties DEF Header
<1> QED BY <1>1, <1>2, <1>3, <1>4, <1>6

\* The buffers and the waiting of the sending end.
SendTypes ==
    /\ sent \in 0..Len(Messages)
    /\ sender \in [at : {"idle", "header", "payload"}, rest : Seq(Octet)]
    /\ rewrites \in 0..MaxRewrites
    /\ sinceSend \in 0..1 /\ beatWaits \in BOOLEAN /\ beats \in 0..MaxBeats
    /\ mixed \in BOOLEAN
    /\ outBuffer \in Seq(Octet) /\ Len(outBuffer) <= OutSize
    /\ sending \in BOOLEAN /\ sendArray \in 0..OutSize
    /\ Waiting

\* The bytes on the network.
WireTypes == wire \in Seq(Octet) /\ Len(wire) <= WireSize

\* The buffers and the state of the receiving end.
ReceiveTypes ==
    /\ inBuffer \in Seq(Octet) /\ Len(inBuffer) <= InSize
    /\ receiving \in BOOLEAN /\ committed \in BOOLEAN /\ receiveArray \in 0..InSize
    /\ deserializer \in {"off", "size", "payload", "forward", "wait"}
    /\ remaining \in Nat /\ tmpIn \in Seq(Octet)
    /\ RoomToReceive

\* The three parts are the whole.
LEMMA TypedParts == Typed <=> SendTypes /\ WireTypes /\ ReceiveTypes
BY DEF Typed, TypeOK, SendTypes, WireTypes, ReceiveTypes

\* Types after start_async_send_some_data.
LEMMA StartSendType ==
    ASSUME SendTypes, NEW b \in Seq(Octet), Len(b) <= OutSize, StartSend(b)
    PROVE  sending' \in BOOLEAN /\ sendArray' \in 0..OutSize
<1>1. Len(b) \in 0..OutSize
  BY BoundsAssumption
<1> QED BY <1>1 DEF StartSend, SendTypes

\* Types after the second half of send().
LEMMA SendPayloadType ==
    ASSUME SendTypes, NEW i \in 1..Len(Messages), NEW b \in Seq(Octet), Len(b) <= OutSize,
           SendPayload(Messages[i], b), sent' > 0
    PROVE  /\ outBuffer' \in Seq(Octet) /\ Len(outBuffer') <= OutSize
           /\ sending' \in BOOLEAN /\ sendArray' \in 0..OutSize
           /\ sender' \in [at : {"idle", "header", "payload"}, rest : Seq(Octet)]
           /\ Waiting'
<1> DEFINE m == Messages[i]
<1>1. m.payload \in Seq(Octet)
  BY MessageParts
<1>2. /\ write(b, m.payload) \in Seq(Octet) /\ Len(write(b, m.payload)) <= OutSize
      /\ unwritten(b, m.payload) \in Seq(Octet)
  BY <1>1, Written
<1>3. /\ outBuffer' = write(b, m.payload)
      /\ StartSend(outBuffer')
      /\ sender' = IF unwritten(b, m.payload) = <<>> THEN Idle
                   ELSE [at |-> "payload", rest |-> unwritten(b, m.payload)]
  BY DEF SendPayload
<1>4. sending' \in BOOLEAN /\ sendArray' \in 0..OutSize
  BY <1>2, <1>3, StartSendType
<1>5. /\ sender' \in [at : {"idle", "header", "payload"}, rest : Seq(Octet)]
      /\ sender'.at = "idle" => sender' = Idle
  BY <1>2, <1>3 DEF Idle
<1> QED BY <1>2, <1>3, <1>4, <1>5 DEF Waiting

\* The steps of the sending end keep its types.
LEMMA SendTyped == ASSUME SendTypes, Send PROVE SendTypes'
<1> DEFINE i == sent + 1
           m == Messages[i]
           h == Header(m)
           b == write(outBuffer, h)
           rest == unwritten(outBuffer, h)
<1>1. /\ sent' = i /\ i \in 1..Len(Messages) /\ sent' > 0 /\ sent' \in 0..Len(Messages)
      /\ \/ rest = <<>> /\ SendPayload(m, b)
         \/ /\ rest # <<>> /\ outBuffer' = b /\ StartSend(outBuffer')
            /\ sender' = [at |-> "header", rest |-> rest]
      /\ UNCHANGED <<rewrites, sinceSend, beatWaits, beats, mixed>>
  <2>1. Len(Messages) \in Nat
    BY MessagesAssumption
  <2> QED BY <2>1 DEF Send, SendTypes
<1>2. h \in Seq(Octet)
  BY <1>1, MessageParts
<1>3. b \in Seq(Octet) /\ Len(b) <= OutSize /\ rest \in Seq(Octet)
  BY <1>2, Written DEF SendTypes
<1>4. CASE SendPayload(m, b)
  <2> HIDE DEF b, i
  <2>1. /\ outBuffer' \in Seq(Octet) /\ Len(outBuffer') <= OutSize
        /\ sending' \in BOOLEAN /\ sendArray' \in 0..OutSize
        /\ sender' \in [at : {"idle", "header", "payload"}, rest : Seq(Octet)]
        /\ Waiting'
    BY <1>1, <1>3, <1>4, SendPayloadType
  <2> QED BY <1>1, <2>1 DEF SendTypes
<1>5. CASE /\ outBuffer' = b /\ StartSend(outBuffer')
           /\ sender' = [at |-> "header", rest |-> rest]
  <2> HIDE DEF b, i, rest
  <2>1. sending' \in BOOLEAN /\ sendArray' \in 0..OutSize
    BY <1>3, <1>5, StartSendType
  <2>2. Waiting'
    BY <1>1, <1>5 DEF Waiting
  <2> QED BY <1>1, <1>3, <1>5, <2>1, <2>2 DEF SendTypes
<1> QED BY <1>1, <1>4, <1>5

\* A wakeup that writes a part.
LEMMA WakeTooEarlyTyped == ASSUME SendTypes, WakeTooEarly PROVE SendTypes'
<1>1. sender.rest \in Seq(Octet)
  BY DEF SendTypes
<1>2. outBuffer' \in Seq(Octet) /\ Len(outBuffer') <= OutSize
  BY <1>1, Written DEF SendTypes, WakeTooEarly
<1>3. rewrites' \in 0..MaxRewrites
  BY BoundsAssumption DEF SendTypes, WakeTooEarly
<1> QED BY <1>2, <1>3 DEF SendTypes, WakeTooEarly, Waiting

\* A wakeup that finishes the header.
LEMMA WakeInHeaderTyped == ASSUME SendTypes, WakeInHeader PROVE SendTypes'
<1> DEFINE b == write(outBuffer, sender.rest)
<1>1. /\ sent' = sent /\ sent > 0 /\ sent \in 0..Len(Messages)
      /\ SendPayload(Messages[sent], b)
      /\ UNCHANGED <<rewrites, sinceSend, beatWaits, beats, mixed>>
  BY DEF WakeInHeader, SendTypes, Waiting
<1>2. sent \in 1..Len(Messages)
  BY <1>1
<1>3. b \in Seq(Octet) /\ Len(b) <= OutSize
  BY Written DEF SendTypes
<1> HIDE DEF b
<1>4. /\ outBuffer' \in Seq(Octet) /\ Len(outBuffer') <= OutSize
      /\ sending' \in BOOLEAN /\ sendArray' \in 0..OutSize
      /\ sender' \in [at : {"idle", "header", "payload"}, rest : Seq(Octet)]
      /\ Waiting'
  BY <1>1, <1>2, <1>3, SendPayloadType
<1> QED BY <1>1, <1>4 DEF SendTypes

\* A wakeup that finishes the payload.
LEMMA WakeInPayloadTyped == ASSUME SendTypes, WakeInPayload PROVE SendTypes'
<1>1. outBuffer' \in Seq(Octet) /\ Len(outBuffer') <= OutSize
  BY Written DEF SendTypes, WakeInPayload
<1>2. /\ sender' \in [at : {"idle", "header", "payload"}, rest : Seq(Octet)]
      /\ Waiting'
  BY DEF WakeInPayload, Idle, Waiting
<1> QED BY <1>1, <1>2 DEF SendTypes, WakeInPayload

\* Writing a heartbeat.
LEMMA BeatWritten ==
    ASSUME SendTypes
    PROVE  /\ Heartbeat \in Seq(Octet)
           /\ write(outBuffer, Heartbeat) \in Seq(Octet)
           /\ Len(write(outBuffer, Heartbeat)) <= OutSize
<1>1. Heartbeat \in Seq(Octet)
  BY RadixAssumption DEF Heartbeat, Octet
<1> QED BY <1>1, Written DEF SendTypes

\* The timer.
LEMMA OnTimeoutTyped == ASSUME SendTypes, OnTimeout PROVE SendTypes'
<1>1. UNCHANGED <<sent, sender, rewrites>> /\ beats < MaxBeats
  BY DEF OnTimeout
<1>2. Waiting'
  BY <1>1 DEF SendTypes, Waiting
<1>3. CASE /\ sinceSend' = 1
           /\ UNCHANGED <<beats, mixed, outBuffer, sending, sendArray, beatWaits>>
  BY <1>1, <1>2, <1>3 DEF SendTypes
<1>4. CASE /\ beats' = beats + 1
           /\ outBuffer' = write(outBuffer, Heartbeat)
           /\ StartSend(outBuffer')
           /\ beatWaits' = (unwritten(outBuffer, Heartbeat) # <<>>)
           /\ mixed' = (mixed \/ (sender # Idle /\ ~beatWaits'))
           /\ UNCHANGED sinceSend
  <2>1. outBuffer' \in Seq(Octet) /\ Len(outBuffer') <= OutSize
    BY <1>4, BeatWritten
  <2>2. sending' \in BOOLEAN /\ sendArray' \in 0..OutSize
    BY <1>4, <2>1, StartSendType
  <2>3. beats' \in 0..MaxBeats
    BY <1>1, <1>4, BoundsAssumption DEF SendTypes
  <2>4. beatWaits' \in BOOLEAN /\ mixed' \in BOOLEAN
    BY <1>4
  <2> QED BY <1>1, <1>2, <1>4, <2>1, <2>2, <2>3, <2>4 DEF SendTypes
<1> QED BY <1>3, <1>4 DEF OnTimeout

\* A wakeup of the heartbeat.
LEMMA WakeInHeartbeatTyped == ASSUME SendTypes, WakeInHeartbeat PROVE SendTypes'
<1>1. outBuffer' \in Seq(Octet) /\ Len(outBuffer') <= OutSize
  BY BeatWritten DEF WakeInHeartbeat
<1>2. beatWaits' \in BOOLEAN /\ mixed' \in BOOLEAN
  BY DEF WakeInHeartbeat
<1> QED BY <1>1, <1>2 DEF SendTypes, WakeInHeartbeat, Waiting

\* The socket takes bytes.
LEMMA OnSendCompletedTyped ==
    ASSUME SendTypes, WireTypes, NEW n \in 1..OutSize, OnSendCompleted(n)
    PROVE  SendTypes' /\ WireTypes'
<1> DEFINE f == First(outBuffer, n)
           a == After(outBuffer, n)
<1>1. /\ f \in Seq(Octet) /\ Len(f) = Min2(n, Len(outBuffer))
      /\ a \in Seq(Octet) /\ Len(a) = Len(outBuffer) - Min2(n, Len(outBuffer))
  BY Firsts, Afters, BoundsAssumption DEF SendTypes
<1>2. Len(outBuffer) \in Nat /\ Len(outBuffer) <= OutSize
  BY DEF SendTypes
<1>3. Len(f) <= n /\ Len(a) <= OutSize /\ Len(f) \in Nat /\ Len(a) \in Nat
  <2> HIDE DEF f, a
  <2> QED BY <1>1, <1>2, BoundsAssumption DEF Min2
<1>4. /\ wire' = wire \o f /\ outBuffer' = a /\ sinceSend' = 0
      /\ sending' = (outBuffer' # <<>>) /\ sendArray' = Len(outBuffer')
      /\ Len(wire) + n <= WireSize
      /\ UNCHANGED <<sent, sender, rewrites, beatWaits, beats, mixed>>
  BY DEF OnSendCompleted
<1> HIDE DEF f, a
<1>5. wire \o f \in Seq(Octet) /\ Len(wire \o f) = Len(wire) + Len(f)
  BY <1>1, ConcatProperties DEF WireTypes
<1>6. WireTypes'
  <2>1. Len(wire) \in Nat
    BY DEF WireTypes
  <2> QED BY <1>3, <1>4, <1>5, <2>1, BoundsAssumption DEF WireTypes
<1>7. sendArray' \in 0..OutSize
  BY <1>3, <1>4, BoundsAssumption
<1>8. Waiting'
  BY <1>4 DEF SendTypes, Waiting
<1> QED BY <1>1, <1>3, <1>4, <1>6, <1>7, <1>8 DEF SendTypes

\* The socket delivers bytes: there is room for them, because deserialize() only
\* takes bytes from the buffer while the receive is under way.
LEMMA OnReceiveCompletedTyped ==
    ASSUME WireTypes, ReceiveTypes, NEW n \in 0..InSize, OnReceiveCompleted(n)
    PROVE  WireTypes' /\ ReceiveTypes'
<1> DEFINE f == First(wire, n)
           a == After(wire, n)
<1>1. /\ f \in Seq(Octet) /\ Len(f) = Min2(n, Len(wire))
      /\ a \in Seq(Octet) /\ Len(a) = Len(wire) - Min2(n, Len(wire))
  BY Firsts, Afters, BoundsAssumption DEF WireTypes
<1>2. Len(wire) \in Nat /\ Len(wire) <= WireSize /\ Len(inBuffer) \in Nat
  BY DEF WireTypes, ReceiveTypes
<1>3. Len(f) <= n /\ Len(a) <= WireSize /\ Len(f) \in Nat
  <2> HIDE DEF f, a
  <2> QED BY <1>1, <1>2, BoundsAssumption DEF Min2
<1>4. /\ wire' = a /\ inBuffer' = inBuffer \o f /\ committed' = TRUE
      /\ receiving /\ ~committed /\ n <= receiveArray
      /\ deserializer' = IF deserializer = "off" THEN Begin ELSE deserializer
      /\ UNCHANGED <<receiving, receiveArray, remaining, tmpIn>>
  BY DEF OnReceiveCompleted
<1> HIDE DEF f, a
<1>5. inBuffer \o f \in Seq(Octet) /\ Len(inBuffer \o f) = Len(inBuffer) + Len(f)
  BY <1>1, ConcatProperties DEF ReceiveTypes
<1>6. Len(inBuffer') <= InSize
  BY <1>2, <1>3, <1>4, <1>5, BoundsAssumption DEF ReceiveTypes, RoomToReceive
<1>7. WireTypes'
  BY <1>1, <1>3, <1>4 DEF WireTypes
<1>8. deserializer' \in {"off", "size", "payload", "forward", "wait"}
  BY <1>4 DEF ReceiveTypes, Begin
<1>9. RoomToReceive'
  BY <1>4 DEF RoomToReceive
<1> QED BY <1>4, <1>5, <1>6, <1>7, <1>8, <1>9 DEF ReceiveTypes

\* The next receive is given the free space.
LEMMA ReceiveAgainTyped == ASSUME ReceiveTypes, ReceiveAgain PROVE ReceiveTypes'
<1>1. Len(inBuffer) \in Nat /\ Len(inBuffer) <= InSize
  BY DEF ReceiveTypes
<1>2. receiving' \in BOOLEAN /\ committed' \in BOOLEAN
  <2>1. committed' \in BOOLEAN
    BY Zenon DEF ReceiveAgain
  <2>2. receiving' = (Len(inBuffer) < InSize)
    BY DEF ReceiveAgain
  <2>3. receiving' \in BOOLEAN
    BY <2>2
  <2> QED BY <2>1, <2>3
<1>3. /\ receiveArray' = InSize - Len(inBuffer)
      /\ UNCHANGED <<inBuffer, deserializer, remaining, tmpIn>>
  BY DEF ReceiveAgain
<1>4. RoomToReceive'
  BY <1>1, <1>3, BoundsAssumption DEF RoomToReceive
<1>5. receiveArray' \in 0..InSize
  BY <1>1, <1>3, BoundsAssumption
<1> QED BY <1>2, <1>3, <1>4, <1>5 DEF ReceiveTypes

\* What deserialize() takes from the buffer makes room.
LEMMA BufferShrinks ==
    ASSUME ReceiveTypes, inBuffer' \in Seq(Octet), Len(inBuffer') <= Len(inBuffer),
           UNCHANGED <<receiving, receiveArray, committed>>
    PROVE  /\ Len(inBuffer') <= InSize /\ RoomToReceive'
           /\ receiving' \in BOOLEAN /\ committed' \in BOOLEAN /\ receiveArray' \in 0..InSize
<1>1. Len(inBuffer) \in Nat /\ Len(inBuffer') \in Nat
  BY DEF ReceiveTypes
<1>2. Len(inBuffer') <= InSize
  BY <1>1, BoundsAssumption DEF ReceiveTypes
<1>3. RoomToReceive'
  BY <1>1, BoundsAssumption DEF ReceiveTypes, RoomToReceive
<1> QED BY <1>2, <1>3 DEF ReceiveTypes

\* A byte of a size is read.
LEMMA ReadSizeTyped == ASSUME ReceiveTypes, ReadSize PROVE ReceiveTypes'
<1> DEFINE bytes == Append(tmpIn, Head(inBuffer))
<1>1. /\ inBuffer # <<>> /\ inBuffer' = Tail(inBuffer)
      /\ UNCHANGED <<receiving, receiveArray, committed>>
      /\ \/ /\ can_deserialize_size(bytes)
            /\ remaining' = deserialize_size(bytes) /\ tmpIn' = <<>>
            /\ deserializer' \in {"size", "payload"}
         \/ tmpIn' = bytes /\ UNCHANGED <<remaining, deserializer>>
  BY DEF ReadSize
<1>2. /\ Head(inBuffer) \in Octet /\ inBuffer' \in Seq(Octet)
      /\ Len(inBuffer') = Len(inBuffer) - 1 /\ Len(inBuffer) \in Nat
  BY <1>1, HeadTailProperties DEF ReceiveTypes
<1>3. bytes \in Seq(Octet)
  BY <1>2, AppendProperties DEF ReceiveTypes
<1>4. /\ Len(inBuffer') <= InSize /\ RoomToReceive'
      /\ receiving' \in BOOLEAN /\ committed' \in BOOLEAN /\ receiveArray' \in 0..InSize
  BY <1>1, <1>2, BufferShrinks
<1>5. /\ remaining' \in Nat /\ tmpIn' \in Seq(Octet)
      /\ deserializer' \in {"off", "size", "payload", "forward", "wait"}
  <2>1. can_deserialize_size(bytes) => deserialize_size(bytes) \in Nat
    BY <1>3, NumberType
  <2> HIDE DEF bytes
  <2>2. CASE /\ can_deserialize_size(bytes)
             /\ remaining' = deserialize_size(bytes) /\ tmpIn' = <<>>
             /\ deserializer' \in {"size", "payload"}
    BY <2>1, <2>2
  <2>3. CASE tmpIn' = bytes /\ UNCHANGED <<remaining, deserializer>>
    BY <1>3, <2>3 DEF ReceiveTypes
  <2> QED BY <1>1, <2>2, <2>3
<1> QED BY <1>2, <1>4, <1>5 DEF ReceiveTypes

\* A part of a message is read.
LEMMA ReadPayloadTyped == ASSUME ReceiveTypes, ReadPayload PROVE ReceiveTypes'
<1> DEFINE k == Min2(remaining, Len(inBuffer))
           f == First(inBuffer, remaining)
           a == After(inBuffer, k)
<1>1. remaining \in Nat /\ Len(inBuffer) \in Nat /\ inBuffer \in Seq(Octet)
  BY DEF ReceiveTypes
<1>2. k \in Nat /\ k <= remaining /\ k <= Len(inBuffer)
  BY <1>1 DEF Min2
<1>3. f \in Seq(Octet)
  BY <1>1, Firsts
<1>4. a \in Seq(Octet) /\ Len(a) = Len(inBuffer) - Min2(k, Len(inBuffer))
  <2> HIDE DEF k
  <2> QED BY <1>1, <1>2, Afters
<1>5. /\ tmpIn' = tmpIn \o f /\ inBuffer' = a /\ remaining' = remaining - k
      /\ deserializer' \in {"forward", "wait"}
      /\ UNCHANGED <<receiving, receiveArray, committed>>
  BY DEF ReadPayload
<1> HIDE DEF k, f, a
<1>6. tmpIn' \in Seq(Octet)
  BY <1>3, <1>5, ConcatProperties DEF ReceiveTypes
<1>7. Len(inBuffer') <= Len(inBuffer)
  BY <1>1, <1>2, <1>4, <1>5 DEF Min2
<1>8. /\ Len(inBuffer') <= InSize /\ RoomToReceive'
      /\ receiving' \in BOOLEAN /\ committed' \in BOOLEAN /\ receiveArray' \in 0..InSize
  BY <1>4, <1>5, <1>7, BufferShrinks
<1>9. remaining' \in Nat
  BY <1>1, <1>2, <1>5
<1> QED BY <1>4, <1>5, <1>6, <1>8, <1>9 DEF ReceiveTypes

\* deserialize() stops.
LEMMA WaitTyped == ASSUME ReceiveTypes, wait_for_more_data PROVE ReceiveTypes'
<1>1. Len(inBuffer) \in Nat /\ Len(inBuffer) <= InSize
  BY DEF ReceiveTypes
<1>2. receiveArray' \in 0..InSize /\ receiving' \in BOOLEAN
  BY <1>1, BoundsAssumption DEF ReceiveTypes, wait_for_more_data, StartReceive
<1>3. RoomToReceive'
  BY <1>1, BoundsAssumption DEF ReceiveTypes, wait_for_more_data, StartReceive, RoomToReceive
<1>4. deserializer' \in {"off", "size", "payload", "forward", "wait"}
  BY DEF wait_for_more_data, Begin
<1> QED BY <1>2, <1>3, <1>4 DEF ReceiveTypes, wait_for_more_data

\* Types depend on the variables only.
LEMMA SameTypes ==
    /\ SendTypes /\ UNCHANGED sendVars => SendTypes'
    /\ WireTypes /\ UNCHANGED wire => WireTypes'
    /\ ReceiveTypes /\ UNCHANGED receiveVars => ReceiveTypes'
<1>1. SendTypes /\ UNCHANGED sendVars => SendTypes'
  BY DEF SendTypes, sendVars, Waiting
<1>2. WireTypes /\ UNCHANGED wire => WireTypes'
  BY DEF WireTypes
<1>3. ReceiveTypes /\ UNCHANGED receiveVars => ReceiveTypes'
  BY DEF ReceiveTypes, receiveVars, RoomToReceive
<1> QED BY <1>1, <1>2, <1>3

\* Every step keeps the types.
LEMMA TypedStep == ASSUME Typed, [Next]_vars PROVE Typed'
<1>0. SendTypes /\ WireTypes /\ ReceiveTypes
  BY TypedParts
<1> SUFFICES SendTypes' /\ WireTypes' /\ ReceiveTypes'
  BY TypedParts, PTL
<1>1. CASE Send
  BY <1>0, <1>1, SendTyped, SameTypes DEF Send
<1>2. CASE WakeTooEarly
  BY <1>0, <1>2, WakeTooEarlyTyped, SameTypes DEF WakeTooEarly
<1>3. CASE WakeInHeader
  BY <1>0, <1>3, WakeInHeaderTyped, SameTypes DEF WakeInHeader
<1>4. CASE WakeInPayload
  BY <1>0, <1>4, WakeInPayloadTyped, SameTypes DEF WakeInPayload
<1>5. CASE OnTimeout
  BY <1>0, <1>5, OnTimeoutTyped, SameTypes DEF OnTimeout
<1>6. CASE WakeInHeartbeat
  BY <1>0, <1>6, WakeInHeartbeatTyped, SameTypes DEF WakeInHeartbeat
<1>7. CASE \E n \in 1..OutSize : OnSendCompleted(n)
  BY <1>0, <1>7, OnSendCompletedTyped, SameTypes DEF OnSendCompleted
<1>8. CASE \E n \in 0..InSize : OnReceiveCompleted(n)
  BY <1>0, <1>8, OnReceiveCompletedTyped, SameTypes DEF OnReceiveCompleted
<1>9. CASE ReceiveAgain
  BY <1>0, <1>9, ReceiveAgainTyped, SameTypes DEF ReceiveAgain
<1>10. CASE ReadSize
  BY <1>0, <1>10, ReadSizeTyped, SameTypes DEF ReadSize
<1>11. CASE ReadSizeEmpty
  <2>1. ReceiveTypes'
    BY <1>0, <1>11 DEF ReadSizeEmpty, ReceiveTypes, RoomToReceive
  <2> QED BY <1>0, <1>11, <2>1, SameTypes DEF ReadSizeEmpty
<1>12. CASE ReadPayload
  BY <1>0, <1>12, ReadPayloadTyped, SameTypes DEF ReadPayload
<1>13. CASE Forward
  <2>1. ReceiveTypes'
    BY <1>0, <1>13 DEF Forward, ReceiveTypes, RoomToReceive
  <2> QED BY <1>0, <1>13, <2>1, SameTypes DEF Forward
<1>14. CASE wait_for_more_data
  BY <1>0, <1>14, WaitTyped, SameTypes DEF wait_for_more_data
<1>15. CASE UNCHANGED vars
  BY <1>0, <1>15, SameTypes DEF vars
<1> QED
  BY <1>1, <1>2, <1>3, <1>4, <1>5, <1>6, <1>7, <1>8, <1>9, <1>10, <1>11, <1>12,
     <1>13, <1>14, <1>15 DEF Next, Deserialize

\* They hold at the start.
LEMMA TypedInit == ASSUME Init PROVE Typed
<1>1. Len(Messages) \in Nat
  BY MessagesAssumption
<1>2. /\ sent = 0 /\ sender = [at |-> "idle", rest |-> <<>>] /\ rewrites = 0
      /\ sinceSend = 0 /\ beats = 0 /\ outBuffer = <<>> /\ sendArray = 0 /\ wire = <<>>
      /\ inBuffer = <<>> /\ receiveArray = InSize
      /\ deserializer = "off" /\ remaining = 0 /\ tmpIn = <<>>
  BY DEF Init, Idle
<1>3. /\ beatWaits \in BOOLEAN /\ mixed \in BOOLEAN /\ sending \in BOOLEAN
      /\ receiving \in BOOLEAN /\ committed \in BOOLEAN
  BY Zenon DEF Init
<1>4. <<>> \in Seq(Octet) /\ Len(<<>>) = 0
  BY EmptySeq
<1>5. SendTypes
  BY <1>1, <1>2, <1>3, <1>4, BoundsAssumption DEF SendTypes, Waiting, Idle
<1>6. WireTypes
  BY <1>2, <1>4, BoundsAssumption DEF WireTypes
<1>7. ReceiveTypes
  BY <1>2, <1>3, <1>4, BoundsAssumption DEF ReceiveTypes, RoomToReceive
<1> QED BY <1>5, <1>6, <1>7, TypedParts

\* What the variables of a TCP connection hold; in particular neither ring buffer
\* is ever given more than fits (TypeOK), whatever is sent and however the socket
\* takes and delivers it.
THEOREM TypeCorrect == Spec => []TypeOK
<1>1. Init => Typed
  BY TypedInit
<1>2. Typed /\ [Next]_vars => Typed'
  BY TypedStep
<1>3. Typed => TypeOK
  BY DEF Typed
<1> QED BY <1>1, <1>2, <1>3, PTL DEF Spec

----------------------------------------------------------------------------
(* What the bytes on their way mean.  A tape has all bytes that were ever  *)
(* written; cut[j] of them, for j in 0..n, make up the first j frames,     *)
(* among which are cnt[j] messages.                                        *)

\* A tape with its cuts and counts.
IsTape(tape, cut, cnt, n) ==
    /\ tape \in [Nat -> Octet] /\ cut \in [Nat -> Nat] /\ cnt \in [Nat -> Nat] /\ n \in Nat

\* A sequence of bytes.
IsBytes(x) == x \in Seq(Octet)

\* The size that send() writes before a message, and the message on the wire.
SizeOf(m) == Len(m.payload) + Len(serialize_size(m.type))
Code(m)   == Header(m) \o m.payload

\* The bytes a + 1 .. a + Len(x) of the tape are x.
On(tape, a, x) == \A i \in 1..Len(x) : tape[a + i] = x[i]

\* Frame j + 1 is a heartbeat,
IsBeat(tape, cut, cnt, j) ==
    cnt[j + 1] = cnt[j] /\ cut[j + 1] = cut[j] + 1 /\ On(tape, cut[j], Heartbeat)

\* or the next message.
IsMessage(tape, cut, cnt, j) ==
    /\ cnt[j + 1] = cnt[j] + 1 /\ cnt[j + 1] \in 1..Len(Messages)
    /\ cut[j + 1] = cut[j] + Len(Code(Messages[cnt[j + 1]]))
    /\ On(tape, cut[j], Code(Messages[cnt[j + 1]]))

\* The tape consists of heartbeats and of the messages sent, in their order.
Layout(tape, cut, cnt, n) ==
    /\ \A j \in 0..n : cut[j] <= cut[n] /\ cnt[j] <= cnt[n]
    /\ \A j \in Nat : j < n => IsBeat(tape, cut, cnt, j) \/ IsMessage(tape, cut, cnt, j)

\* Of which the last ones, from rd on, are still to be read.
Carries(tape, cut, n, rd, unread) == cut[n] = rd + Len(unread) /\ On(tape, rd, unread)

\* deserialize() is at byte rd, in frame k + 1, and has delivered the messages of
\* the first k frames: it reads a size,
InSizeOf(tape, cut, cnt, n, k, rd, d, rem, tmp) ==
    /\ d \notin {"payload", "forward"} /\ rem = 0
    /\ rd = cut[k] + Len(tmp) /\ On(tape, cut[k], tmp)
    /\ tmp # <<>> => /\ k < n /\ IsMessage(tape, cut, cnt, k)
                     /\ Len(tmp) < Len(serialize_size(SizeOf(Messages[cnt[k + 1]])))

\* or the rest of a message.
InContentOf(tape, cut, cnt, n, k, rd, d, rem, tmp) ==
    /\ d # "size"
    /\ d = "forward" <=> rem = 0
    /\ k < n /\ IsMessage(tape, cut, cnt, k)
    /\ LET start == cut[k] + Len(serialize_size(SizeOf(Messages[cnt[k + 1]])))
       IN  /\ rd = start + Len(tmp) /\ On(tape, start, tmp)
           /\ rd + rem = cut[k + 1]

\* The state of the reader after the first k frames.
Reads(tape, cut, cnt, n, k, rd, d, rem, tmp, del) ==
    /\ k <= n
    /\ del \in Seq(Message) /\ Len(del) = cnt[k]
    /\ \A i \in 1..Len(del) : del[i] = Messages[i]
    /\ \/ InSizeOf(tape, cut, cnt, n, k, rd, d, rem, tmp)
       \/ InContentOf(tape, cut, cnt, n, k, rd, d, rem, tmp)

\* The bytes that send() has still to write, and all bytes still to be read.
Pending == sender.rest \o (IF sender.at = "header" THEN Messages[sent].payload ELSE <<>>)
Unread  == inBuffer \o (wire \o (outBuffer \o Pending))

\* The bytes that were ever written are such a tape; it has the messages sent, ends
\* with the bytes still to be read, and the reader is somewhere on it.
Framed ==
    \E tape, cut, cnt, n, k, rd :
        /\ IsTape(tape, cut, cnt, n) /\ k \in Nat /\ rd \in Nat
        /\ Layout(tape, cut, cnt, n) /\ cnt[n] = sent /\ Carries(tape, cut, n, rd, Unread)
        /\ Reads(tape, cut, cnt, n, k, rd, deserializer, remaining, tmpIn, delivered)

\* The inductive invariant, as long as no waiting send() was disturbed.
FInv == Typed /\ (rewrites = 0 /\ ~mixed => Framed)

----------------------------------------------------------------------------
(* The frames.                                                             *)

\* The message on the wire is its size and that many bytes.
LEMMA CodeParts ==
    ASSUME NEW i \in 1..Len(Messages)
    PROVE  LET m == Messages[i]
               s == serialize_size(SizeOf(m))
               c == serialize_size(m.type) \o m.payload
           IN  /\ SizeOf(m) \in Nat \ {0} /\ SizeOf(m) < Capacity
               /\ s \in Seq(Octet) /\ Len(s) = length(SizeOf(m)) /\ Len(s) \in 1..5
               /\ c \in Seq(Octet) /\ Len(c) = SizeOf(m)
               /\ Code(m) \in Seq(Octet) /\ Code(m) = s \o c
               /\ Len(Code(m)) = Len(s) + SizeOf(m)
<1> DEFINE m == Messages[i]
           t == serialize_size(m.type)
           p == m.payload
           v == SizeOf(m)
           s == serialize_size(v)
           c == t \o p
<1>1. /\ p \in Seq(Octet) /\ Len(p) \in Nat /\ t \in Seq(Octet) /\ Len(t) \in 1..5
  BY MessageParts
<1>2. v = Len(p) + Len(t)
  BY DEF SizeOf
<1>3. v < Capacity
  BY SizesAssumption DEF SizeOf
<1>4. Header(m) = s \o t
  BY DEF Header, SizeOf
<1> HIDE DEF m, p, t, v
<1>5. v \in Nat \ {0}
  BY <1>1, <1>2
<1>6. s \in Seq(Octet) /\ Len(s) = length(v) /\ Len(s) \in 1..5
  BY <1>5, Encoded, Lengths
<1> HIDE DEF s
<1>7. c \in Seq(Octet) /\ Len(c) = Len(t) + Len(p)
  BY <1>1, ConcatProperties
<1>8. Len(c) = v
  BY <1>1, <1>2, <1>7
<1>9. (s \o t) \o p = s \o c
  BY <1>1, <1>6, Assoc, Zenon
<1>10. s \o c \in Seq(Octet) /\ Len(s \o c) = Len(s) + Len(c)
  <2> HIDE DEF c
  <2> QED BY <1>6, <1>7, ConcatProperties
<1>11. Code(m) = s \o c
  BY <1>4, <1>9 DEF Code, p
<1> QED BY <1>3, <1>5, <1>6, <1>7, <1>8, <1>10, <1>11 DEF m, t, p, s, v

\* Two sequences one behind the other.
LEMMA OnConcat ==
    ASSUME NEW tape, NEW a \in Nat, NEW x \in Seq(Octet), NEW y \in Seq(Octet)
    PROVE  On(tape, a, x \o y) <=> On(tape, a, x) /\ On(tape, a + Len(x), y)
<1>1. /\ x \o y \in Seq(Octet) /\ Len(x) \in Nat /\ Len(y) \in Nat
      /\ Len(x \o y) = Len(x) + Len(y)
      /\ \A i \in 1..(Len(x) + Len(y)) :
            (x \o y)[i] = IF i <= Len(x) THEN x[i] ELSE y[i - Len(x)]
  BY ConcatProperties
<1>2. ASSUME On(tape, a, x \o y)
      PROVE  On(tape, a, x) /\ On(tape, a + Len(x), y)
  <2>1. ASSUME NEW i \in 1..Len(x)
        PROVE  tape[a + i] = x[i]
    <3>1. i \in 1..(Len(x) + Len(y)) /\ i <= Len(x)
      BY <1>1
    <3> QED BY <1>1, <1>2, <3>1 DEF On
  <2>2. ASSUME NEW i \in 1..Len(y)
        PROVE  tape[(a + Len(x)) + i] = y[i]
    <3> DEFINE j == Len(x) + i
    <3>1. j \in 1..(Len(x) + Len(y)) /\ ~(j <= Len(x)) /\ j - Len(x) = i
          /\ a + j = (a + Len(x)) + i
      BY <1>1
    <3>2. tape[a + j] = (x \o y)[j]
      BY <1>1, <1>2, <3>1 DEF On
    <3>3. (x \o y)[j] = y[j - Len(x)]
      BY <1>1, <3>1
    <3> HIDE DEF j
    <3> QED BY <3>1, <3>2, <3>3
  <2> QED BY <2>1, <2>2 DEF On
<1>3. ASSUME On(tape, a, x), On(tape, a + Len(x), y)
      PROVE  On(tape, a, x \o y)
  <2>1. ASSUME NEW i \in 1..(Len(x) + Len(y))
        PROVE  tape[a + i] = (x \o y)[i]
    <3>1. CASE i <= Len(x)
      <4>1. i \in 1..Len(x)
        BY <1>1, <3>1
      <4> QED BY <1>1, <1>3, <3>1, <4>1 DEF On
    <3>2. CASE ~(i <= Len(x))
      <4>1. i - Len(x) \in 1..Len(y) /\ (a + Len(x)) + (i - Len(x)) = a + i
        BY <1>1, <3>2
      <4>2. tape[(a + Len(x)) + (i - Len(x))] = y[i - Len(x)]
        BY <1>3, <4>1 DEF On
      <4> QED BY <1>1, <3>2, <4>1, <4>2
    <3> QED BY <3>1, <3>2
  <2> QED BY <1>1, <2>1 DEF On
<1> QED BY <1>2, <1>3

\* Two sequences on the same place of the tape.
LEMMA OnSame ==
    ASSUME NEW tape, NEW a \in Nat, NEW x \in Seq(Octet), NEW y \in Seq(Octet),
           On(tape, a, x), On(tape, a, y), Len(x) = Len(y)
    PROVE  x = y
<1>1. \A i \in 1..Len(x) : x[i] = y[i]
  BY DEF On
<1> QED BY <1>1, SeqEqual

\* The bytes x are a heartbeat, or the message after the first l, which makes c.
NextFrame(x, l, c) ==
    \/ x = Heartbeat /\ c = l
    \/ c = l + 1 /\ c \in 1..Len(Messages) /\ x = Code(Messages[c])

\* Types of a tape.
LEMMA TapeParts ==
    ASSUME NEW tape, NEW cut, NEW cnt, NEW n, IsTape(tape, cut, cnt, n)
    PROVE  /\ n \in Nat /\ \A j \in Nat : cut[j] \in Nat /\ cnt[j] \in Nat
BY DEF IsTape

\* The length of a sequence of bytes.
LEMMA BytesLength == ASSUME NEW x, IsBytes(x) PROVE Len(x) \in Nat
BY DEF IsBytes

\* The bytes x are written behind the first l bytes of a tape.
Extend(tape, l, x) ==
    [i \in Nat |-> IF i \in (l + 1)..(l + Len(x)) THEN x[i - l] ELSE tape[i]]

\* They are there, and nothing before them changes.
LEMMA ExtendParts ==
    ASSUME NEW tape \in [Nat -> Octet], NEW l \in Nat, NEW x \in Seq(Octet)
    PROVE  /\ Extend(tape, l, x) \in [Nat -> Octet]
           /\ \A i \in 1..l : Extend(tape, l, x)[i] = tape[i]
           /\ On(Extend(tape, l, x), l, x)
<1> DEFINE m == Len(x)
           t == Extend(tape, l, x)
<1>1. m \in Nat
  OBVIOUS
<1>2. \A i \in 1..m : x[i] \in Octet
  OBVIOUS
<1>3. \A i \in Nat : t[i] = IF i \in (l + 1)..(l + m) THEN x[i - l] ELSE tape[i]
  BY DEF Extend
<1>4. DOMAIN t = Nat /\ t = [i \in Nat |-> t[i]]
  BY DEF Extend
<1> HIDE DEF m, t
<1>5. \A i \in (l + 1)..(l + m) : i - l \in 1..m
  BY <1>1
<1>6. \A i \in Nat : t[i] \in Octet
  BY <1>2, <1>3, <1>5
<1>7. t \in [Nat -> Octet]
  BY <1>4, <1>6
<1>8. \A i \in 1..l : i \in Nat /\ i \notin (l + 1)..(l + m)
  BY <1>1
<1>9. \A i \in 1..m : l + i \in Nat /\ l + i \in (l + 1)..(l + m) /\ (l + i) - l = i
  BY <1>1
<1>10. \A i \in 1..l : t[i] = tape[i]
  BY <1>3, <1>8
<1>11. \A i \in 1..m : t[l + i] = x[i]
  BY <1>3, <1>9
<1> QED BY <1>7, <1>10, <1>11 DEF On, m, t

\* A sequence at the beginning of a tape stays where it is.
LEMMA OnPrefix ==
    ASSUME NEW tape, NEW t, NEW l \in Nat, \A i \in 1..l : t[i] = tape[i],
           NEW a \in Nat, NEW y, Len(y) \in Nat, a + Len(y) <= l, On(tape, a, y)
    PROVE  On(t, a, y)
<1>1. \A i \in 1..Len(y) : a + i \in 1..l
  OBVIOUS
<1> QED BY <1>1 DEF On

\* A frame is put at the end.
LEMMA Extended ==
    ASSUME NEW tape, NEW cut, NEW cnt, NEW n, IsTape(tape, cut, cnt, n),
           Layout(tape, cut, cnt, n), NEW rd \in Nat, NEW unread, IsBytes(unread),
           Carries(tape, cut, n, rd, unread), NEW x, IsBytes(x), NEW c \in Nat,
           NextFrame(x, cnt[n], c)
    PROVE  \E t, u, v :
              /\ IsTape(t, u, v, n + 1) /\ Layout(t, u, v, n + 1)
              /\ v[n + 1] = c /\ Carries(t, u, n + 1, rd, unread \o x)
              /\ \A j \in 0..n : u[j] = cut[j] /\ v[j] = cnt[j]
              /\ \A i \in 1..cut[n] : t[i] = tape[i]
<1> DEFINE l == cut[n]
           m == Len(x)
           t == Extend(tape, l, x)
           u == [cut EXCEPT ![n + 1] = l + m]
           v == [cnt EXCEPT ![n + 1] = c]
<1>1. n \in Nat /\ \A j \in Nat : cut[j] \in Nat /\ cnt[j] \in Nat
  BY TapeParts
<1>2. l \in Nat /\ m \in Nat /\ Len(unread) \in Nat /\ n + 1 \in Nat
  BY <1>1, BytesLength
<1>3. t \in [Nat -> Octet] /\ (\A i \in 1..l : t[i] = tape[i]) /\ On(t, l, x)
  <2> HIDE DEF l
  <2> QED BY <1>2, ExtendParts DEF IsTape, IsBytes
<1>4. u \in [Nat -> Nat] /\ v \in [Nat -> Nat]
  <2> HIDE DEF l, m
  <2>1. l + m \in Nat
    BY <1>2
  <2>2. cut \in [Nat -> Nat] /\ cnt \in [Nat -> Nat]
    BY DEF IsTape
  <2>3. u \in [Nat -> Nat]
    BY <2>1, <2>2
  <2>4. v \in [Nat -> Nat]
    BY <2>2
  <2> QED BY <2>3, <2>4
<1>5. /\ \A j \in 0..n : u[j] = cut[j] /\ v[j] = cnt[j]
      /\ u[n + 1] = l + m /\ v[n + 1] = c
  <2> HIDE DEF l, m
  <2> QED BY <1>1, <1>2 DEF IsTape
<1> HIDE DEF t, u, v
<1>6. IsTape(t, u, v, n + 1)
  BY <1>2, <1>3, <1>4 DEF IsTape
<1>7. Carries(t, u, n + 1, rd, unread \o x)
  <2>1. l = rd + Len(unread) /\ On(tape, rd, unread)
    BY DEF Carries
  <2>2. rd + Len(unread) <= l
    BY <1>2, <2>1
  <2>3. On(t, rd, unread)
    <3> HIDE DEF l
    <3> QED BY <1>2, <1>3, <2>1, <2>2, OnPrefix
  <2>4. On(t, rd + Len(unread), x)
    BY <1>3, <2>1
  <2>5. On(t, rd, unread \o x)
    BY <2>3, <2>4, OnConcat DEF IsBytes
  <2>6. Len(unread \o x) = Len(unread) + m
    BY ConcatProperties DEF IsBytes
  <2>7. u[n + 1] = rd + Len(unread \o x)
    BY <1>2, <1>5, <2>1, <2>6
  <2> QED BY <2>5, <2>7 DEF Carries
<1>8. ASSUME NEW j \in 0..(n + 1)
      PROVE  u[j] <= u[n + 1] /\ v[j] <= v[n + 1]
  <2>1. cnt[n] \in Nat /\ cnt[n] <= c
    BY <1>1 DEF NextFrame
  <2>2. CASE j \in 0..n
    <3>1. u[j] = cut[j] /\ v[j] = cnt[j]
      BY <1>5, <2>2
    <3>2. cut[j] <= l /\ cnt[j] <= cnt[n]
      BY <2>2 DEF Layout
    <3>3. cut[j] \in Nat /\ cnt[j] \in Nat
      BY <1>1, <2>2
    <3> HIDE DEF l, m
    <3>4. cut[j] <= l + m
      BY <1>2, <3>2, <3>3
    <3>5. cnt[j] <= c
      BY <2>1, <3>2, <3>3
    <3> QED BY <1>5, <3>1, <3>4, <3>5
  <2>3. CASE j = n + 1
    <3>1. l + m \in Nat
      BY <1>2
    <3> QED BY <1>5, <2>3, <3>1
  <2>4. j \in 0..n \/ j = n + 1
    BY <1>1
  <2> QED BY <2>2, <2>3, <2>4
<1>9. ASSUME NEW j \in Nat, j < n + 1
      PROVE  IsBeat(t, u, v, j) \/ IsMessage(t, u, v, j)
  <2>1. CASE j < n
    <3>1. j \in 0..n /\ j + 1 \in 0..n
      BY <1>1, <2>1
    <3>2. /\ u[j] = cut[j] /\ v[j] = cnt[j]
          /\ u[j + 1] = cut[j + 1] /\ v[j + 1] = cnt[j + 1]
      BY <1>5, <3>1
    <3>3. cut[j + 1] <= l
      BY <3>1 DEF Layout
    <3>4. cut[j] \in Nat
      BY <1>1, <3>1
    <3>5. ASSUME NEW y, Len(y) \in Nat, cut[j + 1] = cut[j] + Len(y), On(tape, cut[j], y)
          PROVE  On(t, cut[j], y)
      <4>1. cut[j] + Len(y) <= l
        BY <3>3, <3>5
      <4> HIDE DEF l
      <4> QED BY <1>2, <1>3, <3>4, <3>5, <4>1, OnPrefix
    <3>6. CASE IsBeat(tape, cut, cnt, j)
      <4>1. Len(Heartbeat) = 1
        BY DEF Heartbeat
      <4>2. Len(Heartbeat) \in Nat /\ cut[j + 1] = cut[j] + Len(Heartbeat)
        BY <3>6, <4>1 DEF IsBeat
      <4>3. On(tape, cut[j], Heartbeat)
        BY <3>6 DEF IsBeat
      <4>4. On(t, cut[j], Heartbeat)
        BY <3>5, <4>2, <4>3
      <4> QED BY <3>2, <3>6, <4>4 DEF IsBeat
    <3>7. CASE IsMessage(tape, cut, cnt, j)
      <4> DEFINE y == Code(Messages[cnt[j + 1]])
      <4>1. cnt[j + 1] \in 1..Len(Messages)
        BY <3>7 DEF IsMessage
      <4>2. y \in Seq(Octet)
        BY <4>1, CodeParts
      <4>3. Len(y) \in Nat
        BY <4>2
      <4>4. On(t, cut[j], y)
        BY <3>5, <3>7, <4>3 DEF IsMessage
      <4> QED BY <3>2, <3>7, <4>4 DEF IsMessage
    <3> QED BY <2>1, <3>6, <3>7 DEF Layout
  <2>2. CASE j = n
    <3>1. n \in 0..n
      BY <1>1
    <3>2. u[j] = l /\ v[j] = cnt[n] /\ u[j + 1] = l + m /\ v[j + 1] = c
      BY <1>5, <2>2, <3>1
    <3>3. CASE x = Heartbeat /\ c = cnt[n]
      <4>1. m = 1
        BY <3>3 DEF Heartbeat
      <4> QED BY <1>3, <3>2, <3>3, <4>1 DEF IsBeat
    <3>4. CASE c = cnt[n] + 1 /\ c \in 1..Len(Messages) /\ x = Code(Messages[c])
      BY <1>3, <3>2, <3>4 DEF IsMessage
    <3> QED BY <3>3, <3>4 DEF NextFrame
  <2>3. j < n \/ j = n
    BY <1>1, <1>9
  <2> QED BY <2>1, <2>2, <2>3
<1>10. Layout(t, u, v, n + 1)
  BY <1>8, <1>9 DEF Layout
<1> QED BY <1>3, <1>5, <1>6, <1>7, <1>10

\* What is known of the reader stays true when the tape grows.
LEMMA ReadsExtended ==
    ASSUME NEW tape, NEW cut, NEW cnt, NEW n, IsTape(tape, cut, cnt, n),
           Layout(tape, cut, cnt, n), NEW t, NEW u, NEW v,
           \A j \in 0..n : u[j] = cut[j] /\ v[j] = cnt[j],
           \A i \in 1..cut[n] : t[i] = tape[i],
           NEW rd \in Nat, rd <= cut[n], NEW k \in Nat, NEW d, NEW rem, NEW tmp, NEW del,
           Len(tmp) \in Nat, Reads(tape, cut, cnt, n, k, rd, d, rem, tmp, del)
    PROVE  Reads(t, u, v, n + 1, k, rd, d, rem, tmp, del)
<1> DEFINE l == cut[n]
<1>1. n \in Nat /\ l \in Nat /\ \A j \in Nat : cut[j] \in Nat /\ cnt[j] \in Nat
  BY TapeParts
<1>2. k <= n /\ k \in 0..n /\ u[k] = cut[k] /\ v[k] = cnt[k]
  <2>1. k <= n
    BY DEF Reads
  <2> QED BY <1>1, <2>1
<1>3. ASSUME k < n, IsMessage(tape, cut, cnt, k)
      PROVE  u[k + 1] = cut[k + 1] /\ v[k + 1] = cnt[k + 1] /\ IsMessage(t, u, v, k)
  <2> DEFINE y == Code(Messages[cnt[k + 1]])
  <2>1. k + 1 \in 0..n
    BY <1>1, <1>3
  <2>2. u[k + 1] = cut[k + 1] /\ v[k + 1] = cnt[k + 1]
    BY <2>1
  <2>3. cnt[k + 1] \in 1..Len(Messages) /\ cut[k + 1] = cut[k] + Len(y) /\ On(tape, cut[k], y)
    BY <1>3 DEF IsMessage
  <2>4. y \in Seq(Octet)
    BY <2>3, CodeParts
  <2>5. Len(y) \in Nat
    BY <2>4
  <2>6. cut[k] + Len(y) <= l
    BY <2>1, <2>3 DEF Layout
  <2>7. On(t, cut[k], y)
    <3> HIDE DEF y, l
    <3> QED BY <1>1, <2>3, <2>5, <2>6, OnPrefix DEF l
  <2> QED BY <1>2, <1>3, <2>2, <2>7 DEF IsMessage
<1>4. ASSUME NEW a \in Nat, rd = a + Len(tmp), On(tape, a, tmp)
      PROVE  On(t, a, tmp)
  <2> HIDE DEF l
  <2>1. \A i \in 1..l : t[i] = tape[i]
    BY DEF l
  <2>2. a + Len(tmp) <= l
    BY <1>4 DEF l
  <2> QED BY <1>1, <1>4, <2>1, <2>2, OnPrefix
<1>5. k < n => k < n + 1
  BY <1>1
<1>6. ASSUME InSizeOf(tape, cut, cnt, n, k, rd, d, rem, tmp)
      PROVE  InSizeOf(t, u, v, n + 1, k, rd, d, rem, tmp)
  <2>1. On(t, u[k], tmp)
    BY <1>1, <1>2, <1>4, <1>6 DEF InSizeOf
  <2>2. tmp # <<>> => /\ k < n + 1 /\ IsMessage(t, u, v, k)
                      /\ Len(tmp) < Len(serialize_size(SizeOf(Messages[v[k + 1]])))
    BY <1>3, <1>5, <1>6 DEF InSizeOf
  <2>3. d \notin {"payload", "forward"} /\ rem = 0 /\ rd = u[k] + Len(tmp)
    BY <1>2, <1>6 DEF InSizeOf
  <2> QED BY <2>1, <2>2, <2>3, Zenon DEF InSizeOf
<1>7. ASSUME InContentOf(tape, cut, cnt, n, k, rd, d, rem, tmp)
      PROVE  InContentOf(t, u, v, n + 1, k, rd, d, rem, tmp)
  <2> DEFINE s == serialize_size(SizeOf(Messages[cnt[k + 1]]))
  <2>1. /\ k < n /\ IsMessage(tape, cut, cnt, k)
        /\ rd = (cut[k] + Len(s)) + Len(tmp) /\ On(tape, cut[k] + Len(s), tmp)
        /\ rd + rem = cut[k + 1]
    BY <1>7 DEF InContentOf
  <2>2. /\ u[k + 1] = cut[k + 1] /\ v[k + 1] = cnt[k + 1] /\ IsMessage(t, u, v, k)
    BY <1>3, <2>1
  <2>3. cut[k] + Len(s) \in Nat
    <3>1. Len(s) \in 1..5
      BY <2>1, CodeParts DEF IsMessage
    <3> HIDE DEF s
    <3> QED BY <1>1, <3>1
  <2>4. On(t, cut[k] + Len(s), tmp)
    BY <1>4, <2>1, <2>3
  <2>5. d # "size" /\ (d = "forward" <=> rem = 0)
    BY <1>7 DEF InContentOf
  <2>6. s = serialize_size(SizeOf(Messages[v[k + 1]]))
    BY <2>2
  <2>7. /\ rd = (u[k] + Len(s)) + Len(tmp) /\ On(t, u[k] + Len(s), tmp)
        /\ rd + rem = u[k + 1]
    BY <1>2, <2>1, <2>2, <2>4
  <2> HIDE DEF s
  <2> QED BY <1>5, <2>1, <2>2, <2>5, <2>6, <2>7 DEF InContentOf
<1>8. k <= n + 1
  BY <1>1, <1>2
<1> QED BY <1>2, <1>6, <1>7, <1>8, Zenon DEF Reads

\* The bytes still to be read are a sequence.
LEMMA UnreadType ==
    ASSUME SendTypes, WireTypes, ReceiveTypes
    PROVE  /\ Pending \in Seq(Octet) /\ outBuffer \o Pending \in Seq(Octet)
           /\ wire \o (outBuffer \o Pending) \in Seq(Octet) /\ Unread \in Seq(Octet)
<1>1. outBuffer \in Seq(Octet) /\ wire \in Seq(Octet) /\ inBuffer \in Seq(Octet)
  BY DEF SendTypes, WireTypes, ReceiveTypes
<1>2. sender.rest \in Seq(Octet)
  BY DEF SendTypes
<1> DEFINE p == IF sender.at = "header" THEN Messages[sent].payload ELSE <<>>
<1>3. p \in Seq(Octet)
  <2>1. CASE sender.at = "header"
    <3>1. sent > 0
      BY <2>1 DEF SendTypes, Waiting
    <3>2. sent \in 1..Len(Messages)
      BY <3>1, MessagesAssumption DEF SendTypes
    <3> QED BY <2>1, <3>2, MessageParts
  <2>2. CASE sender.at # "header"
    BY <2>2, EmptySeq
  <2> QED BY <2>1, <2>2
<1> HIDE DEF p
<1>4. Pending \in Seq(Octet)
  BY <1>2, <1>3, ConcatProperties DEF Pending, p
<1>5. outBuffer \o Pending \in Seq(Octet)
  BY <1>1, <1>4, ConcatProperties
<1>6. wire \o (outBuffer \o Pending) \in Seq(Octet)
  BY <1>1, <1>5, ConcatProperties
<1>7. inBuffer \o (wire \o (outBuffer \o Pending)) \in Seq(Octet)
  BY <1>1, <1>6, ConcatProperties
<1> QED BY <1>4, <1>5, <1>6, <1>7 DEF Unread

\* A frame is written.
LEMMA FrameWritten ==
    ASSUME SendTypes, WireTypes, ReceiveTypes, Framed,
           NEW x \in Seq(Octet), sent' \in Nat, NextFrame(x, sent, sent'), Unread' = Unread \o x,
           UNCHANGED <<deserializer, remaining, tmpIn, delivered>>
    PROVE  Framed'
<1>1. PICK tape, cut, cnt, n, k, rd :
        /\ IsTape(tape, cut, cnt, n) /\ k \in Nat /\ rd \in Nat
        /\ Layout(tape, cut, cnt, n) /\ cnt[n] = sent /\ Carries(tape, cut, n, rd, Unread)
        /\ Reads(tape, cut, cnt, n, k, rd, deserializer, remaining, tmpIn, delivered)
  BY Zenon DEF Framed
<1>2. IsBytes(Unread) /\ IsBytes(x)
  BY UnreadType DEF IsBytes
<1>3. PICK t, u, v :
        /\ IsTape(t, u, v, n + 1) /\ Layout(t, u, v, n + 1)
        /\ v[n + 1] = sent' /\ Carries(t, u, n + 1, rd, Unread \o x)
        /\ \A j \in 0..n : u[j] = cut[j] /\ v[j] = cnt[j]
        /\ \A i \in 1..cut[n] : t[i] = tape[i]
  <2>1. NextFrame(x, cnt[n], sent')
    BY <1>1, Zenon
  <2>2. /\ IsTape(tape, cut, cnt, n) /\ Layout(tape, cut, cnt, n) /\ rd \in Nat
        /\ Carries(tape, cut, n, rd, Unread)
    BY <1>1
  <2> HIDE DEF Framed
  <2> QED BY <1>2, <2>1, <2>2, Extended
<1>4. rd <= cut[n]
  <2>1. cut[n] = rd + Len(Unread)
    BY <1>1 DEF Carries
  <2>2. Len(Unread) \in Nat
    BY <1>2, BytesLength
  <2> QED BY <1>1, <2>1, <2>2
<1>5. Len(tmpIn) \in Nat
  BY DEF ReceiveTypes
<1>6. Reads(t, u, v, n + 1, k, rd, deserializer, remaining, tmpIn, delivered)
  BY <1>1, <1>3, <1>4, <1>5, ReadsExtended, Zenon
<1>7. Reads(t, u, v, n + 1, k, rd, deserializer', remaining', tmpIn', delivered')
  BY <1>6, Zenon
<1>8. Carries(t, u, n + 1, rd, Unread')
  BY <1>3, Zenon
<1> QED BY <1>1, <1>3, <1>7, <1>8, Zenon DEF Framed

\* deserialize() stops, is posted or goes on where it was.
Moves(d, rem, e) ==
    \/ e = d
    \/ d = "size" /\ e = "wait"
    \/ d \in {"off", "wait"} /\ e \in {"off", IF rem = 0 THEN "size" ELSE "payload"}

\* A step that only starts or stops deserialize() reads nothing.
LEMMA Quiet ==
    ASSUME Framed, sent' = sent, Unread' = Unread, Moves(deserializer, remaining, deserializer'),
           UNCHANGED <<remaining, tmpIn, delivered>>
    PROVE  Framed'
<1>1. PICK tape, cut, cnt, n, k, rd :
        /\ IsTape(tape, cut, cnt, n) /\ k \in Nat /\ rd \in Nat
        /\ Layout(tape, cut, cnt, n) /\ cnt[n] = sent /\ Carries(tape, cut, n, rd, Unread)
        /\ Reads(tape, cut, cnt, n, k, rd, deserializer, remaining, tmpIn, delivered)
  BY Zenon DEF Framed
<1>2. ASSUME InSizeOf(tape, cut, cnt, n, k, rd, deserializer, remaining, tmpIn)
      PROVE  InSizeOf(tape, cut, cnt, n, k, rd, deserializer', remaining, tmpIn)
  <2>1. deserializer \notin {"payload", "forward"} /\ remaining = 0
    BY <1>2 DEF InSizeOf
  <2>2. deserializer' \notin {"payload", "forward"}
    BY <2>1 DEF Moves
  <2> QED BY <1>2, <2>2 DEF InSizeOf
<1>3. ASSUME InContentOf(tape, cut, cnt, n, k, rd, deserializer, remaining, tmpIn)
      PROVE  InContentOf(tape, cut, cnt, n, k, rd, deserializer', remaining, tmpIn)
  <2>1. deserializer # "size" /\ (deserializer = "forward" <=> remaining = 0)
    BY <1>3 DEF InContentOf
  <2>2. deserializer' # "size" /\ (deserializer' = "forward" <=> remaining = 0)
    BY <2>1 DEF Moves
  <2> QED BY <1>3, <2>2 DEF InContentOf
<1>4. Reads(tape, cut, cnt, n, k, rd, deserializer', remaining, tmpIn, delivered)
  BY <1>1, <1>2, <1>3, Zenon DEF Reads
<1>5. Reads(tape, cut, cnt, n, k, rd, deserializer', remaining', tmpIn', delivered')
  BY <1>4, Zenon
<1>6. Carries(tape, cut, n, rd, Unread') /\ cnt[n] = sent'
  BY <1>1, Zenon
<1> QED BY <1>1, <1>5, <1>6, Zenon DEF Framed

----------------------------------------------------------------------------
(* The steps of the sending end.                                           *)

\* What is written and what is pending are the rest of the message.
LEMMA PayloadPending ==
    ASSUME NEW i \in 1..Len(Messages), NEW b \in Seq(Octet), Len(b) <= OutSize,
           SendPayload(Messages[i], b), sent' = i
    PROVE  outBuffer' \o Pending' = b \o Messages[i].payload
<1> DEFINE p == Messages[i].payload
           w == write(b, p)
           r == unwritten(b, p)
<1>1. p \in Seq(Octet)
  BY MessageParts
<1>2. w \in Seq(Octet) /\ r \in Seq(Octet) /\ w \o r = b \o p
  BY <1>1, Written
<1>3. outBuffer' = w /\ sender' = IF r = <<>> THEN Idle ELSE [at |-> "payload", rest |-> r]
  BY DEF SendPayload
<1> HIDE DEF p, w, r
<1>4. Pending' = r
  <2>1. sender'.at # "header" /\ sender'.rest = r
    BY <1>3 DEF Idle
  <2>2. Pending' = sender'.rest \o <<>>
    BY <2>1 DEF Pending
  <2> QED BY <1>2, <2>1, <2>2, ConcatEmptySeq
<1> QED BY <1>2, <1>3, <1>4 DEF p

\* Nothing is pending while no send() waits.
LEMMA IdlePending == ASSUME sender = Idle PROVE Pending = <<>>
<1>1. sender.at # "header" /\ sender.rest = <<>>
  BY DEF Idle
<1> QED BY <1>1, ConcatEmptySeq, EmptySeq DEF Pending

\* Bytes that are put behind the pending ones are put behind all.
LEMMA Behind ==
    ASSUME SendTypes, WireTypes, ReceiveTypes, NEW x \in Seq(Octet), NEW y,
           y = (outBuffer \o Pending) \o x
    PROVE  inBuffer \o (wire \o y) = Unread \o x
<1> DEFINE o == outBuffer \o Pending
<1>1. inBuffer \in Seq(Octet) /\ wire \in Seq(Octet)
  BY DEF WireTypes, ReceiveTypes
<1>2. o \in Seq(Octet) /\ wire \o o \in Seq(Octet)
  BY UnreadType
<1>3. Unread = inBuffer \o (wire \o o)
  BY DEF Unread
<1> HIDE DEF o
<1>4. wire \o (o \o x) = (wire \o o) \o x
  BY <1>1, <1>2, Assoc, Zenon
<1>5. inBuffer \o ((wire \o o) \o x) = (inBuffer \o (wire \o o)) \o x
  BY <1>1, <1>2, Assoc, Zenon
<1>6. y = o \o x
  BY DEF o
<1> QED BY <1>3, <1>4, <1>5, <1>6

\* send() puts a message behind all bytes: what it does not write is pending.
LEMMA SendFramed ==
    ASSUME SendTypes, WireTypes, ReceiveTypes, Framed, Send
    PROVE  Framed'
<1> DEFINE i == sent + 1
           m == Messages[i]
           h == Header(m)
           b == write(outBuffer, h)
           r == unwritten(outBuffer, h)
<1>1. /\ sender = Idle /\ sent' = i /\ i \in 1..Len(Messages) /\ i \in Nat
      /\ \/ r = <<>> /\ SendPayload(m, b)
         \/ outBuffer' = b /\ sender' = [at |-> "header", rest |-> r]
      /\ UNCHANGED <<wire, inBuffer, deserializer, remaining, tmpIn, delivered>>
  <2>1. Len(Messages) \in Nat /\ sent \in Nat
    BY MessagesAssumption DEF SendTypes
  <2> QED BY <2>1 DEF Send, SendTypes, receiveVars
<1>2. m.payload \in Seq(Octet) /\ h \in Seq(Octet) /\ outBuffer \in Seq(Octet)
  BY <1>1, MessageParts DEF SendTypes
<1>3. b \in Seq(Octet) /\ Len(b) <= OutSize /\ r \in Seq(Octet) /\ b \o r = outBuffer \o h
  BY <1>2, Written DEF SendTypes
<1>4. Code(m) \in Seq(Octet) /\ Code(m) = h \o m.payload
  BY <1>1, CodeParts DEF Code
<1>5. (outBuffer \o h) \o m.payload = outBuffer \o Code(m)
  <2> HIDE DEF h, m
  <2>1. (outBuffer \o h) \o m.payload = outBuffer \o (h \o m.payload)
    BY <1>2, Assoc, Zenon
  <2> QED BY <1>4, <2>1, Zenon
<1>6. outBuffer' \o Pending' = outBuffer \o Code(m)
  <2>1. CASE r = <<>> /\ SendPayload(m, b)
    <3>1. b = outBuffer \o h
      <4> HIDE DEF b, h, r
      <4> QED BY <1>3, <2>1, ConcatEmptySeq
    <3>2. outBuffer' \o Pending' = b \o m.payload
      <4> HIDE DEF b, i
      <4> QED BY <1>1, <1>3, <2>1, PayloadPending
    <3> HIDE DEF b, h, m
    <3> QED BY <1>5, <3>1, <3>2
  <2>2. CASE outBuffer' = b /\ sender' = [at |-> "header", rest |-> r]
    <3> HIDE DEF b, h, r
    <3>1. Pending' = r \o m.payload
      BY <1>1, <2>2 DEF Pending
    <3> HIDE DEF m
    <3>2. b \o (r \o m.payload) = (b \o r) \o m.payload
      BY <1>2, <1>3, Assoc, Zenon
    <3> QED BY <1>3, <1>5, <2>2, <3>1, <3>2
  <2> QED BY <1>1, <2>1, <2>2
<1>7. Unread' = Unread \o Code(m)
  <2> HIDE DEF m
  <2>1. outBuffer \o Pending = outBuffer
    BY <1>1, <1>2, IdlePending, ConcatEmptySeq
  <2>2. inBuffer \o (wire \o (outBuffer' \o Pending')) = Unread \o Code(m)
    BY <1>4, <1>6, <2>1, Behind
  <2> QED BY <1>1, <2>2 DEF Unread
<1>8. NextFrame(Code(m), sent, sent')
  BY <1>1 DEF NextFrame
<1> HIDE DEF m, i
<1> QED BY <1>1, <1>4, <1>7, <1>8, FrameWritten

\* A waiting send() goes on: bytes are moved from the pending ones to the buffer.
LEMMA Moved ==
    ASSUME Framed, outBuffer' \o Pending' = outBuffer \o Pending,
           UNCHANGED <<sent, wire, receiveVars>>
    PROVE  Framed'
<1>1. Unread' = Unread
  BY DEF Unread, receiveVars
<1>2. Moves(deserializer, remaining, deserializer')
  BY DEF Moves, receiveVars
<1> QED BY <1>1, <1>2, Quiet DEF receiveVars

\* It finishes the header and writes what it can of the payload.
LEMMA WakeInHeaderFramed ==
    ASSUME SendTypes, WireTypes, ReceiveTypes, Framed, WakeInHeader
    PROVE  Framed'
<1> DEFINE r == sender.rest
           b == write(outBuffer, r)
           p == Messages[sent].payload
<1>1. /\ sender.at = "header" /\ unwritten(outBuffer, r) = <<>>
      /\ SendPayload(Messages[sent], b)
      /\ UNCHANGED <<sent, wire, receiveVars>>
  BY DEF WakeInHeader
<1>2. sent \in 1..Len(Messages)
  <2>1. sent > 0
    BY <1>1 DEF SendTypes, Waiting
  <2> QED BY <2>1, MessagesAssumption DEF SendTypes
<1>3. r \in Seq(Octet) /\ outBuffer \in Seq(Octet) /\ p \in Seq(Octet)
  BY <1>2, MessageParts DEF SendTypes
<1>4. b \in Seq(Octet) /\ Len(b) <= OutSize /\ b \o unwritten(outBuffer, r) = outBuffer \o r
  BY <1>3, Written DEF SendTypes
<1>5. b = outBuffer \o r
  <2> HIDE DEF b, r
  <2> QED BY <1>1, <1>4, ConcatEmptySeq
<1>6. outBuffer' \o Pending' = b \o p
  <2> HIDE DEF b
  <2> QED BY <1>1, <1>2, <1>4, PayloadPending
<1>7. Pending = r \o p
  BY <1>1 DEF Pending
<1>8. outBuffer' \o Pending' = outBuffer \o Pending
  <2> HIDE DEF b, r, p
  <2>1. (outBuffer \o r) \o p = outBuffer \o (r \o p)
    BY <1>3, Assoc, Zenon
  <2> QED BY <1>5, <1>6, <1>7, <2>1
<1> QED BY <1>1, <1>8, Moved

\* It finishes the payload.
LEMMA WakeInPayloadFramed ==
    ASSUME SendTypes, WireTypes, ReceiveTypes, Framed, WakeInPayload
    PROVE  Framed'
<1> DEFINE r == sender.rest
           b == write(outBuffer, r)
<1>1. /\ sender.at = "payload" /\ unwritten(outBuffer, r) = <<>>
      /\ outBuffer' = b /\ sender' = Idle /\ UNCHANGED <<sent, wire, receiveVars>>
  BY DEF WakeInPayload
<1>2. r \in Seq(Octet) /\ outBuffer \in Seq(Octet)
  BY DEF SendTypes
<1>3. b \in Seq(Octet) /\ b \o unwritten(outBuffer, r) = outBuffer \o r
  BY <1>2, Written DEF SendTypes
<1>4. b = outBuffer \o r
  <2> HIDE DEF b, r
  <2> QED BY <1>1, <1>3, ConcatEmptySeq
<1>5. Pending = r
  <2>1. Pending = r \o <<>>
    BY <1>1 DEF Pending
  <2> HIDE DEF r
  <2> QED BY <1>2, <2>1, ConcatEmptySeq
<1>6. Pending' = <<>>
  <2>1. sender'.at # "header" /\ sender'.rest = <<>>
    BY <1>1 DEF Idle
  <2> QED BY <2>1, ConcatEmptySeq, EmptySeq DEF Pending
<1>7. outBuffer' \o Pending' = outBuffer \o Pending
  <2> HIDE DEF b, r
  <2> QED BY <1>1, <1>3, <1>4, <1>5, <1>6, ConcatEmptySeq
<1> QED BY <1>1, <1>7, Moved

\* A heartbeat is written while no send() waits.
LEMMA BeatFramed ==
    ASSUME SendTypes, WireTypes, ReceiveTypes, Framed, sender = Idle,
           unwritten(outBuffer, Heartbeat) = <<>>, outBuffer' = write(outBuffer, Heartbeat),
           UNCHANGED <<sent, sender, wire, receiveVars>>
    PROVE  Framed'
<1>1. Heartbeat \in Seq(Octet) /\ outBuffer \in Seq(Octet) /\ sent \in Nat
  BY BeatWritten, MessagesAssumption DEF SendTypes
<1> DEFINE b == write(outBuffer, Heartbeat)
<1>2. b \in Seq(Octet) /\ b \o unwritten(outBuffer, Heartbeat) = outBuffer \o Heartbeat
  BY <1>1, Written DEF SendTypes
<1>3. b = outBuffer \o Heartbeat
  <2> HIDE DEF b
  <2> QED BY <1>2, ConcatEmptySeq
<1>4. outBuffer \o Pending = outBuffer
  BY <1>1, IdlePending, ConcatEmptySeq
<1>5. Pending' = Pending
  BY DEF Pending
<1>6. outBuffer' \o Pending' = (outBuffer \o Pending) \o Heartbeat
  <2>1. Pending' = <<>>
    BY <1>5, IdlePending
  <2>2. b \o <<>> = b
    <3> HIDE DEF b
    <3> QED BY <1>2, ConcatEmptySeq
  <2> QED BY <1>3, <1>4, <2>1, <2>2
<1>7. Unread' = Unread \o Heartbeat
  <2>1. inBuffer \o (wire \o (outBuffer' \o Pending')) = Unread \o Heartbeat
    BY <1>1, <1>6, Behind
  <2> QED BY <2>1 DEF Unread, receiveVars
<1>8. NextFrame(Heartbeat, sent, sent')
  BY DEF NextFrame
<1> QED BY <1>1, <1>7, <1>8, FrameWritten DEF receiveVars

\* A heartbeat that does not fit leaves the buffer alone.
LEMMA BeatRefused ==
    ASSUME SendTypes, unwritten(outBuffer, Heartbeat) # <<>>
    PROVE  write(outBuffer, Heartbeat) = outBuffer
<1> DEFINE n == OutSize - Len(outBuffer)
           a == After(Heartbeat, n)
<1>1. Heartbeat \in Seq(Octet) /\ Len(Heartbeat) = 1
  BY BeatWritten DEF Heartbeat
<1>2. n \in Nat
  BY BoundsAssumption DEF SendTypes
<1>3. /\ a \in Seq(Octet) /\ Len(a) = 1 - Min2(n, 1)
      /\ \A i \in 1..Len(a) : a[i] = Heartbeat[n + i]
  BY <1>1, <1>2, Afters
<1>4. unwritten(outBuffer, Heartbeat) = a
  BY DEF unwritten
<1>5. Len(a) # 0
  <2> HIDE DEF a
  <2> QED BY <1>3, <1>4, EmptySeq
<1>6. n = 0
  <2> HIDE DEF a, n
  <2> QED BY <1>2, <1>3, <1>5 DEF Min2
<1>7. a = Heartbeat
  <2>1. Len(a) = 1
    <3> HIDE DEF a, n
    <3> QED BY <1>3, <1>6 DEF Min2
  <2>2. \A i \in 1..Len(a) : a[i] = Heartbeat[i]
    <3> HIDE DEF a, n
    <3> QED BY <1>3, <1>6
  <2> HIDE DEF a
  <2> QED BY <1>1, <1>3, <2>1, <2>2, SeqEqual
<1> QED BY <1>1, <1>4, <1>7, Written DEF SendTypes

\* Steps that touch no bytes.
LEMMA SameOut ==
    ASSUME Framed, UNCHANGED <<sent, sender, outBuffer, wire, receiveVars>>
    PROVE  Framed'
<1>1. outBuffer' \o Pending' = outBuffer \o Pending
  BY DEF Pending
<1> QED BY <1>1, Moved

\* A heartbeat of the timer is a frame, unless a send() waits.
LEMMA OnTimeoutFramed ==
    ASSUME SendTypes, WireTypes, ReceiveTypes, Framed, OnTimeout, ~mixed'
    PROVE  Framed'
<1>1. UNCHANGED <<sent, sender, wire, receiveVars>>
  BY DEF OnTimeout
<1>2. CASE outBuffer' = outBuffer
  BY <1>1, <1>2, SameOut
<1>3. CASE /\ outBuffer' = write(outBuffer, Heartbeat)
           /\ beatWaits' = (unwritten(outBuffer, Heartbeat) # <<>>)
           /\ mixed' = (mixed \/ (sender # Idle /\ ~beatWaits'))
  <2>1. CASE unwritten(outBuffer, Heartbeat) # <<>>
    BY <1>2, <1>3, <2>1, BeatRefused
  <2>2. CASE unwritten(outBuffer, Heartbeat) = <<>>
    <3>1. sender = Idle
      BY <1>3, <2>2
    <3> QED BY <1>1, <1>3, <2>2, <3>1, BeatFramed
  <2> QED BY <2>1, <2>2
<1> QED BY <1>2, <1>3 DEF OnTimeout

\* Bytes move from the buffer to the network,
LEMMA OnSendCompletedFramed ==
    ASSUME SendTypes, WireTypes, ReceiveTypes, Framed,
           NEW n \in 1..OutSize, OnSendCompleted(n)
    PROVE  Framed'
<1> DEFINE f == First(outBuffer, n)
           a == After(outBuffer, n)
<1>1. n \in Nat /\ outBuffer \in Seq(Octet) /\ wire \in Seq(Octet)
  BY BoundsAssumption DEF SendTypes, WireTypes
<1>2. f \in Seq(Octet) /\ a \in Seq(Octet)
  BY <1>1, Firsts, Afters
<1>3. f \o a = outBuffer
  BY <1>1, Split
<1>4. wire' = wire \o f /\ outBuffer' = a /\ UNCHANGED <<sent, sender, receiveVars>>
  BY DEF OnSendCompleted
<1>5. Pending' = Pending /\ Pending \in Seq(Octet)
  BY <1>4, UnreadType DEF Pending
<1> HIDE DEF f, a
<1>6. a \o Pending \in Seq(Octet)
  BY <1>2, <1>5, ConcatProperties
<1>7. (wire \o f) \o (a \o Pending) = wire \o (f \o (a \o Pending))
  BY <1>1, <1>2, <1>6, Assoc, Zenon
<1>8. f \o (a \o Pending) = (f \o a) \o Pending
  BY <1>2, <1>5, Assoc, Zenon
<1>9. wire' \o (outBuffer' \o Pending') = wire \o (outBuffer \o Pending)
  BY <1>3, <1>4, <1>5, <1>7, <1>8
<1>10. Unread' = Unread
  BY <1>4, <1>9 DEF Unread, receiveVars
<1>11. Moves(deserializer, remaining, deserializer')
  BY <1>4 DEF Moves, receiveVars
<1> QED BY <1>4, <1>10, <1>11, Quiet DEF receiveVars

\* and from there to the buffer of the other end.
LEMMA OnReceiveCompletedFramed ==
    ASSUME SendTypes, WireTypes, ReceiveTypes, Framed,
           NEW n \in 0..InSize, OnReceiveCompleted(n)
    PROVE  Framed'
<1> DEFINE f == First(wire, n)
           a == After(wire, n)
           o == outBuffer \o Pending
<1>1. n \in Nat /\ inBuffer \in Seq(Octet) /\ wire \in Seq(Octet)
  BY BoundsAssumption DEF ReceiveTypes, WireTypes
<1>2. f \in Seq(Octet) /\ a \in Seq(Octet)
  BY <1>1, Firsts, Afters
<1>3. f \o a = wire
  BY <1>1, Split
<1>4. /\ inBuffer' = inBuffer \o f /\ wire' = a
      /\ deserializer' = IF deserializer = "off" THEN Begin ELSE deserializer
      /\ UNCHANGED <<sent, sender, outBuffer, remaining, tmpIn, delivered>>
  BY DEF OnReceiveCompleted, sendVars
<1>5. Pending' = Pending /\ outBuffer' \o Pending' = o /\ o \in Seq(Octet)
  BY <1>4, UnreadType DEF Pending
<1> HIDE DEF f, a, o
<1>6. a \o o \in Seq(Octet)
  BY <1>2, <1>5, ConcatProperties
<1>7. (inBuffer \o f) \o (a \o o) = inBuffer \o (f \o (a \o o))
  BY <1>1, <1>2, <1>6, Assoc, Zenon
<1>8. f \o (a \o o) = (f \o a) \o o
  BY <1>2, <1>5, Assoc, Zenon
<1>9. Unread' = Unread
  BY <1>3, <1>4, <1>5, <1>7, <1>8 DEF Unread, o
<1>10. Moves(deserializer, remaining, deserializer')
  BY <1>4 DEF Moves, Begin
<1> QED BY <1>4, <1>9, <1>10, Quiet

----------------------------------------------------------------------------
(* The steps of deserialize().                                             *)

\* Bytes are taken from the front.
LEMMA Taken ==
    ASSUME NEW tape, NEW cut, NEW n, NEW rd \in Nat, NEW x, NEW y, IsBytes(x), IsBytes(y),
           Carries(tape, cut, n, rd, x \o y)
    PROVE  /\ On(tape, rd, x) /\ rd + Len(x) \in Nat /\ rd + Len(x) <= cut[n]
           /\ Carries(tape, cut, n, rd + Len(x), y)
<1>1. Len(x) \in Nat /\ Len(y) \in Nat
  BY BytesLength
<1>2. Len(x \o y) = Len(x) + Len(y)
  BY ConcatProperties DEF IsBytes
<1>3. cut[n] = rd + Len(x \o y) /\ On(tape, rd, x \o y)
  BY DEF Carries
<1>4. On(tape, rd, x) /\ On(tape, rd + Len(x), y)
  BY <1>3, OnConcat DEF IsBytes
<1>5. rd + Len(x) \in Nat /\ rd + Len(x) <= cut[n] /\ cut[n] = (rd + Len(x)) + Len(y)
  BY <1>1, <1>2, <1>3
<1> QED BY <1>4, <1>5 DEF Carries

\* What is taken from m_inBuffer is taken from the unread bytes.
LEMMA Consumed ==
    ASSUME SendTypes, WireTypes, ReceiveTypes, NEW x \in Seq(Octet), NEW y \in Seq(Octet),
           inBuffer = x \o y, inBuffer' = y, UNCHANGED <<sendVars, wire>>
    PROVE  IsBytes(x) /\ IsBytes(Unread') /\ Unread = x \o Unread'
<1> DEFINE o == wire \o (outBuffer \o Pending)
<1>1. o \in Seq(Octet)
  BY UnreadType
<1>2. Pending' = Pending
  BY DEF Pending, sendVars
<1>3. Unread = inBuffer \o o /\ Unread' = y \o o
  BY <1>2 DEF Unread, sendVars
<1> HIDE DEF o
<1>4. (x \o y) \o o = x \o (y \o o)
  BY <1>1, Assoc, Zenon
<1>5. y \o o \in Seq(Octet)
  BY <1>1, ConcatProperties
<1> QED BY <1>3, <1>4, <1>5, Zenon DEF IsBytes

\* The size of a heartbeat.
LEMMA BeatSize == can_deserialize_size(Heartbeat) /\ deserialize_size(Heartbeat) = 0
<1>1. Heartbeat \in Seq(Octet) /\ Len(Heartbeat) = 1 /\ Heartbeat[1] = 0
  <2>1. Heartbeat \in Seq(Octet)
    BY RadixAssumption DEF Heartbeat, Octet
  <2>2. Len(Heartbeat) = 1 /\ Heartbeat[1] = 0
    BY DEF Heartbeat
  <2> QED BY <2>1, <2>2
<1>2. weight(4) > 0 /\ weight(3) > 0 /\ weight(2) > 0 /\ weight(1) > 0 /\ weight(0) = 1
      /\ weight(4) \in Nat /\ weight(3) \in Nat /\ weight(2) \in Nat /\ weight(1) \in Nat
  BY Weights
<1>3. length(0) = 1
  BY <1>2 DEF length
<1>4. 0 < Capacity
  BY <1>2, RadixAssumption DEF Capacity
<1>5. digit(0, 0) = 0
  BY <1>2, RadixAssumption DEF digit
<1>6. serialize_size(0) = [i \in 1..1 |-> digit(0, 1 - i) + (IF i < 1 THEN Radix ELSE 0)]
  BY <1>3 DEF serialize_size
<1>7. serialize_size(0)[1] = 0
  BY <1>5, <1>6
<1> QED BY <1>1, <1>3, <1>4, <1>7, Decoded

\* What one more byte of a size makes of it.
LEMMA SizeBytes ==
    ASSUME NEW tape, NEW a \in Nat, NEW b \in Seq(Octet), NEW value \in Nat, value < Capacity,
           On(tape, a, b), On(tape, a, serialize_size(value)),
           Len(b) <= Len(serialize_size(value))
    PROVE  /\ can_deserialize_size(b) <=> Len(b) = Len(serialize_size(value))
           /\ can_deserialize_size(b) => deserialize_size(b) = value
<1> DEFINE s == serialize_size(value)
           l == length(value)
<1>1. /\ s \in Seq(Octet) /\ Len(s) = l /\ l \in Nat /\ Len(b) \in Nat
      /\ \A i \in 1..l : continued(s[i]) <=> i < l
  <2>1. s \in Seq(Octet) /\ Len(s) = l /\ \A i \in 1..l : continued(s[i]) <=> i < l
    BY Encoded
  <2>2. l \in Nat
    BY Lengths
  <2>3. Len(b) \in Nat
    OBVIOUS
  <2> QED BY <2>1, <2>2, <2>3
<1>2. \A i \in 1..Len(b) : i \in 1..l /\ b[i] = s[i]
  <2> HIDE DEF s, l
  <2>1. \A i \in 1..Len(b) : i \in 1..l
    BY <1>1 DEF s
  <2>2. \A i \in 1..Len(b) : b[i] = tape[a + i]
    BY DEF On
  <2>3. \A i \in 1..l : s[i] = tape[a + i]
    BY <1>1 DEF On, s
  <2> QED BY <2>1, <2>2, <2>3
<1>3. ASSUME Len(b) # l
      PROVE  ~can_deserialize_size(b)
  <2> HIDE DEF s, l
  <2>1. Len(b) < l
    BY <1>1, <1>3 DEF s
  <2>2. \A i \in 1..Len(b) : continued(b[i])
    BY <1>1, <1>2, <2>1
  <2> QED BY <2>2 DEF can_deserialize_size
<1>4. ASSUME Len(b) = l
      PROVE  can_deserialize_size(b) /\ deserialize_size(b) = value
  <2>1. Len(b) >= l
    BY <1>1, <1>4
  <2>2. \A i \in 1..l : b[i] = s[i]
    BY <1>2, <1>4
  <2> QED BY <2>1, <2>2, Decoded
<1> QED BY <1>1, <1>3, <1>4

\* The bytes tmp and the one at rd.
OneMore(tape, rd, tmp, bytes) ==
    \E h \in Octet : On(tape, rd, <<h>>) /\ bytes = tmp \o <<h>>

\* What ReadSize makes of them.
SizeStep(bytes, d, rem, new) ==
    IF can_deserialize_size(bytes)
      THEN /\ rem = deserialize_size(bytes) /\ new = <<>>
           /\ d = IF rem = 0 THEN "size" ELSE "payload"
      ELSE d = "size" /\ rem = 0 /\ new = bytes

\* The byte ends a heartbeat, is one of several of a size, or completes the size of
\* a message; then as many bytes are left as the message has.
LEMMA SizeRead ==
    ASSUME NEW tape, NEW cut, NEW cnt, NEW n, IsTape(tape, cut, cnt, n),
           Layout(tape, cut, cnt, n), NEW k \in Nat, NEW rd \in Nat, NEW tmp, IsBytes(tmp),
           NEW del, Reads(tape, cut, cnt, n, k, rd, "size", 0, tmp, del),
           NEW bytes, OneMore(tape, rd, tmp, bytes), rd + 1 <= cut[n],
           NEW d, NEW rem, NEW new, SizeStep(bytes, d, rem, new)
    PROVE  \E j \in Nat : Reads(tape, cut, cnt, n, j, rd + 1, d, rem, new, del)
<1>1. n \in Nat /\ \A j \in Nat : cut[j] \in Nat /\ cnt[j] \in Nat
  BY TapeParts
<1>2. /\ k <= n /\ del \in Seq(Message) /\ Len(del) = cnt[k]
      /\ \A i \in 1..Len(del) : del[i] = Messages[i]
  BY DEF Reads
<1>3. InSizeOf(tape, cut, cnt, n, k, rd, "size", 0, tmp)
  BY DEF Reads, InContentOf
<1>4. /\ rd = cut[k] + Len(tmp) /\ On(tape, cut[k], tmp)
      /\ tmp # <<>> => /\ IsMessage(tape, cut, cnt, k)
                       /\ Len(tmp) < Len(serialize_size(SizeOf(Messages[cnt[k + 1]])))
  BY <1>3 DEF InSizeOf
<1>5. Len(tmp) \in Nat /\ cut[k] \in Nat /\ cut[k + 1] \in Nat
  BY <1>1, BytesLength
<1>6. PICK h \in Octet : On(tape, rd, <<h>>) /\ bytes = tmp \o <<h>>
  BY DEF OneMore
<1>7. bytes \in Seq(Octet) /\ Len(bytes) = Len(tmp) + 1 /\ On(tape, cut[k], bytes)
  <2>1. <<h>> \in Seq(Octet) /\ Len(<<h>>) = 1
    OBVIOUS
  <2>2. tmp \o <<h>> \in Seq(Octet) /\ Len(tmp \o <<h>>) = Len(tmp) + 1
    BY <2>1, ConcatProperties DEF IsBytes
  <2>3. On(tape, cut[k], tmp \o <<h>>)
    BY <1>4, <1>5, <1>6, <2>1, OnConcat DEF IsBytes
  <2> QED BY <1>6, <2>2, <2>3
<1>8. rd + 1 = cut[k] + Len(bytes) /\ Len(bytes) \in Nat
  <2>1. rd = cut[k] + Len(tmp)
    BY <1>4
  <2>2. Len(bytes) = Len(tmp) + 1
    BY <1>7
  <2> QED BY <1>5, <2>1, <2>2
<1>9. k < n /\ k + 1 \in Nat /\ k + 1 <= n
  <2>1. k = n => rd <= cut[k] + Len(tmp) /\ cut[k] + Len(tmp) + 1 <= cut[k]
    BY <1>4, <1>5
  <2> QED BY <1>1, <1>2, <1>5, <2>1
<1>10. CASE IsBeat(tape, cut, cnt, k)
  <2>1. cnt[k + 1] = cnt[k] /\ cut[k + 1] = cut[k] + 1 /\ On(tape, cut[k], Heartbeat)
    BY <1>10 DEF IsBeat
  <2>2. tmp = <<>>
    <3>1. ~IsMessage(tape, cut, cnt, k)
      BY <1>1, <2>1 DEF IsMessage
    <3> QED BY <1>4, <3>1
  <2>3. Len(tmp) = 0
    BY <2>2
  <2>4. bytes = Heartbeat
    <3>1. Heartbeat \in Seq(Octet)
      BY RadixAssumption DEF Heartbeat, Octet
    <3>2. Len(Heartbeat) = 1
      BY DEF Heartbeat
    <3>3. Len(bytes) = Len(Heartbeat)
      BY <1>7, <2>3, <3>2
    <3> QED BY <1>5, <1>7, <2>1, <3>1, <3>3, OnSame
  <2>5. rem = 0 /\ new = <<>> /\ d = "size"
    BY <2>4, BeatSize DEF SizeStep
  <2>6. InSizeOf(tape, cut, cnt, n, k + 1, rd + 1, d, rem, new)
    <3>1. rd + 1 = cut[k + 1] + Len(<<>>)
      BY <1>4, <1>5, <2>1, <2>3
    <3>2. On(tape, cut[k + 1], <<>>)
      BY DEF On
    <3> QED BY <2>5, <3>1, <3>2 DEF InSizeOf
  <2>7. Reads(tape, cut, cnt, n, k + 1, rd + 1, d, rem, new, del)
    BY <1>2, <1>9, <2>1, <2>6 DEF Reads
  <2> QED BY <1>9, <2>7
<1>11. CASE IsMessage(tape, cut, cnt, k)
  <2> DEFINE m == Messages[cnt[k + 1]]
             s == serialize_size(SizeOf(m))
             c == serialize_size(m.type) \o m.payload
  <2>1. /\ cnt[k + 1] \in 1..Len(Messages) /\ cut[k + 1] = cut[k] + Len(Code(m))
        /\ On(tape, cut[k], Code(m))
    BY <1>11 DEF IsMessage
  <2>2. /\ SizeOf(m) \in Nat \ {0} /\ SizeOf(m) < Capacity /\ s \in Seq(Octet)
        /\ Len(s) \in 1..5 /\ c \in Seq(Octet) /\ Code(m) = s \o c
        /\ Len(Code(m)) = Len(s) + SizeOf(m)
    BY <2>1, CodeParts
  <2>3. On(tape, cut[k], s)
    <3> HIDE DEF s, c, m
    <3> QED BY <1>5, <2>1, <2>2, OnConcat
  <2>4. Len(tmp) < Len(s)
    <3>1. CASE tmp = <<>>
      <4>1. Len(tmp) = 0
        BY <3>1
      <4>2. 0 < Len(s)
        <5> DEFINE l == Len(s)
        <5>1. l \in 1..5
          BY <2>2
        <5> HIDE DEF l
        <5>2. 0 < l
          BY <5>1
        <5> QED BY <5>2 DEF l
      <4> QED BY <4>1, <4>2, Zenon
    <3>2. CASE tmp # <<>>
      BY <1>4, <3>2
    <3> QED BY <3>1, <3>2
  <2>5. Len(bytes) <= Len(s)
    <3> HIDE DEF s
    <3> QED BY <1>5, <1>7, <2>2, <2>4
  <2>6. /\ can_deserialize_size(bytes) <=> Len(bytes) = Len(s)
        /\ can_deserialize_size(bytes) => deserialize_size(bytes) = SizeOf(m)
    <3> DEFINE v == SizeOf(m)
    <3>1. v \in Nat /\ v < Capacity
      BY <2>2
    <3>2. On(tape, cut[k], serialize_size(v)) /\ Len(bytes) <= Len(serialize_size(v))
      BY <2>3, <2>5
    <3> HIDE DEF v
    <3>3. /\ can_deserialize_size(bytes) <=> Len(bytes) = Len(serialize_size(v))
          /\ can_deserialize_size(bytes) => deserialize_size(bytes) = v
      BY <1>5, <1>7, <3>1, <3>2, SizeBytes
    <3> QED BY <3>3 DEF v
  <2>7. CASE Len(bytes) = Len(s)
    <3>1. rem = SizeOf(m) /\ new = <<>> /\ d = "payload"
      <4> HIDE DEF m, s
      <4> QED BY <2>2, <2>6, <2>7 DEF SizeStep
    <3>2. rd + 1 = cut[k] + Len(s)
      BY <1>8, <2>7
    <3>3. (rd + 1) + rem = cut[k + 1]
      <4> HIDE DEF m, s
      <4> QED BY <1>5, <2>1, <2>2, <3>1, <3>2
    <3>4. rd + 1 = (cut[k] + Len(s)) + Len(new)
      <4> HIDE DEF s
      <4>1. Len(new) = 0
        BY <3>1
      <4> QED BY <3>2, <4>1
    <3>5. On(tape, cut[k] + Len(s), new)
      BY <3>1 DEF On
    <3>6. d # "size" /\ (d = "forward" <=> rem = 0)
      <4> HIDE DEF m
      <4> QED BY <2>2, <3>1
    <3>7. InContentOf(tape, cut, cnt, n, k, rd + 1, d, rem, new)
      BY <1>9, <1>11, <3>3, <3>4, <3>5, <3>6 DEF InContentOf
    <3>8. Reads(tape, cut, cnt, n, k, rd + 1, d, rem, new, del)
      BY <1>2, <3>7 DEF Reads
    <3> QED BY <3>8
  <2>8. CASE Len(bytes) # Len(s)
    <3>1. rem = 0 /\ new = bytes /\ d = "size"
      <4> HIDE DEF m, s
      <4> QED BY <2>6, <2>8 DEF SizeStep
    <3>2. Len(bytes) < Len(s)
      <4>1. Len(s) \in 1..5
        BY <2>2
      <4> HIDE DEF s
      <4> QED BY <1>8, <2>5, <2>8, <4>1
    <3>3. rd + 1 = cut[k] + Len(new)
      BY <1>8, <3>1
    <3>4. InSizeOf(tape, cut, cnt, n, k, rd + 1, d, rem, new)
      BY <1>7, <1>9, <1>11, <3>1, <3>2, <3>3 DEF InSizeOf
    <3>5. Reads(tape, cut, cnt, n, k, rd + 1, d, rem, new, del)
      BY <1>2, <3>4 DEF Reads
    <3> QED BY <3>5
  <2> QED BY <2>7, <2>8
<1> QED BY <1>9, <1>10, <1>11 DEF Layout

\* A part of a message, at most what is left of it, is read.
LEMMA PayloadRead ==
    ASSUME NEW tape, NEW cut, NEW cnt, NEW n, IsTape(tape, cut, cnt, n),
           NEW k \in Nat, NEW rd \in Nat, NEW tmp, IsBytes(tmp), NEW rem \in Nat,
           NEW del, Reads(tape, cut, cnt, n, k, rd, "payload", rem, tmp, del),
           NEW x, IsBytes(x), On(tape, rd, x), Len(x) <= rem,
           NEW d, d = IF rem - Len(x) = 0 THEN "forward" ELSE "wait"
    PROVE  Reads(tape, cut, cnt, n, k, rd + Len(x), d, rem - Len(x), tmp \o x, del)
<1>1. n \in Nat /\ \A j \in Nat : cut[j] \in Nat /\ cnt[j] \in Nat
  BY TapeParts
<1>2. InContentOf(tape, cut, cnt, n, k, rd, "payload", rem, tmp)
  BY DEF Reads, InSizeOf
<1> DEFINE s == serialize_size(SizeOf(Messages[cnt[k + 1]]))
           a == cut[k] + Len(s)
           y == tmp \o x
<1>3. /\ k < n /\ IsMessage(tape, cut, cnt, k)
      /\ rd = a + Len(tmp) /\ On(tape, a, tmp) /\ rd + rem = cut[k + 1]
  BY <1>2 DEF InContentOf
<1>4. a \in Nat
  <2>1. Len(s) \in 1..5
    BY <1>3, CodeParts DEF IsMessage
  <2> HIDE DEF s
  <2> QED BY <1>1, <2>1
<1>5. Len(tmp) \in Nat /\ Len(x) \in Nat
  BY BytesLength
<1>6. Len(y) = Len(tmp) + Len(x)
  BY ConcatProperties DEF IsBytes
<1>7. On(tape, a, y)
  <2> HIDE DEF a
  <2> QED BY <1>3, <1>4, OnConcat DEF IsBytes
<1> HIDE DEF y
<1>8. rd + Len(x) = a + Len(y) /\ (rd + Len(x)) + (rem - Len(x)) = cut[k + 1]
  <2> HIDE DEF a
  <2> QED BY <1>1, <1>3, <1>4, <1>5, <1>6
<1>9. d # "size" /\ (d = "forward" <=> rem - Len(x) = 0)
  OBVIOUS
<1>10. InContentOf(tape, cut, cnt, n, k, rd + Len(x), d, rem - Len(x), y)
  BY <1>3, <1>7, <1>8, <1>9, Zenon DEF InContentOf
<1> QED BY <1>10 DEF Reads, y

\* What follows the type of a message.
LEMMA Remainder ==
    ASSUME NEW x \in Seq(Octet), NEW y \in Seq(Octet)
    PROVE  After(x \o y, Len(x)) = y
<1> DEFINE a == After(x \o y, Len(x))
<1>1. /\ x \o y \in Seq(Octet) /\ Len(x \o y) = Len(x) + Len(y)
      /\ \A i \in 1..(Len(x) + Len(y)) :
            (x \o y)[i] = IF i <= Len(x) THEN x[i] ELSE y[i - Len(x)]
  BY ConcatProperties
<1>2. Len(x) \in Nat /\ Len(y) \in Nat
  OBVIOUS
<1>3. /\ a \in Seq(Octet) /\ Len(a) = Len(x \o y) - Min2(Len(x), Len(x \o y))
      /\ \A i \in 1..Len(a) : a[i] = (x \o y)[Len(x) + i]
  <2> DEFINE z == x \o y
  <2>1. z \in Seq(Octet)
    BY <1>1
  <2> HIDE DEF z
  <2>2. LET b == After(z, Len(x))
        IN  /\ b \in Seq(Octet) /\ Len(b) = Len(z) - Min2(Len(x), Len(z))
            /\ \A i \in 1..Len(b) : b[i] = z[Len(x) + i]
    BY <1>2, <2>1, Afters
  <2> QED BY <2>2 DEF z
<1> HIDE DEF a
<1>4. Len(a) = Len(y)
  BY <1>1, <1>2, <1>3 DEF Min2
<1>5. ASSUME NEW i \in 1..Len(a)
      PROVE  a[i] = y[i]
  <2>1. /\ Len(x) + i \in 1..(Len(x) + Len(y)) /\ ~(Len(x) + i <= Len(x))
        /\ (Len(x) + i) - Len(x) = i
    BY <1>2, <1>4
  <2> QED BY <1>1, <1>3, <2>1
<1> QED BY <1>3, <1>4, <1>5, SeqEqual DEF a

\* The bytes between two sizes are the type and the payload of the next message.
LEMMA MessageRead ==
    ASSUME NEW tape, NEW cut, NEW cnt, NEW n, IsTape(tape, cut, cnt, n),
           NEW k \in Nat, NEW rd \in Nat, NEW tmp, IsBytes(tmp), NEW rem,
           NEW del, Reads(tape, cut, cnt, n, k, rd, "forward", rem, tmp, del),
           NEW msg, msg = [type    |-> deserialize_size(tmp),
                           payload |-> After(tmp, size_end(tmp))]
    PROVE  Reads(tape, cut, cnt, n, k + 1, rd, "size", rem, <<>>, Append(del, msg))
<1>1. n \in Nat /\ \A j \in Nat : cut[j] \in Nat /\ cnt[j] \in Nat
  BY TapeParts
<1>2. InContentOf(tape, cut, cnt, n, k, rd, "forward", rem, tmp)
  BY DEF Reads, InSizeOf
<1> DEFINE i == cnt[k + 1]
           m == Messages[i]
           s == serialize_size(SizeOf(m))
           t == serialize_size(m.type)
           p == m.payload
           c == t \o p
           a == cut[k] + Len(s)
<1>3. /\ k < n /\ IsMessage(tape, cut, cnt, k) /\ rem = 0
      /\ rd = a + Len(tmp) /\ On(tape, a, tmp) /\ rd + rem = cut[k + 1]
  BY <1>2 DEF InContentOf
<1>4. /\ i \in 1..Len(Messages) /\ i = cnt[k] + 1 /\ cut[k + 1] = cut[k] + Len(Code(m))
      /\ On(tape, cut[k], Code(m))
  BY <1>3 DEF IsMessage
<1>5. /\ s \in Seq(Octet) /\ Len(s) \in 1..5 /\ c \in Seq(Octet) /\ Len(c) = SizeOf(m)
      /\ SizeOf(m) \in Nat /\ Code(m) = s \o c /\ Len(Code(m)) = Len(s) + SizeOf(m)
  BY <1>4, CodeParts
<1>6. /\ m \in Message /\ m.type \in Nat /\ p \in Seq(Octet)
      /\ t \in Seq(Octet) /\ Len(t) \in 1..5
  BY <1>4, MessageParts
<1>7. m.type < Capacity
  BY <1>4, SizesAssumption
<1>8. cut[k] \in Nat /\ a \in Nat /\ Len(tmp) \in Nat /\ k + 1 \in Nat /\ rd = cut[k + 1]
  <2>1. cut[k] \in Nat
    BY <1>1
  <2>2. a \in Nat
    <3> HIDE DEF s
    <3> QED BY <1>5, <2>1
  <2>3. Len(tmp) \in Nat
    BY BytesLength
  <2> QED BY <1>3, <2>1, <2>2, <2>3
<1>9. tmp = c
  <2>1. On(tape, a, c)
    <3> HIDE DEF s, c, m
    <3> QED BY <1>4, <1>5, <1>8, OnConcat
  <2>2. Len(tmp) = Len(c)
    <3> HIDE DEF s, c, m
    <3> QED BY <1>3, <1>4, <1>5, <1>8
  <2> HIDE DEF a, c
  <2> QED BY <1>3, <1>5, <1>8, <2>1, <2>2, OnSame DEF IsBytes
<1>10. size_end(c) = Len(t) /\ deserialize_size(c) = m.type
  <2> DEFINE ty == m.type
             l == length(ty)
  <2>1. Len(t) = l
    BY <1>6, Encoded
  <2> HIDE DEF ty, t, p
  <2>2. /\ Len(c) = Len(t) + Len(p)
        /\ \A j \in 1..(Len(t) + Len(p)) : c[j] = IF j <= Len(t) THEN t[j] ELSE p[j - Len(t)]
    BY <1>6, ConcatProperties
  <2>3. Len(p) \in Nat /\ Len(t) \in Nat
    BY <1>6
  <2> HIDE DEF c
  <2>4. Len(c) >= l
    BY <2>1, <2>2, <2>3
  <2>5. \A j \in 1..l : c[j] = t[j]
    BY <2>1, <2>2, <2>3
  <2>6. t = serialize_size(ty)
    BY DEF t, ty
  <2>7. size_end(c) = length(ty) /\ deserialize_size(c) = ty
    <3>1. ty \in Nat /\ ty < Capacity
      BY <1>6, <1>7 DEF ty
    <3>2. \A j \in 1..length(ty) : c[j] = serialize_size(ty)[j]
      BY <2>5, <2>6
    <3> QED BY <1>5, <2>4, <3>1, <3>2, Decoded
  <2> QED BY <2>1, <2>7 DEF ty
<1>11. After(c, Len(t)) = p
  <2> HIDE DEF t, p
  <2> QED BY <1>6, Remainder
<1>12. msg = m
  <2>1. msg = [type |-> m.type, payload |-> m.payload]
    BY <1>9, <1>10, <1>11
  <2> HIDE DEF m
  <2>2. m = [type |-> m.type, payload |-> m.payload]
    BY <1>6 DEF Message
  <2> QED BY <2>1, <2>2
<1>13. /\ del \in Seq(Message) /\ Len(del) = cnt[k] /\ Len(del) \in Nat
       /\ \A j \in 1..Len(del) : del[j] = Messages[j]
  BY <1>1 DEF Reads
<1> DEFINE new == Append(del, m)
<1>14. /\ new \in Seq(Message) /\ Len(new) = i
       /\ \A j \in 1..Len(new) : new[j] = Messages[j]
  <2> HIDE DEF i
  <2>1. m \in Message
    BY <1>6
  <2> HIDE DEF m
  <2>2. new \in Seq(Message) /\ Len(new) = Len(del) + 1
    BY <1>13, <2>1
  <2>3. Len(new) = i
    BY <1>4, <1>13, <2>2
  <2>4. ASSUME NEW j \in 1..Len(new)
        PROVE  new[j] = Messages[j]
    <3>1. CASE j <= Len(del)
      <4>1. new[j] = del[j]
        BY <1>13, <2>1, <3>1
      <4> QED BY <1>13, <3>1, <4>1
    <3>2. CASE j = i
      <4>1. new[j] = m
        BY <1>4, <1>13, <2>1, <3>2
      <4> QED BY <3>2, <4>1 DEF m
    <3> QED BY <1>4, <1>13, <2>2, <2>3, <3>1, <3>2
  <2> QED BY <2>2, <2>3, <2>4
<1>15. InSizeOf(tape, cut, cnt, n, k + 1, rd, "size", rem, <<>>)
  <2>1. rd = cut[k + 1] + Len(<<>>)
    BY <1>1, <1>8
  <2>2. On(tape, cut[k + 1], <<>>)
    BY DEF On
  <2> QED BY <1>3, <2>1, <2>2 DEF InSizeOf
<1>16. k + 1 <= n
  BY <1>1, <1>3
<1> HIDE DEF new
<1>17. Reads(tape, cut, cnt, n, k + 1, rd, "size", rem, <<>>, new)
  BY <1>14, <1>15, <1>16 DEF Reads, i
<1> QED BY <1>12, <1>17 DEF new

\* The steps of deserialize() follow the tape: a byte of a size,
LEMMA ReadSizeFramed ==
    ASSUME SendTypes, WireTypes, ReceiveTypes, Framed, ReadSize
    PROVE  Framed'
<1> DEFINE h == Head(inBuffer)
           bytes == Append(tmpIn, h)
<1>1. /\ deserializer = "size" /\ inBuffer # <<>> /\ inBuffer' = Tail(inBuffer)
      /\ IF can_deserialize_size(bytes)
           THEN /\ remaining' = deserialize_size(bytes) /\ tmpIn' = <<>>
                /\ deserializer' = IF deserialize_size(bytes) = 0 THEN "size" ELSE "payload"
           ELSE tmpIn' = bytes /\ UNCHANGED <<remaining, deserializer>>
      /\ UNCHANGED <<sendVars, wire, delivered>>
  BY DEF ReadSize
<1>2. inBuffer \in Seq(Octet) /\ tmpIn \in Seq(Octet)
  BY DEF ReceiveTypes
<1>3. /\ h \in Octet /\ Tail(inBuffer) \in Seq(Octet) /\ <<h>> \in Seq(Octet)
      /\ Len(<<h>>) = 1
  BY <1>1, <1>2, HeadTailProperties
<1>4. inBuffer = <<h>> \o Tail(inBuffer)
  BY <1>1, <1>2
<1>5. bytes = tmpIn \o <<h>>
  BY <1>2, <1>3
<1>6. IsBytes(<<h>>) /\ IsBytes(Unread') /\ Unread = <<h>> \o Unread'
  <2> HIDE DEF h
  <2> QED BY <1>1, <1>3, <1>4, Consumed
<1>7. PICK tape, cut, cnt, n, k, rd :
        /\ IsTape(tape, cut, cnt, n) /\ k \in Nat /\ rd \in Nat
        /\ Layout(tape, cut, cnt, n) /\ cnt[n] = sent /\ Carries(tape, cut, n, rd, Unread)
        /\ Reads(tape, cut, cnt, n, k, rd, deserializer, remaining, tmpIn, delivered)
  BY Zenon DEF Framed
<1>8. /\ On(tape, rd, <<h>>) /\ rd + 1 \in Nat /\ rd + 1 <= cut[n]
      /\ Carries(tape, cut, n, rd + 1, Unread')
  <2> HIDE DEF h
  <2> DEFINE x == <<h>>
             y == Unread'
  <2>1. Carries(tape, cut, n, rd, x \o y)
    BY <1>6, <1>7
  <2>2. IsBytes(x) /\ IsBytes(y) /\ rd \in Nat
    BY <1>6, <1>7
  <2>3. Len(x) = 1
    BY <1>3
  <2> HIDE DEF x, y
  <2>4. /\ On(tape, rd, x) /\ rd + Len(x) \in Nat /\ rd + Len(x) <= cut[n]
        /\ Carries(tape, cut, n, rd + Len(x), y)
    BY <2>1, <2>2, Taken
  <2> QED BY <2>3, <2>4 DEF x, y
<1>9. remaining = 0
  BY <1>1, <1>7 DEF Reads, InSizeOf, InContentOf
<1>10. OneMore(tape, rd, tmpIn, bytes)
  <2> HIDE DEF h, bytes
  <2> QED BY <1>3, <1>5, <1>8 DEF OneMore
<1>11. SizeStep(bytes, deserializer', remaining', tmpIn')
  <2> HIDE DEF bytes
  <2> QED BY <1>1, <1>9 DEF SizeStep
<1> HIDE DEF bytes, h
<1>12. Reads(tape, cut, cnt, n, k, rd, "size", 0, tmpIn, delivered)
  BY <1>1, <1>7, <1>9
<1>13. IsBytes(tmpIn)
  BY <1>2 DEF IsBytes
<1>14. \E j \in Nat :
         Reads(tape, cut, cnt, n, j, rd + 1, deserializer', remaining', tmpIn', delivered)
  <2>1. /\ IsTape(tape, cut, cnt, n) /\ Layout(tape, cut, cnt, n) /\ k \in Nat /\ rd \in Nat
        /\ rd + 1 <= cut[n]
    BY <1>7, <1>8
  <2> QED BY <1>10, <1>11, <1>12, <1>13, <2>1, SizeRead
<1>15. delivered' = delivered /\ sent' = sent
  BY <1>1 DEF sendVars
<1> QED BY <1>7, <1>8, <1>14, <1>15, Zenon DEF Framed

\* a part of a message,
LEMMA ReadPayloadFramed ==
    ASSUME SendTypes, WireTypes, ReceiveTypes, Framed, ReadPayload
    PROVE  Framed'
<1> DEFINE x == First(inBuffer, remaining)
           l == Min2(remaining, Len(inBuffer))
           y == After(inBuffer, l)
<1>1. /\ deserializer = "payload" /\ tmpIn' = tmpIn \o x /\ inBuffer' = y
      /\ remaining' = remaining - l
      /\ deserializer' = IF remaining' = 0 THEN "forward" ELSE "wait"
      /\ UNCHANGED <<sendVars, wire, delivered>>
  BY DEF ReadPayload
<1>2. inBuffer \in Seq(Octet) /\ tmpIn \in Seq(Octet) /\ remaining \in Nat
  BY DEF ReceiveTypes
<1>3. l \in Nat /\ l <= remaining /\ l <= Len(inBuffer) /\ Min2(l, Len(inBuffer)) = l
  BY <1>2 DEF Min2
<1>4. x = First(inBuffer, l)
  BY <1>3 DEF First
<1>5. x \in Seq(Octet) /\ Len(x) = l
  <2> HIDE DEF l, x
  <2> QED BY <1>2, <1>3, <1>4, Firsts
<1>6. y \in Seq(Octet) /\ inBuffer = x \o y
  <2> HIDE DEF l, x
  <2>1. y \in Seq(Octet)
    BY <1>2, <1>3, Afters
  <2>2. First(inBuffer, l) \o y = inBuffer
    BY <1>2, <1>3, Split
  <2> QED BY <1>4, <2>1, <2>2
<1> HIDE DEF x, y, l
<1>7. IsBytes(x) /\ IsBytes(Unread') /\ Unread = x \o Unread'
  BY <1>1, <1>5, <1>6, Consumed
<1>8. PICK tape, cut, cnt, n, k, rd :
        /\ IsTape(tape, cut, cnt, n) /\ k \in Nat /\ rd \in Nat
        /\ Layout(tape, cut, cnt, n) /\ cnt[n] = sent /\ Carries(tape, cut, n, rd, Unread)
        /\ Reads(tape, cut, cnt, n, k, rd, deserializer, remaining, tmpIn, delivered)
  BY Zenon DEF Framed
<1>9. /\ On(tape, rd, x) /\ rd + Len(x) \in Nat
      /\ Carries(tape, cut, n, rd + Len(x), Unread')
  <2> DEFINE z == Unread'
  <2>1. Carries(tape, cut, n, rd, x \o z) /\ rd \in Nat /\ IsBytes(z)
    BY <1>7, <1>8
  <2> HIDE DEF z
  <2>2. On(tape, rd, x) /\ rd + Len(x) \in Nat /\ Carries(tape, cut, n, rd + Len(x), z)
    BY <1>7, <2>1, Taken
  <2> QED BY <2>2 DEF z
<1>10. Reads(tape, cut, cnt, n, k, rd, "payload", remaining, tmpIn, delivered)
  BY <1>1, <1>8
<1>11. IsBytes(tmpIn) /\ Len(x) <= remaining /\ remaining' = remaining - Len(x)
  BY <1>1, <1>2, <1>3, <1>5 DEF IsBytes
<1>12. deserializer' = IF remaining - Len(x) = 0 THEN "forward" ELSE "wait"
  BY <1>1, <1>11
<1>13. Reads(tape, cut, cnt, n, k, rd + Len(x), deserializer', remaining - Len(x),
             tmpIn \o x, delivered)
  <2>1. IsTape(tape, cut, cnt, n) /\ k \in Nat /\ rd \in Nat
    BY <1>8
  <2> QED BY <1>2, <1>7, <1>9, <1>10, <1>11, <1>12, <2>1, PayloadRead
<1>14. delivered' = delivered /\ sent' = sent
  BY <1>1 DEF sendVars
<1>15. Reads(tape, cut, cnt, n, k, rd + Len(x), deserializer', remaining', tmpIn', delivered')
  BY <1>1, <1>11, <1>13, <1>14, Zenon
<1> QED BY <1>8, <1>9, <1>14, <1>15, Zenon DEF Framed

\* and the message handed to the communicator.
LEMMA ForwardFramed ==
    ASSUME SendTypes, WireTypes, ReceiveTypes, Framed, Forward
    PROVE  Framed'
<1> DEFINE msg == [type    |-> deserialize_size(tmpIn),
                   payload |-> After(tmpIn, size_end(tmpIn))]
<1>1. /\ deserializer = "forward" /\ delivered' = Append(delivered, msg) /\ tmpIn' = <<>>
      /\ deserializer' = "size"
      /\ UNCHANGED <<sent, sender, outBuffer, wire, inBuffer, remaining>>
  BY DEF Forward, sendVars
<1>2. PICK tape, cut, cnt, n, k, rd :
        /\ IsTape(tape, cut, cnt, n) /\ k \in Nat /\ rd \in Nat
        /\ Layout(tape, cut, cnt, n) /\ cnt[n] = sent /\ Carries(tape, cut, n, rd, Unread)
        /\ Reads(tape, cut, cnt, n, k, rd, deserializer, remaining, tmpIn, delivered)
  BY Zenon DEF Framed
<1>3. IsBytes(tmpIn)
  BY DEF ReceiveTypes, IsBytes
<1>4. Reads(tape, cut, cnt, n, k, rd, "forward", remaining, tmpIn, delivered)
  BY <1>1, <1>2
<1>5. Reads(tape, cut, cnt, n, k + 1, rd, "size", remaining, <<>>, Append(delivered, msg))
  <2>1. IsTape(tape, cut, cnt, n) /\ k \in Nat /\ rd \in Nat
    BY <1>2
  <2> QED BY <1>3, <1>4, <2>1, MessageRead, Zenon
<1> HIDE DEF msg
<1>6. Reads(tape, cut, cnt, n, k + 1, rd, deserializer', remaining', tmpIn', delivered')
  BY <1>1, <1>5, Zenon
<1>7. Unread' = Unread /\ sent' = sent
  BY <1>1 DEF Unread, Pending
<1>8. k + 1 \in Nat
  BY <1>2
<1> QED BY <1>2, <1>6, <1>7, <1>8, Zenon DEF Framed

----------------------------------------------------------------------------
(* The messages arrive in their order.                                     *)

\* Every step that disturbs no waiting send() keeps to the frames; one that does is
\* remembered.
LEMMA FramedStep ==
    ASSUME SendTypes, WireTypes, ReceiveTypes, rewrites = 0 /\ ~mixed => Framed, Next,
           rewrites' = 0, ~mixed'
    PROVE  Framed'
<1>1. rewrites = 0
  <2>1. CASE WakeTooEarly
    <3>1. rewrites \in Nat /\ rewrites' = rewrites + 1
      BY <2>1, BoundsAssumption DEF WakeTooEarly, SendTypes
    <3> QED BY <3>1
  <2>2. CASE rewrites' = rewrites
    BY <2>2
  <2> QED BY <2>1, <2>2 DEF Next, Send, WakeInHeader, WakeInPayload, OnTimeout, WakeInHeartbeat,
             OnSendCompleted, OnReceiveCompleted, ReceiveAgain, Deserialize, ReadSize,
             ReadSizeEmpty, ReadPayload, Forward, wait_for_more_data, sendVars
<1>2. ~mixed
  BY Zenon DEF Next, Send, WakeTooEarly, WakeInHeader, WakeInPayload, OnTimeout,
     WakeInHeartbeat, OnSendCompleted, OnReceiveCompleted, ReceiveAgain, Deserialize, ReadSize,
     ReadSizeEmpty, ReadPayload, Forward, wait_for_more_data, sendVars
<1>3. Framed
  BY <1>1, <1>2
<1>4. ~WakeTooEarly
  <2>1. WakeTooEarly => rewrites' = rewrites + 1
    BY DEF WakeTooEarly
  <2> QED BY <1>1, <2>1
<1>5. CASE Send
  BY <1>3, <1>5, SendFramed
<1>6. CASE WakeInHeader
  BY <1>3, <1>6, WakeInHeaderFramed
<1>7. CASE WakeInPayload
  BY <1>3, <1>7, WakeInPayloadFramed
<1>8. CASE OnTimeout
  BY <1>3, <1>8, OnTimeoutFramed
<1>9. CASE WakeInHeartbeat
  <2>1. sender = Idle
    BY <1>9, Zenon DEF WakeInHeartbeat
  <2> QED BY <1>3, <1>9, <2>1, BeatFramed DEF WakeInHeartbeat
<1>10. ASSUME NEW n \in 1..OutSize, OnSendCompleted(n)
       PROVE  Framed'
  BY <1>3, <1>10, OnSendCompletedFramed
<1>11. ASSUME NEW n \in 0..InSize, OnReceiveCompleted(n)
       PROVE  Framed'
  BY <1>3, <1>11, OnReceiveCompletedFramed
<1>12. ASSUME UNCHANGED <<sendVars, wire, inBuffer, remaining, tmpIn, delivered>>,
              Moves(deserializer, remaining, deserializer')
       PROVE  Framed'
  <2>1. Unread' = Unread /\ sent' = sent
    BY <1>12 DEF Unread, Pending, sendVars
  <2> QED BY <1>3, <1>12, <2>1, Quiet
<1>13. CASE ReceiveAgain
  <2>1. Moves(deserializer, remaining, deserializer')
    BY <1>13 DEF ReceiveAgain, Moves
  <2> QED BY <1>12, <1>13, <2>1 DEF ReceiveAgain
<1>14. CASE ReadSizeEmpty
  <2>1. Moves(deserializer, remaining, deserializer')
    BY <1>14 DEF ReadSizeEmpty, Moves
  <2> QED BY <1>12, <1>14, <2>1 DEF ReadSizeEmpty
<1>15. CASE wait_for_more_data
  <2>1. Moves(deserializer, remaining, deserializer')
    BY <1>15 DEF wait_for_more_data, Moves, Begin
  <2> QED BY <1>12, <1>15, <2>1 DEF wait_for_more_data
<1>16. CASE ReadSize
  BY <1>3, <1>16, ReadSizeFramed
<1>17. CASE ReadPayload
  BY <1>3, <1>17, ReadPayloadFramed
<1>18. CASE Forward
  BY <1>3, <1>18, ForwardFramed
<1> QED BY <1>4, <1>5, <1>6, <1>7, <1>8, <1>9, <1>10, <1>11, <1>13, <1>14, <1>15, <1>16,
           <1>17, <1>18, Zenon DEF Next, Deserialize

\* Nothing is written at the start.
LEMMA FramedInit == ASSUME Init PROVE Framed
<1> DEFINE z == [i \in Nat |-> 0]
<1>1. /\ sent = 0 /\ sender = Idle /\ outBuffer = <<>> /\ wire = <<>> /\ inBuffer = <<>>
      /\ deserializer = "off" /\ remaining = 0 /\ tmpIn = <<>> /\ delivered = <<>>
  BY DEF Init
<1>2. 0 \in Octet /\ 0 \in Nat
  BY RadixAssumption DEF Octet
<1>3. z \in [Nat -> Octet] /\ z \in [Nat -> Nat] /\ z[0] = 0
  BY <1>2
<1>4. IsTape(z, z, z, 0)
  BY <1>2, <1>3 DEF IsTape
<1>5. Layout(z, z, z, 0)
  <2>1. \A j \in 0..0 : j = 0
    OBVIOUS
  <2>2. \A j \in Nat : ~(j < 0)
    OBVIOUS
  <2>3. z[0] <= z[0]
    BY <1>3
  <2> HIDE DEF z
  <2> QED BY <2>1, <2>2, <2>3 DEF Layout
<1>6. Unread = <<>>
  <2>1. Pending = <<>>
    BY <1>1, IdlePending
  <2> QED BY <1>1, <2>1 DEF Unread
<1> HIDE DEF z
<1>7. On(z, 0, <<>>) /\ Len(<<>>) = 0
  BY DEF On
<1>8. Carries(z, z, 0, 0, Unread)
  BY <1>3, <1>6, <1>7 DEF Carries
<1>9. InSizeOf(z, z, z, 0, 0, 0, deserializer, remaining, tmpIn)
  BY <1>1, <1>3, <1>7 DEF InSizeOf
<1>10. /\ delivered \in Seq(Message) /\ Len(delivered) = z[0]
       /\ \A i \in 1..Len(delivered) : delivered[i] = Messages[i]
  BY <1>1, <1>3
<1>11. Reads(z, z, z, 0, 0, 0, deserializer, remaining, tmpIn, delivered)
  BY <1>9, <1>10 DEF Reads
<1>12. z[0] = sent
  BY <1>1, <1>3
<1> QED BY <1>2, <1>4, <1>5, <1>8, <1>11, <1>12, Zenon DEF Framed

\* On a tape the messages are in order.
LEMMA FramedOrder == ASSUME Framed PROVE DeliveredInOrder
<1>1. PICK tape, cut, cnt, n, k, rd :
        /\ IsTape(tape, cut, cnt, n) /\ k \in Nat /\ rd \in Nat
        /\ Layout(tape, cut, cnt, n) /\ cnt[n] = sent /\ Carries(tape, cut, n, rd, Unread)
        /\ Reads(tape, cut, cnt, n, k, rd, deserializer, remaining, tmpIn, delivered)
  BY Zenon DEF Framed
<1>2. k <= n /\ Len(delivered) = cnt[k] /\ \A i \in 1..Len(delivered) : delivered[i] = Messages[i]
  BY <1>1 DEF Reads
<1>3. k \in 0..n
  <2>1. n \in Nat
    BY <1>1, TapeParts
  <2> QED BY <1>1, <1>2, <2>1
<1>4. cnt[k] <= sent
  BY <1>1, <1>3 DEF Layout
<1> QED BY <1>2, <1>4 DEF DeliveredInOrder

\* Stuttering.
LEMMA SameFramed == ASSUME UNCHANGED vars, Framed PROVE Framed'
<1>1. UNCHANGED <<sent, sender, outBuffer, wire, receiveVars>>
  BY DEF vars, sendVars
<1> QED BY <1>1, SameOut

\* The communicator is given the messages that were sent, whole, in the order in
\* which they were sent and each of them once (InOrderIfUndisturbed), however the
\* ring buffers, the socket and the scheduler cut the bytes into pieces, unless a
\* waiting send() was woken when only a part of its rest fits or a heartbeat was
\* written meanwhile.
THEOREM MessagesInOrder == Spec => []InOrderIfUndisturbed
<1>1. Init => FInv
  BY TypedInit, FramedInit DEF FInv
<1>2. FInv /\ [Next]_vars => FInv'
  <2> SUFFICES ASSUME FInv, [Next]_vars
               PROVE  FInv'
    OBVIOUS
  <2>1. Typed /\ SendTypes /\ WireTypes /\ ReceiveTypes
    BY TypedParts DEF FInv
  <2>2. Typed'
    BY <2>1, TypedStep
  <2>3. CASE UNCHANGED vars
    <3>1. rewrites' = rewrites /\ mixed' = mixed
      BY <2>3 DEF vars, sendVars
    <3> QED BY <2>2, <2>3, <3>1, SameFramed, Zenon DEF FInv
  <2>4. CASE Next
    <3>1. rewrites = 0 /\ ~mixed => Framed
      BY DEF FInv
    <3>2. rewrites' = 0 /\ ~mixed' => Framed'
      BY <2>1, <2>4, <3>1, FramedStep, Zenon
    <3> QED BY <2>2, <3>2 DEF FInv
  <2> QED BY <2>3, <2>4
<1>3. FInv => InOrderIfUndisturbed
  BY FramedOrder DEF FInv, InOrderIfUndisturbed
<1> QED BY <1>1, <1>2, <1>3, PTL DEF Spec
=============================================================================
