---------------------- MODULE MappingInvariant_proofs ----------------------
(***************************************************************************)
(* That the machines of MappedObjectFsm keep what MappingInvariant says of *)
(* two registers, and what it is good for: an element never gets a message *)
(* that its state does not expect, an element that is not destroyed is     *)
(* mapped to one that exists and has the same identifier, and when no      *)
(* message is under way two visible elements are mapped to each other if   *)
(* and only if they have the same identifier.                              *)
(*                                                                         *)
(* A message is received, sent or both by one end.  What a step of the     *)
(* machine does to the element, the queue to it and the queue to the other *)
(* end is one of a few events (an element is created, hidden, mapped,      *)
(* released, ...), and there is one lemma for each event, with one step    *)
(* for each condition at each end.  Everything is symmetric, so that only  *)
(* the steps of the end (r, q) are considered.                             *)
(***************************************************************************)
EXTENDS MappingInvariant, Integers, FiniteSetTheorems, TLAPS

----------------------------------------------------------------------------
(* Queues.                                                                 *)

\* w2 is w with m at its end, at place n.
Pushed(w, w2, n, m) ==
    /\ n \in Nat /\ Places(w2) = Places(w) \cup {n} /\ w2[n] = m
    /\ \A p \in Places(w) : p < n /\ w2[p] = w[p]

\* q2 is q without its first message, the one at place h.
Popped(q, q2, h) ==
    /\ h \in Places(q) /\ Places(q2) = Places(q) \ {h}
    /\ \A p \in Places(q2) : h < p /\ q2[p] = q[p]

\* What a queue has after a message is sent.
LEMMA PushedHas ==
    ASSUME NEW w, NEW w2, NEW n, NEW m, NEW t, Pushed(w, w2, n, m)
    PROVE  /\ \A j : HasDescription(w2, t, j)
                  <=> HasDescription(w, t, j) \/ (m.type = "Description" /\ m.to = t /\ m.own = j)
           /\ \A i, j : HasMapping(w2, t, i, j)
                  <=> HasMapping(w, t, i, j)
                        \/ (m.type = "Mapping" /\ m.to = t /\ m.id = i /\ m.own = j)
           /\ \A i : HasReply(w2, t, i)
                  <=> HasReply(w, t, i)
                        \/ (m.type \in {"Mapping", "Noticed"} /\ m.to = t /\ m.id = i)
           /\ \A i : Acked(w2, t, i)
                  <=> Acked(w, t, i) \/ (m.type = "RemovedAck" /\ m.to = t /\ m.id = i)
BY DEF Pushed, HasDescription, Describes, HasMapping, Maps, HasReply, Replies, Acked, Acks

\* What it had before a message is received.
LEMMA PoppedHas ==
    ASSUME NEW q, NEW q2, NEW h, NEW s, Popped(q, q2, h)
    PROVE  /\ \A j : HasDescription(q, s, j)
                  <=> HasDescription(q2, s, j)
                        \/ (q[h].type = "Description" /\ q[h].to = s /\ q[h].own = j)
           /\ \A i, j : HasMapping(q, s, i, j)
                  <=> HasMapping(q2, s, i, j)
                        \/ (q[h].type = "Mapping" /\ q[h].to = s /\ q[h].id = i /\ q[h].own = j)
           /\ \A i : HasReply(q, s, i)
                  <=> HasReply(q2, s, i)
                        \/ (q[h].type \in {"Mapping", "Noticed"} /\ q[h].to = s /\ q[h].id = i)
           /\ \A i : Acked(q, s, i)
                  <=> Acked(q2, s, i)
                        \/ (q[h].type = "RemovedAck" /\ q[h].to = s /\ q[h].id = i)
BY DEF Popped, HasDescription, Describes, HasMapping, Maps, HasReply, Replies, Acked, Acks

\* The removals of a queue can be counted.
LEMMA RemovalsCount ==
    ASSUME NEW q, NEW s, NEW i, Queue(q)
    PROVE  /\ IsFiniteSet({p \in Places(q) : Removes(q, s, p, i)})
           /\ Removals(q, s, i) \in Nat
           /\ Removals(q, s, i) = 0 <=> \A p \in Places(q) : ~Removes(q, s, p, i)
<1> DEFINE S == {p \in Places(q) : Removes(q, s, p, i)}
<1>1. IsFiniteSet(S)
  BY FS_Subset DEF Queue
<1>2. Cardinality(S) \in Nat /\ (Cardinality(S) = 0 <=> S = {})
  BY <1>1, FS_CardinalityType, FS_EmptySet
<1> QED BY <1>1, <1>2 DEF Removals

\* A removal is sent, or something else is.
LEMMA PushedRemovals ==
    ASSUME NEW w, NEW w2, NEW n, NEW m, NEW t, Pushed(w, w2, n, m), Queue(w)
    PROVE  /\ Queue(w2)
           /\ \A i : Removals(w2, t, i) = Removals(w, t, i)
                + IF m.type = "Removed" /\ m.to = t /\ m.id = i THEN 1 ELSE 0
<1>1. Queue(w2)
  <2>1. IsFiniteSet(Places(w2))
    BY FS_AddElement DEF Pushed, Queue
  <2> QED BY <2>1 DEF Pushed, Queue
<1>2. ASSUME NEW i
      PROVE  Removals(w2, t, i) = Removals(w, t, i)
               + IF m.type = "Removed" /\ m.to = t /\ m.id = i THEN 1 ELSE 0
  <2> DEFINE S == {p \in Places(w) : Removes(w, t, p, i)}
             T == {p \in Places(w2) : Removes(w2, t, p, i)}
  <2>1. IsFiniteSet(S) /\ Removals(w, t, i) = Cardinality(S) /\ Removals(w, t, i) \in Nat
    BY RemovalsCount DEF Removals
  <2>2. n \notin S /\ Removals(w2, t, i) = Cardinality(T)
    BY DEF Pushed, Removals
  <2>3. CASE m.type = "Removed" /\ m.to = t /\ m.id = i
    <3>1. T = S \cup {n}
      BY <2>3 DEF Pushed, Removes
    <3>2. Cardinality(T) = Cardinality(S) + 1
      BY <3>1, <2>1, <2>2, FS_AddElement
    <3> QED BY <3>2, <2>1, <2>2, <2>3
  <2>4. CASE ~(m.type = "Removed" /\ m.to = t /\ m.id = i)
    <3>1. T = S
      BY <2>4 DEF Pushed, Removes
    <3>2. Cardinality(T) = Cardinality(S)
      BY <3>1
    <3> HIDE DEF S, T
    <3> QED BY <3>2, <2>1, <2>2, <2>4
  <2> QED BY <2>3, <2>4
<1> QED BY <1>1, <1>2

\* A removal is received, or something else is.
LEMMA PoppedRemovals ==
    ASSUME NEW q, NEW q2, NEW h, NEW s, Popped(q, q2, h), Queue(q)
    PROVE  /\ Queue(q2)
           /\ \A i : Removals(q, s, i) = Removals(q2, s, i)
                + IF q[h].type = "Removed" /\ q[h].to = s /\ q[h].id = i THEN 1 ELSE 0
<1>1. Queue(q2)
  <2>1. IsFiniteSet(Places(q2))
    BY FS_Subset DEF Popped, Queue
  <2> QED BY <2>1 DEF Popped, Queue
<1>2. ASSUME NEW i
      PROVE  Removals(q, s, i) = Removals(q2, s, i)
               + IF q[h].type = "Removed" /\ q[h].to = s /\ q[h].id = i THEN 1 ELSE 0
  <2> DEFINE S == {p \in Places(q) : Removes(q, s, p, i)}
             T == {p \in Places(q2) : Removes(q2, s, p, i)}
  <2>1. IsFiniteSet(S) /\ Removals(q, s, i) = Cardinality(S) /\ Removals(q, s, i) \in Nat
    BY RemovalsCount DEF Removals
  <2>2. IsFiniteSet(T) /\ Removals(q2, s, i) = Cardinality(T) /\ Removals(q2, s, i) \in Nat
    BY <1>1, RemovalsCount DEF Removals
  <2>3. CASE q[h].type = "Removed" /\ q[h].to = s /\ q[h].id = i
    <3>1. h \in S /\ T = S \ {h}
      BY <2>3 DEF Popped, Removes
    <3>2. Cardinality(T) = Cardinality(S) - 1
      BY <3>1, <2>1, FS_RemoveElement
    <3> HIDE DEF S, T
    <3> QED BY <3>2, <2>1, <2>2, <2>3
  <2>4. CASE ~(q[h].type = "Removed" /\ q[h].to = s /\ q[h].id = i)
    <3>1. T = S
      BY <2>4 DEF Popped, Removes
    <3>2. Cardinality(T) = Cardinality(S)
      BY <3>1
    <3> HIDE DEF S, T
    <3> QED BY <3>2, <2>1, <2>2, <2>4
  <2> QED BY <2>3, <2>4
<1> QED BY <1>1, <1>2

\* q2 is q without its first message, the one at place h; the others say what they said.
Shortened(q, q2, h, s) ==
    /\ Queue(q2) /\ h \in Places(q) /\ h \in Nat
    /\ \A p \in Places(q) : p \in Nat /\ h <= p /\ (p \in Places(q2) \/ p = h)
    /\ \A p \in Places(q2) : p \in Nat /\ p \in Places(q) /\ h < p /\ q2[p] = q[p]
    /\ \A p \in Places(q2) : \A k : Describes(q2, s, p, k) <=> Describes(q, s, p, k)
    /\ \A p \in Places(q2) : \A k, l : Maps(q2, s, p, k, l) <=> Maps(q, s, p, k, l)
    /\ \A p \in Places(q2) : \A k : Replies(q2, s, p, k) <=> Replies(q, s, p, k)
    /\ \A p \in Places(q2) : \A k : Removes(q2, s, p, k) <=> Removes(q, s, p, k)
    /\ \A p \in Places(q2) : \A k : Acks(q2, s, p, k) <=> Acks(q, s, p, k)
    /\ \A p \in Places(q2) : \A k : Speaks(q2, s, p, k) <=> Speaks(q, s, p, k)
    /\ \A p \in Places(q2) : \A e, x, l : Marks(e, q2, s, p, x, l) <=> Marks(e, q, s, p, x, l)

\* w2 is w with one more message, at place n.
Extended(w, w2, n, t) ==
    /\ Queue(w2) /\ n \in Places(w2) /\ n \in Nat
    /\ \A p \in Places(w2) : p \in Nat /\ p <= n /\ (p \in Places(w) \/ p = n)
    /\ \A p \in Places(w) : p \in Nat /\ p \in Places(w2) /\ p < n /\ w2[p] = w[p]
    /\ \A p \in Places(w) : \A k : Describes(w2, t, p, k) <=> Describes(w, t, p, k)
    /\ \A p \in Places(w) : \A k, l : Maps(w2, t, p, k, l) <=> Maps(w, t, p, k, l)
    /\ \A p \in Places(w) : \A k : Replies(w2, t, p, k) <=> Replies(w, t, p, k)
    /\ \A p \in Places(w) : \A k : Removes(w2, t, p, k) <=> Removes(w, t, p, k)
    /\ \A p \in Places(w) : \A k : Acks(w2, t, p, k) <=> Acks(w, t, p, k)
    /\ \A p \in Places(w) : \A k : Speaks(w2, t, p, k) <=> Speaks(w, t, p, k)
    /\ \A p \in Places(w) : \A e, x, l : Marks(e, w2, t, p, x, l) <=> Marks(e, w, t, p, x, l)

\* The first message of q is of type Description.
PopsDescription(q, q2, h, s, j) ==
    /\ Shortened(q, q2, h, s) /\ q[h].type = "Description" /\ q[h].to = s /\ q[h].own = j
    /\ \A k : HasDescription(q, s, k) <=> HasDescription(q2, s, k) \/ (k = j)
    /\ \A k, l : HasMapping(q, s, k, l) <=> HasMapping(q2, s, k, l)
    /\ \A k : HasReply(q, s, k) <=> HasReply(q2, s, k)
    /\ \A k : Acked(q, s, k) <=> Acked(q2, s, k)
    /\ \A k : Removals(q, s, k) = Removals(q2, s, k)
    /\ \A k : Describes(q, s, h, k) <=> k = j
    /\ \A k : ~Replies(q, s, h, k) /\ ~Removes(q, s, h, k) /\ ~Acks(q, s, h, k)
          /\ ~Speaks(q, s, h, k)
    /\ \A k, l : ~Maps(q, s, h, k, l)

\* The first message of q is of type Mapping.
PopsMapping(q, q2, h, s, i, j) ==
    /\ Shortened(q, q2, h, s) /\ q[h].type = "Mapping" /\ q[h].to = s /\ q[h].id = i /\ q[h].own = j
    /\ \A k : HasDescription(q, s, k) <=> HasDescription(q2, s, k)
    /\ \A k, l : HasMapping(q, s, k, l) <=> HasMapping(q2, s, k, l) \/ (k = i /\ l = j)
    /\ \A k : HasReply(q, s, k) <=> HasReply(q2, s, k) \/ (k = i)
    /\ \A k : Acked(q, s, k) <=> Acked(q2, s, k)
    /\ \A k : Removals(q, s, k) = Removals(q2, s, k)
    /\ \A k, l : Maps(q, s, h, k, l) <=> k = i /\ l = j
    /\ \A k : Replies(q, s, h, k) <=> k = i
    /\ \A k : Speaks(q, s, h, k) <=> k = i
    /\ \A k : ~Describes(q, s, h, k) /\ ~Removes(q, s, h, k) /\ ~Acks(q, s, h, k)

\* The first message of q is of type Noticed.
PopsNoticed(q, q2, h, s, i) ==
    /\ Shortened(q, q2, h, s) /\ q[h].type = "Noticed" /\ q[h].to = s /\ q[h].id = i
    /\ \A k : HasDescription(q, s, k) <=> HasDescription(q2, s, k)
    /\ \A k, l : HasMapping(q, s, k, l) <=> HasMapping(q2, s, k, l)
    /\ \A k : HasReply(q, s, k) <=> HasReply(q2, s, k) \/ (k = i)
    /\ \A k : Acked(q, s, k) <=> Acked(q2, s, k)
    /\ \A k : Removals(q, s, k) = Removals(q2, s, k)
    /\ \A k : Replies(q, s, h, k) <=> k = i
    /\ \A k : Speaks(q, s, h, k) <=> k = i
    /\ \A k : ~Describes(q, s, h, k) /\ ~Removes(q, s, h, k) /\ ~Acks(q, s, h, k)
    /\ \A k, l : ~Maps(q, s, h, k, l)

\* The first message of q is of type Removed.
PopsRemoved(q, q2, h, s, i) ==
    /\ Shortened(q, q2, h, s) /\ q[h].type = "Removed" /\ q[h].to = s /\ q[h].id = i
    /\ \A k : HasDescription(q, s, k) <=> HasDescription(q2, s, k)
    /\ \A k, l : HasMapping(q, s, k, l) <=> HasMapping(q2, s, k, l)
    /\ \A k : HasReply(q, s, k) <=> HasReply(q2, s, k)
    /\ \A k : Acked(q, s, k) <=> Acked(q2, s, k)
    /\ \A k : Removals(q, s, k) = IF k = i THEN Removals(q2, s, k) + 1 ELSE Removals(q2, s, k)
    /\ \A k : Removes(q, s, h, k) <=> k = i
    /\ \A k : Speaks(q, s, h, k) <=> k = i
    /\ \A k : ~Describes(q, s, h, k) /\ ~Replies(q, s, h, k) /\ ~Acks(q, s, h, k)
    /\ \A k, l : ~Maps(q, s, h, k, l)

\* The first message of q is of type RemovedAck.
PopsRemovedAck(q, q2, h, s, i) ==
    /\ Shortened(q, q2, h, s) /\ q[h].type = "RemovedAck" /\ q[h].to = s /\ q[h].id = i
    /\ \A k : HasDescription(q, s, k) <=> HasDescription(q2, s, k)
    /\ \A k, l : HasMapping(q, s, k, l) <=> HasMapping(q2, s, k, l)
    /\ \A k : HasReply(q, s, k) <=> HasReply(q2, s, k)
    /\ \A k : Acked(q, s, k) <=> Acked(q2, s, k) \/ (k = i)
    /\ \A k : Removals(q, s, k) = Removals(q2, s, k)
    /\ \A k : Acks(q, s, h, k) <=> k = i
    /\ \A k : Speaks(q, s, h, k) <=> k = i
    /\ \A k : ~Describes(q, s, h, k) /\ ~Replies(q, s, h, k) /\ ~Removes(q, s, h, k)
    /\ \A k, l : ~Maps(q, s, h, k, l)

\* A message of type Description is sent.
PushesDescription(w, w2, n, t, j) ==
    /\ Extended(w, w2, n, t) /\ w2[n].type = "Description" /\ w2[n].to = t /\ w2[n].own = j
    /\ \A k : HasDescription(w2, t, k) <=> HasDescription(w, t, k) \/ (k = j)
    /\ \A k, l : HasMapping(w2, t, k, l) <=> HasMapping(w, t, k, l)
    /\ \A k : HasReply(w2, t, k) <=> HasReply(w, t, k)
    /\ \A k : Acked(w2, t, k) <=> Acked(w, t, k)
    /\ \A k : Removals(w2, t, k) = Removals(w, t, k)
    /\ \A k : Describes(w2, t, n, k) <=> k = j
    /\ \A k : ~Replies(w2, t, n, k) /\ ~Removes(w2, t, n, k) /\ ~Acks(w2, t, n, k)
          /\ ~Speaks(w2, t, n, k)
    /\ \A k, l : ~Maps(w2, t, n, k, l)

\* A message of type Mapping is sent.
PushesMapping(w, w2, n, t, i, j) ==
    /\ Extended(w, w2, n, t) /\ w2[n].type = "Mapping" /\ w2[n].to = t /\ w2[n].id = i
          /\ w2[n].own = j
    /\ \A k : HasDescription(w2, t, k) <=> HasDescription(w, t, k)
    /\ \A k, l : HasMapping(w2, t, k, l) <=> HasMapping(w, t, k, l) \/ (k = i /\ l = j)
    /\ \A k : HasReply(w2, t, k) <=> HasReply(w, t, k) \/ (k = i)
    /\ \A k : Acked(w2, t, k) <=> Acked(w, t, k)
    /\ \A k : Removals(w2, t, k) = Removals(w, t, k)
    /\ \A k, l : Maps(w2, t, n, k, l) <=> k = i /\ l = j
    /\ \A k : Replies(w2, t, n, k) <=> k = i
    /\ \A k : Speaks(w2, t, n, k) <=> k = i
    /\ \A k : ~Describes(w2, t, n, k) /\ ~Removes(w2, t, n, k) /\ ~Acks(w2, t, n, k)

\* A message of type Noticed is sent.
PushesNoticed(w, w2, n, t, i) ==
    /\ Extended(w, w2, n, t) /\ w2[n].type = "Noticed" /\ w2[n].to = t /\ w2[n].id = i
    /\ \A k : HasDescription(w2, t, k) <=> HasDescription(w, t, k)
    /\ \A k, l : HasMapping(w2, t, k, l) <=> HasMapping(w, t, k, l)
    /\ \A k : HasReply(w2, t, k) <=> HasReply(w, t, k) \/ (k = i)
    /\ \A k : Acked(w2, t, k) <=> Acked(w, t, k)
    /\ \A k : Removals(w2, t, k) = Removals(w, t, k)
    /\ \A k : Replies(w2, t, n, k) <=> k = i
    /\ \A k : Speaks(w2, t, n, k) <=> k = i
    /\ \A k : ~Describes(w2, t, n, k) /\ ~Removes(w2, t, n, k) /\ ~Acks(w2, t, n, k)
    /\ \A k, l : ~Maps(w2, t, n, k, l)

\* A message of type Removed is sent.
PushesRemoved(w, w2, n, t, i) ==
    /\ Extended(w, w2, n, t) /\ w2[n].type = "Removed" /\ w2[n].to = t /\ w2[n].id = i
    /\ \A k : HasDescription(w2, t, k) <=> HasDescription(w, t, k)
    /\ \A k, l : HasMapping(w2, t, k, l) <=> HasMapping(w, t, k, l)
    /\ \A k : HasReply(w2, t, k) <=> HasReply(w, t, k)
    /\ \A k : Acked(w2, t, k) <=> Acked(w, t, k)
    /\ \A k : Removals(w2, t, k) = IF k = i THEN Removals(w, t, k) + 1 ELSE Removals(w, t, k)
    /\ \A k : Removes(w2, t, n, k) <=> k = i
    /\ \A k : Speaks(w2, t, n, k) <=> k = i
    /\ \A k : ~Describes(w2, t, n, k) /\ ~Replies(w2, t, n, k) /\ ~Acks(w2, t, n, k)
    /\ \A k, l : ~Maps(w2, t, n, k, l)

\* A message of type RemovedAck is sent.
PushesRemovedAck(w, w2, n, t, i) ==
    /\ Extended(w, w2, n, t) /\ w2[n].type = "RemovedAck" /\ w2[n].to = t /\ w2[n].id = i
    /\ \A k : HasDescription(w2, t, k) <=> HasDescription(w, t, k)
    /\ \A k, l : HasMapping(w2, t, k, l) <=> HasMapping(w, t, k, l)
    /\ \A k : HasReply(w2, t, k) <=> HasReply(w, t, k)
    /\ \A k : Acked(w2, t, k) <=> Acked(w, t, k) \/ (k = i)
    /\ \A k : Removals(w2, t, k) = Removals(w, t, k)
    /\ \A k : Acks(w2, t, n, k) <=> k = i
    /\ \A k : Speaks(w2, t, n, k) <=> k = i
    /\ \A k : ~Describes(w2, t, n, k) /\ ~Replies(w2, t, n, k) /\ ~Removes(w2, t, n, k)
    /\ \A k, l : ~Maps(w2, t, n, k, l)

\* The places of a queue after a message is received.
LEMMA PoppedPlaces ==
    ASSUME NEW q, NEW q2, NEW h, NEW s, Popped(q, q2, h), Queue(q)
    PROVE  Shortened(q, q2, h, s)
<1>1. Queue(q2)
  BY PoppedRemovals
<1> QED BY <1>1 DEF Shortened, Popped, Queue, Marks, Describes, Maps, Replies, Removes, Acks, Speaks

\* The places of a queue after a message is sent.
LEMMA PushedPlaces ==
    ASSUME NEW w, NEW w2, NEW n, NEW m, NEW t, Pushed(w, w2, n, m), Queue(w)
    PROVE  Extended(w, w2, n, t)
<1>1. Queue(w2)
  BY PushedRemovals
<1> QED BY <1>1 DEF Extended, Pushed, Queue, Marks, Describes, Maps, Replies, Removes, Acks, Speaks

\* What a queue had before a message of type Description is received.
LEMMA PopDescription ==
    ASSUME NEW q, NEW q2, NEW h, NEW s, NEW j, Popped(q, q2, h), Queue(q),
           q[h].type = "Description", q[h].to = s, q[h].own = j
    PROVE  PopsDescription(q, q2, h, s, j)
<1>1. Shortened(q, q2, h, s)
  BY PoppedPlaces
<1>2. \A k : Removals(q2, s, k) \in Nat
  BY <1>1, RemovalsCount DEF Shortened
<1>3. \A k : Removals(q, s, k) = Removals(q2, s, k)
  BY <1>2, PoppedRemovals
<1>4. /\ \A k : HasDescription(q, s, k) <=> HasDescription(q2, s, k) \/ (k = j)
      /\ \A k, l : HasMapping(q, s, k, l) <=> HasMapping(q2, s, k, l)
      /\ \A k : HasReply(q, s, k) <=> HasReply(q2, s, k)
      /\ \A k : Acked(q, s, k) <=> Acked(q2, s, k)
  BY PoppedHas
<1>5. /\ \A k : Describes(q, s, h, k) <=> k = j
      /\ \A k : ~Replies(q, s, h, k) /\ ~Removes(q, s, h, k) /\ ~Acks(q, s, h, k)
            /\ ~Speaks(q, s, h, k)
      /\ \A k, l : ~Maps(q, s, h, k, l)
  BY DEF Describes, Maps, Replies, Removes, Acks, Speaks
<1> QED BY <1>1, <1>3, <1>4, <1>5 DEF PopsDescription

\* What a queue had before a message of type Mapping is received.
LEMMA PopMapping ==
    ASSUME NEW q, NEW q2, NEW h, NEW s, NEW i, NEW j, Popped(q, q2, h), Queue(q),
           q[h].type = "Mapping", q[h].to = s, q[h].id = i, q[h].own = j
    PROVE  PopsMapping(q, q2, h, s, i, j)
<1>1. Shortened(q, q2, h, s)
  BY PoppedPlaces
<1>2. \A k : Removals(q2, s, k) \in Nat
  BY <1>1, RemovalsCount DEF Shortened
<1>3. \A k : Removals(q, s, k) = Removals(q2, s, k)
  BY <1>2, PoppedRemovals
<1>4. /\ \A k : HasDescription(q, s, k) <=> HasDescription(q2, s, k)
      /\ \A k, l : HasMapping(q, s, k, l) <=> HasMapping(q2, s, k, l) \/ (k = i /\ l = j)
      /\ \A k : HasReply(q, s, k) <=> HasReply(q2, s, k) \/ (k = i)
      /\ \A k : Acked(q, s, k) <=> Acked(q2, s, k)
  <2>1. \A k : HasDescription(q, s, k) <=> HasDescription(q2, s, k)
    BY PoppedHas
  <2>2. \A k, l : HasMapping(q, s, k, l) <=> HasMapping(q2, s, k, l) \/ (k = i /\ l = j)
    BY DEF Popped, HasMapping, Maps
  <2>3. \A k : HasReply(q, s, k) <=> HasReply(q2, s, k) \/ (k = i)
    BY DEF Popped, HasReply, Replies
  <2>4. \A k : Acked(q, s, k) <=> Acked(q2, s, k)
    BY PoppedHas
  <2> QED BY <2>1, <2>2, <2>3, <2>4
<1>5. /\ \A k, l : Maps(q, s, h, k, l) <=> k = i /\ l = j
      /\ \A k : Replies(q, s, h, k) <=> k = i
      /\ \A k : Speaks(q, s, h, k) <=> k = i
      /\ \A k : ~Describes(q, s, h, k) /\ ~Removes(q, s, h, k) /\ ~Acks(q, s, h, k)
  BY DEF Describes, Maps, Replies, Removes, Acks, Speaks
<1> QED BY <1>1, <1>3, <1>4, <1>5 DEF PopsMapping

\* What a queue had before a message of type Noticed is received.
LEMMA PopNoticed ==
    ASSUME NEW q, NEW q2, NEW h, NEW s, NEW i, Popped(q, q2, h), Queue(q),
           q[h].type = "Noticed", q[h].to = s, q[h].id = i
    PROVE  PopsNoticed(q, q2, h, s, i)
<1>1. Shortened(q, q2, h, s)
  BY PoppedPlaces
<1>2. \A k : Removals(q2, s, k) \in Nat
  BY <1>1, RemovalsCount DEF Shortened
<1>3. \A k : Removals(q, s, k) = Removals(q2, s, k)
  BY <1>2, PoppedRemovals
<1>4. /\ \A k : HasDescription(q, s, k) <=> HasDescription(q2, s, k)
      /\ \A k, l : HasMapping(q, s, k, l) <=> HasMapping(q2, s, k, l)
      /\ \A k : HasReply(q, s, k) <=> HasReply(q2, s, k) \/ (k = i)
      /\ \A k : Acked(q, s, k) <=> Acked(q2, s, k)
  <2>1. \A k : HasDescription(q, s, k) <=> HasDescription(q2, s, k)
    BY PoppedHas
  <2>2. \A k, l : HasMapping(q, s, k, l) <=> HasMapping(q2, s, k, l)
    BY DEF Popped, HasMapping, Maps
  <2>3. \A k : HasReply(q, s, k) <=> HasReply(q2, s, k) \/ (k = i)
    BY DEF Popped, HasReply, Replies
  <2>4. \A k : Acked(q, s, k) <=> Acked(q2, s, k)
    BY PoppedHas
  <2> QED BY <2>1, <2>2, <2>3, <2>4
<1>5. /\ \A k : Replies(q, s, h, k) <=> k = i
      /\ \A k : Speaks(q, s, h, k) <=> k = i
      /\ \A k : ~Describes(q, s, h, k) /\ ~Removes(q, s, h, k) /\ ~Acks(q, s, h, k)
      /\ \A k, l : ~Maps(q, s, h, k, l)
  BY DEF Describes, Maps, Replies, Removes, Acks, Speaks
<1> QED BY <1>1, <1>3, <1>4, <1>5 DEF PopsNoticed

\* What a queue had before a message of type Removed is received.
LEMMA PopRemoved ==
    ASSUME NEW q, NEW q2, NEW h, NEW s, NEW i, Popped(q, q2, h), Queue(q),
           q[h].type = "Removed", q[h].to = s, q[h].id = i
    PROVE  PopsRemoved(q, q2, h, s, i)
<1>1. Shortened(q, q2, h, s)
  BY PoppedPlaces
<1>2. \A k : Removals(q2, s, k) \in Nat
  BY <1>1, RemovalsCount DEF Shortened
<1>3. \A k : Removals(q, s, k) = IF k = i THEN Removals(q2, s, k) + 1 ELSE Removals(q2, s, k)
  BY <1>2, PoppedRemovals
<1>4. /\ \A k : HasDescription(q, s, k) <=> HasDescription(q2, s, k)
      /\ \A k, l : HasMapping(q, s, k, l) <=> HasMapping(q2, s, k, l)
      /\ \A k : HasReply(q, s, k) <=> HasReply(q2, s, k)
      /\ \A k : Acked(q, s, k) <=> Acked(q2, s, k)
  BY PoppedHas
<1>5. /\ \A k : Removes(q, s, h, k) <=> k = i
      /\ \A k : Speaks(q, s, h, k) <=> k = i
      /\ \A k : ~Describes(q, s, h, k) /\ ~Replies(q, s, h, k) /\ ~Acks(q, s, h, k)
      /\ \A k, l : ~Maps(q, s, h, k, l)
  BY DEF Describes, Maps, Replies, Removes, Acks, Speaks
<1> QED BY <1>1, <1>3, <1>4, <1>5 DEF PopsRemoved

\* What a queue had before a message of type RemovedAck is received.
LEMMA PopRemovedAck ==
    ASSUME NEW q, NEW q2, NEW h, NEW s, NEW i, Popped(q, q2, h), Queue(q),
           q[h].type = "RemovedAck", q[h].to = s, q[h].id = i
    PROVE  PopsRemovedAck(q, q2, h, s, i)
<1>1. Shortened(q, q2, h, s)
  BY PoppedPlaces
<1>2. \A k : Removals(q2, s, k) \in Nat
  BY <1>1, RemovalsCount DEF Shortened
<1>3. \A k : Removals(q, s, k) = Removals(q2, s, k)
  BY <1>2, PoppedRemovals
<1>4. /\ \A k : HasDescription(q, s, k) <=> HasDescription(q2, s, k)
      /\ \A k, l : HasMapping(q, s, k, l) <=> HasMapping(q2, s, k, l)
      /\ \A k : HasReply(q, s, k) <=> HasReply(q2, s, k)
      /\ \A k : Acked(q, s, k) <=> Acked(q2, s, k) \/ (k = i)
  BY PoppedHas
<1>5. /\ \A k : Acks(q, s, h, k) <=> k = i
      /\ \A k : Speaks(q, s, h, k) <=> k = i
      /\ \A k : ~Describes(q, s, h, k) /\ ~Replies(q, s, h, k) /\ ~Removes(q, s, h, k)
      /\ \A k, l : ~Maps(q, s, h, k, l)
  BY DEF Describes, Maps, Replies, Removes, Acks, Speaks
<1> QED BY <1>1, <1>3, <1>4, <1>5 DEF PopsRemovedAck

\* What a queue has after a message of type Description is sent.
LEMMA PushDescription ==
    ASSUME NEW w, NEW w2, NEW n, NEW m, NEW t, NEW j, Pushed(w, w2, n, m), Queue(w),
           m.type = "Description", m.to = t, m.own = j
    PROVE  PushesDescription(w, w2, n, t, j)
<1>1. Extended(w, w2, n, t) /\ w2[n] = m
  BY PushedPlaces DEF Pushed
<1>2. \A k : Removals(w, t, k) \in Nat
  BY RemovalsCount
<1>3. \A k : Removals(w2, t, k) = Removals(w, t, k)
  BY <1>2, PushedRemovals
<1>4. /\ \A k : HasDescription(w2, t, k) <=> HasDescription(w, t, k) \/ (k = j)
      /\ \A k, l : HasMapping(w2, t, k, l) <=> HasMapping(w, t, k, l)
      /\ \A k : HasReply(w2, t, k) <=> HasReply(w, t, k)
      /\ \A k : Acked(w2, t, k) <=> Acked(w, t, k)
  BY PushedHas
<1>5. /\ \A k : Describes(w2, t, n, k) <=> k = j
      /\ \A k : ~Replies(w2, t, n, k) /\ ~Removes(w2, t, n, k) /\ ~Acks(w2, t, n, k)
            /\ ~Speaks(w2, t, n, k)
      /\ \A k, l : ~Maps(w2, t, n, k, l)
  BY <1>1 DEF Describes, Maps, Replies, Removes, Acks, Speaks
<1> QED BY <1>1, <1>3, <1>4, <1>5 DEF PushesDescription

\* What a queue has after a message of type Mapping is sent.
LEMMA PushMapping ==
    ASSUME NEW w, NEW w2, NEW n, NEW m, NEW t, NEW i, NEW j, Pushed(w, w2, n, m), Queue(w),
           m.type = "Mapping", m.to = t, m.id = i, m.own = j
    PROVE  PushesMapping(w, w2, n, t, i, j)
<1>1. Extended(w, w2, n, t) /\ w2[n] = m
  BY PushedPlaces DEF Pushed
<1>2. \A k : Removals(w, t, k) \in Nat
  BY RemovalsCount
<1>3. \A k : Removals(w2, t, k) = Removals(w, t, k)
  BY <1>2, PushedRemovals
<1>4. /\ \A k : HasDescription(w2, t, k) <=> HasDescription(w, t, k)
      /\ \A k, l : HasMapping(w2, t, k, l) <=> HasMapping(w, t, k, l) \/ (k = i /\ l = j)
      /\ \A k : HasReply(w2, t, k) <=> HasReply(w, t, k) \/ (k = i)
      /\ \A k : Acked(w2, t, k) <=> Acked(w, t, k)
  BY PushedHas
<1>5. /\ \A k, l : Maps(w2, t, n, k, l) <=> k = i /\ l = j
      /\ \A k : Replies(w2, t, n, k) <=> k = i
      /\ \A k : Speaks(w2, t, n, k) <=> k = i
      /\ \A k : ~Describes(w2, t, n, k) /\ ~Removes(w2, t, n, k) /\ ~Acks(w2, t, n, k)
  BY <1>1 DEF Describes, Maps, Replies, Removes, Acks, Speaks
<1> QED BY <1>1, <1>3, <1>4, <1>5 DEF PushesMapping

\* What a queue has after a message of type Noticed is sent.
LEMMA PushNoticed ==
    ASSUME NEW w, NEW w2, NEW n, NEW m, NEW t, NEW i, Pushed(w, w2, n, m), Queue(w),
           m.type = "Noticed", m.to = t, m.id = i
    PROVE  PushesNoticed(w, w2, n, t, i)
<1>1. Extended(w, w2, n, t) /\ w2[n] = m
  BY PushedPlaces DEF Pushed
<1>2. \A k : Removals(w, t, k) \in Nat
  BY RemovalsCount
<1>3. \A k : Removals(w2, t, k) = Removals(w, t, k)
  BY <1>2, PushedRemovals
<1>4. /\ \A k : HasDescription(w2, t, k) <=> HasDescription(w, t, k)
      /\ \A k, l : HasMapping(w2, t, k, l) <=> HasMapping(w, t, k, l)
      /\ \A k : HasReply(w2, t, k) <=> HasReply(w, t, k) \/ (k = i)
      /\ \A k : Acked(w2, t, k) <=> Acked(w, t, k)
  BY PushedHas
<1>5. /\ \A k : Replies(w2, t, n, k) <=> k = i
      /\ \A k : Speaks(w2, t, n, k) <=> k = i
      /\ \A k : ~Describes(w2, t, n, k) /\ ~Removes(w2, t, n, k) /\ ~Acks(w2, t, n, k)
      /\ \A k, l : ~Maps(w2, t, n, k, l)
  BY <1>1 DEF Describes, Maps, Replies, Removes, Acks, Speaks
<1> QED BY <1>1, <1>3, <1>4, <1>5 DEF PushesNoticed

\* What a queue has after a message of type Removed is sent.
LEMMA PushRemoved ==
    ASSUME NEW w, NEW w2, NEW n, NEW m, NEW t, NEW i, Pushed(w, w2, n, m), Queue(w),
           m.type = "Removed", m.to = t, m.id = i
    PROVE  PushesRemoved(w, w2, n, t, i)
<1>1. Extended(w, w2, n, t) /\ w2[n] = m
  BY PushedPlaces DEF Pushed
<1>2. \A k : Removals(w, t, k) \in Nat
  BY RemovalsCount
<1>3. \A k : Removals(w2, t, k) = IF k = i THEN Removals(w, t, k) + 1 ELSE Removals(w, t, k)
  BY <1>2, PushedRemovals
<1>4. /\ \A k : HasDescription(w2, t, k) <=> HasDescription(w, t, k)
      /\ \A k, l : HasMapping(w2, t, k, l) <=> HasMapping(w, t, k, l)
      /\ \A k : HasReply(w2, t, k) <=> HasReply(w, t, k)
      /\ \A k : Acked(w2, t, k) <=> Acked(w, t, k)
  BY PushedHas
<1>5. /\ \A k : Removes(w2, t, n, k) <=> k = i
      /\ \A k : Speaks(w2, t, n, k) <=> k = i
      /\ \A k : ~Describes(w2, t, n, k) /\ ~Replies(w2, t, n, k) /\ ~Acks(w2, t, n, k)
      /\ \A k, l : ~Maps(w2, t, n, k, l)
  BY <1>1 DEF Describes, Maps, Replies, Removes, Acks, Speaks
<1> QED BY <1>1, <1>3, <1>4, <1>5 DEF PushesRemoved

\* What a queue has after a message of type RemovedAck is sent.
LEMMA PushRemovedAck ==
    ASSUME NEW w, NEW w2, NEW n, NEW m, NEW t, NEW i, Pushed(w, w2, n, m), Queue(w),
           m.type = "RemovedAck", m.to = t, m.id = i
    PROVE  PushesRemovedAck(w, w2, n, t, i)
<1>1. Extended(w, w2, n, t) /\ w2[n] = m
  BY PushedPlaces DEF Pushed
<1>2. \A k : Removals(w, t, k) \in Nat
  BY RemovalsCount
<1>3. \A k : Removals(w2, t, k) = Removals(w, t, k)
  BY <1>2, PushedRemovals
<1>4. /\ \A k : HasDescription(w2, t, k) <=> HasDescription(w, t, k)
      /\ \A k, l : HasMapping(w2, t, k, l) <=> HasMapping(w, t, k, l)
      /\ \A k : HasReply(w2, t, k) <=> HasReply(w, t, k)
      /\ \A k : Acked(w2, t, k) <=> Acked(w, t, k) \/ (k = i)
  BY PushedHas
<1>5. /\ \A k : Acks(w2, t, n, k) <=> k = i
      /\ \A k : Speaks(w2, t, n, k) <=> k = i
      /\ \A k : ~Describes(w2, t, n, k) /\ ~Replies(w2, t, n, k) /\ ~Removes(w2, t, n, k)
      /\ \A k, l : ~Maps(w2, t, n, k, l)
  BY <1>1 DEF Describes, Maps, Replies, Removes, Acks, Speaks
<1> QED BY <1>1, <1>3, <1>4, <1>5 DEF PushesRemovedAck

----------------------------------------------------------------------------
(* What a message that is received or sent cannot disturb.                 *)

\* The first message of q is received.
LEMMA ShortenedKeeps ==
    ASSUME NEW r, NEW q, NEW q2, NEW h, NEW z, NEW w, NEW s, NEW t, Shortened(q, q2, h, s)
    PROVE  /\ RepliesPending(r, q, s) => RepliesPending(r, q2, s)
           /\ RepliesFirst(r, q, s) => RepliesFirst(r, q2, s)
           /\ AddresseesLive(r, q, s) => AddresseesLive(r, q2, s)
           /\ NoticedUnacked(q, s) => NoticedUnacked(q2, s)
           /\ Once(r, q, w, s, t) => Once(r, q2, w, s, t)
           /\ Once(z, w, q, t, s) => Once(z, w, q2, t, s)
           /\ Unknown(r, q, z, w, s, t) => Unknown(r, q2, z, w, s, t)
           /\ LatestFollows(r, q, z, s) => LatestFollows(r, q2, z, s)
           /\ MappingsFollow(r, q, z, s) => MappingsFollow(r, q2, z, s)
<1>1. RepliesPending(r, q, s) => RepliesPending(r, q2, s)
  BY DEF RepliesPending, Shortened
<1>2. RepliesFirst(r, q, s) => RepliesFirst(r, q2, s)
  BY DEF RepliesFirst, Shortened
<1>3. AddresseesLive(r, q, s) => AddresseesLive(r, q2, s)
  BY DEF AddresseesLive, Shortened
<1>4. NoticedUnacked(q, s) => NoticedUnacked(q2, s)
  BY DEF NoticedUnacked, Acked, Shortened
<1>5. Once(r, q, w, s, t) => Once(r, q2, w, s, t)
  BY DEF Once, Shortened
<1>6. Once(z, w, q, t, s) => Once(z, w, q2, t, s)
  BY DEF Once, Shortened
<1>7. Unknown(r, q, z, w, s, t) => Unknown(r, q2, z, w, s, t)
  BY DEF Unknown, Shortened
<1>8. LatestFollows(r, q, z, s) => LatestFollows(r, q2, z, s)
  BY DEF LatestFollows, Shortened
<1>9. ASSUME MappingsFollow(r, q, z, s)
      PROVE  MappingsFollow(r, q2, z, s)
  <2>1. SUFFICES ASSUME NEW j \in DOMAIN z, NEW p \in Places(q2), NEW k \in Places(q2),
                        p < k, Marks(r, q2, s, p, z[j].identifier, j),
                        q2[k].type = "Mapping", q2[k].to = s, q2[k].own = j
                 PROVE  \E n \in Places(q2) : p < n /\ n < k /\ Describes(q2, s, n, j)
    BY DEF MappingsFollow
  <2>2. /\ p \in Places(q) /\ k \in Places(q) /\ Marks(r, q, s, p, z[j].identifier, j)
        /\ q[k].type = "Mapping" /\ q[k].to = s /\ q[k].own = j
    BY <2>1 DEF Shortened
  <2>3. PICK n \in Places(q) : p < n /\ n < k /\ Describes(q, s, n, j)
    BY <1>9, <2>1, <2>2 DEF MappingsFollow
  <2>4. n \in Places(q2)
    BY <2>3, <2>2 DEF Shortened
  <2> QED BY <2>3, <2>4 DEF Shortened
<1> QED BY <1>1, <1>2, <1>3, <1>4, <1>5, <1>6, <1>7, <1>8, <1>9

\* A message is sent that is not of the kind a condition is about.
LEMMA ExtendedKeeps ==
    ASSUME NEW z, NEW w, NEW w2, NEW n, NEW r, NEW q, NEW s, NEW t, Extended(w, w2, n, t)
    PROVE  /\ w2[n].type \notin {"Mapping", "Noticed"} =>
                /\ RepliesPending(z, w, t) => RepliesPending(z, w2, t)
                /\ Once(z, w, q, t, s) => Once(z, w2, q, t, s)
           /\ w2[n].type # "Description" => (Once(r, q, w, s, t) => Once(r, q, w2, s, t))
           /\ w2[n].type \notin {"Mapping", "Noticed"}
                  => (RepliesFirst(z, w, t) => RepliesFirst(z, w2, t))
           /\ w2[n].type \notin {"Noticed", "RemovedAck"}
                  => (NoticedUnacked(w, t) => NoticedUnacked(w2, t))
           /\ w2[n].type \notin {"Description", "Mapping"}
                => (Unknown(r, q, z, w, s, t) => Unknown(r, q, z, w2, s, t))
           /\ w2[n].type \notin {"Description", "Mapping", "Noticed"}
                => (LatestFollows(z, w, r, t) => LatestFollows(z, w2, r, t))
           /\ w2[n].type # "Mapping" =>
                /\ MappingsFollow(z, w, r, t) => MappingsFollow(z, w2, r, t)
                /\ NewerFirst(z, w, t) => NewerFirst(z, w2, t)
<1>1. ASSUME w2[n].type \notin {"Mapping", "Noticed"}
      PROVE  /\ RepliesPending(z, w, t) => RepliesPending(z, w2, t)
             /\ Once(z, w, q, t, s) => Once(z, w2, q, t, s)
             /\ RepliesFirst(z, w, t) => RepliesFirst(z, w2, t)
  <2>1. \A k : ~Replies(w2, t, n, k)
    BY <1>1 DEF Replies
  <2>2. RepliesPending(z, w, t) => RepliesPending(z, w2, t)
    BY <1>1 DEF RepliesPending, Extended
  <2>3. Once(z, w, q, t, s) => Once(z, w2, q, t, s)
    BY <2>1 DEF Once, Extended
  <2>4. RepliesFirst(z, w, t) => RepliesFirst(z, w2, t)
    BY <2>1 DEF RepliesFirst, Extended
  <2> QED BY <2>2, <2>3, <2>4
<1>2. ASSUME w2[n].type # "Description"
      PROVE  Once(r, q, w, s, t) => Once(r, q, w2, s, t)
  <2>1. \A k : ~Describes(w2, t, n, k)
    BY <1>2 DEF Describes
  <2> QED BY <2>1 DEF Once, Extended
<1>3. ASSUME w2[n].type \notin {"Noticed", "RemovedAck"}
      PROVE  NoticedUnacked(w, t) => NoticedUnacked(w2, t)
  <2>1. \A k : ~Acks(w2, t, n, k)
    BY <1>3 DEF Acks
  <2> QED BY <1>3, <2>1 DEF NoticedUnacked, Acked, Extended
<1>4. ASSUME w2[n].type \notin {"Description", "Mapping"}
      PROVE  Unknown(r, q, z, w, s, t) => Unknown(r, q, z, w2, s, t)
  <2>1. \A k, l : ~Describes(w2, t, n, k) /\ ~Maps(w2, t, n, k, l)
    BY <1>4 DEF Describes, Maps
  <2>2. \A k : Acked(w, t, k) => Acked(w2, t, k)
    BY DEF Acked, Extended
  <2> QED BY <2>1, <2>2 DEF Unknown, Extended
<1>5. ASSUME w2[n].type \notin {"Description", "Mapping", "Noticed"}
      PROVE  LatestFollows(z, w, r, t) => LatestFollows(z, w2, r, t)
  <2>1. \A x, j : ~Marks(z, w2, t, n, x, j)
    BY <1>5 DEF Marks
  <2> QED BY <2>1 DEF LatestFollows, Extended
<1>6. ASSUME w2[n].type # "Mapping", MappingsFollow(z, w, r, t)
      PROVE  MappingsFollow(z, w2, r, t)
  <2>1. SUFFICES ASSUME NEW j \in DOMAIN r, NEW p \in Places(w2), NEW k \in Places(w2),
                        p < k, Marks(z, w2, t, p, r[j].identifier, j),
                        w2[k].type = "Mapping", w2[k].to = t, w2[k].own = j
                 PROVE  \E m \in Places(w2) : p < m /\ m < k /\ Describes(w2, t, m, j)
    BY DEF MappingsFollow
  <2>2. k \in Places(w) /\ k < n /\ p \in Nat /\ k \in Nat /\ n \in Nat
    BY <1>6, <2>1 DEF Extended
  <2>3. p \in Places(w)
    BY <2>1, <2>2 DEF Extended
  <2>4. /\ Marks(z, w, t, p, r[j].identifier, j)
        /\ w[k].type = "Mapping" /\ w[k].to = t /\ w[k].own = j
    BY <2>1, <2>2, <2>3 DEF Extended
  <2>5. PICK m \in Places(w) : p < m /\ m < k /\ Describes(w, t, m, j)
    BY <1>6, <2>1, <2>2, <2>3, <2>4 DEF MappingsFollow
  <2> QED BY <2>5 DEF Extended
<1>7. ASSUME w2[n].type # "Mapping"
      PROVE  NewerFirst(z, w, t) => NewerFirst(z, w2, t)
  BY <1>7 DEF NewerFirst, Extended
<1> QED BY <1>1, <1>2, <1>3, <1>4, <1>5, <1>6, <1>7

\* What follows a message that remains remains.
LEMMA ShortenedAfter ==
    ASSUME NEW q, NEW q2, NEW h, NEW s, Shortened(q, q2, h, s)
    PROVE  \A p \in Places(q2), m \in Places(q) : p < m => m \in Places(q2)
BY DEF Shortened

----------------------------------------------------------------------------
(* Consequences.                                                           *)

\* The visible element of an identifier is confirmed after the others.
LEMMA ConfirmedLast ==
    ASSUME NEW r, NEW q, NEW z, NEW w, NEW s, NEW t, Pair(r, q, z, w, s, t),
           NEW i \in DOMAIN r, NEW k \in DOMAIN r, ~r[i].hidden, Unconfirmed(r[k]),
           r[i].identifier = r[k].identifier
    PROVE  Unconfirmed(r[i])
<1> USE DEF Pair, End, Replied, Linked, Ordered
<1>1. SUFFICES ASSUME i # k
               PROVE  HasDescription(w, t, i) \/ HasReply(q, s, i)
  BY DEF HasDescription, HasReply, Describes, Replies, DescriptionsPending, RepliesPending
<1>2. CASE HasReply(q, s, k)
  <2>1. PICK p \in Places(q) : Replies(q, s, p, k)
    BY <1>2 DEF HasReply
  <2> QED BY <1>1, <2>1 DEF RepliesInOrder, HasReply
<1>3. CASE HasDescription(w, t, k)
  <2>1. PICK p \in Places(w) : Describes(w, t, p, k)
    BY <1>3 DEF HasDescription
  <2>2. Marks(z, w, t, p, r[i].identifier, i)
    BY <1>1, <2>1 DEF Marks, Describes, DescriptionsPending
  <2> QED BY <2>2 DEF LatestFollows, HasDescription
<1> QED BY <1>2, <1>3 DEF ReplyComing

\* What an unretired element is mapped to.
LEMMA MappedExists ==
    ASSUME NEW r, NEW q, NEW z, NEW w, NEW s, NEW t, Pair(r, q, z, w, s, t),
           NEW i \in DOMAIN r, ~Retired(r[i]), r[i].fsm.mapped # NoId
    PROVE  /\ r[i].fsm.mapped \in DOMAIN z /\ z[r[i].fsm.mapped].identifier = r[i].identifier
           /\ i # NoId /\ Holds(r, q, s, i, r[i].fsm.mapped)
           /\ r[i].fsm.state \in {"MAPPED_UNCONFIRMED", "MAPPED_CONFIRMED", "AWAIT_CONFIRMATION"}
           /\ ~HasDescription(q, s, r[i].fsm.mapped)
<1> USE DEF Pair, End, Replied, Linked, Ordered
<1>1. Holds(r, q, s, i, r[i].fsm.mapped) /\ r[i].fsm.mapped \in Nat /\ i # NoId
  BY DEF Holds, Typed
<1>2. r[i].fsm.mapped \in DOMAIN z /\ z[r[i].fsm.mapped].identifier = r[i].identifier
  BY <1>1 DEF PartnersLive
<1>3. r[i].fsm.state \in {"MAPPED_UNCONFIRMED", "MAPPED_CONFIRMED", "AWAIT_CONFIRMATION"}
  BY DEF Fit, Retired, Typed, States
<1>4. ~HasDescription(q, s, r[i].fsm.mapped)
  BY <1>2 DEF Unknown, HasDescription
<1> QED BY <1>1, <1>2, <1>3, <1>4

\* The elements that are mapped to the same remote one and have not retired
\* are one.
LEMMA MappedOnce ==
    ASSUME NEW r, NEW q, NEW z, NEW w, NEW s, NEW t, Pair(r, q, z, w, s, t),
           NEW i \in DOMAIN r, NEW k \in DOMAIN r, ~Retired(r[i]), ~Retired(r[k]),
           r[i].fsm.mapped # NoId, r[k].fsm.mapped = r[i].fsm.mapped
    PROVE  i = k
<1> USE DEF Pair, End, Replied, Linked, Ordered
<1>1. r[i].identifier = r[k].identifier
  BY MappedExists
<1>2. CASE Unconfirmed(r[i]) /\ Unconfirmed(r[k])
  BY <1>2 DEF OneCandidate
<1>3. CASE ~Unconfirmed(r[i]) /\ ~Unconfirmed(r[k])
  <2>1. ~r[i].hidden /\ ~r[k].hidden
    BY <1>3, MappedExists DEF Fit, Unconfirmed, destroyed
  <2> QED BY <1>1, <2>1 DEF OneVisible
<1>4. CASE ~Unconfirmed(r[i]) /\ Unconfirmed(r[k])
  <2>1. ~r[i].hidden
    BY <1>4, MappedExists DEF Fit, Unconfirmed, destroyed
  <2> QED BY <1>1, <1>4, <2>1, ConfirmedLast
<1>5. CASE Unconfirmed(r[i]) /\ ~Unconfirmed(r[k])
  <2>1. ~r[k].hidden
    BY <1>5, MappedExists DEF Fit, Unconfirmed, destroyed
  <2> QED BY <1>1, <1>5, <2>1, ConfirmedLast
<1> QED BY <1>2, <1>3, <1>4, <1>5

\* The element that the removal of i, one that is not to be skipped, comes from.
LEMMA RemovalAnswered ==
    ASSUME NEW r, NEW q, NEW z, NEW w, NEW s, NEW t, Pair(r, q, z, w, s, t), SkipsFit(z),
           NEW q2, NEW h, NEW i, NEW j, PopsRemoved(q, q2, h, s, i),
           r[i].fsm.state \in {"MAPPED_CONFIRMED", "AWAIT_ACK"}, r[i].fsm.skip = 0,
           j = r[i].fsm.mapped, j # NoId
    PROVE  /\ i \in DOMAIN r /\ j \in DOMAIN z /\ j \in Nat /\ Retired(z[j]) /\ ~Acked(w, t, j)
           /\ Removals(q2, s, i) = 0 /\ Owing(z, w, t, i) = {}
           /\ ~HasReply(q, s, i) /\ \A l : ~HasMapping(q, s, i, l)
           /\ ~HasReply(w, t, j) /\ \A l : ~HasMapping(w, t, j, l)
           /\ ~HasDescription(q, s, j)
           /\ Acked(q, s, i) => /\ Retired(r[i]) /\ z[j].fsm.mapped = NoId
                                /\ AckedLate(r, q, z, w, s, t, i)
           /\ ~Acked(q, s, i) => z[j].fsm.mapped = i /\ z[j].identifier = r[i].identifier
           /\ Retired(r[i]) => Owing(r, q, s, j) = {}
           /\ ~Retired(r[i]) => Owing(r, q, s, j) = {i}
<1> USE DEF Pair, End, Replied, Linked, Ordered, NoId
<1>1. i \in DOMAIN r /\ i \in Nat /\ i # NoId /\ j \in Nat /\ ~Unconfirmed(r[i])
         /\ Shortened(q, q2, h, s)
  BY DEF AddresseesLive, PopsRemoved, Shortened, Unconfirmed, Typed
<1>2. ~HasReply(q, s, i) /\ \A l : ~HasMapping(q, s, i, l)
  BY <1>1 DEF RepliesPending, HasReply, HasMapping, Replies, Maps
<1>3. Holds(r, q, s, i, j) /\ Holdings(r, q, s, i) = 1
  BY <1>1, <1>2 DEF Holds, Holdings
<1>4. Removals(q, s, i) = Removals(q2, s, i) + 1 /\ Removals(q2, s, i) \in Nat
  BY <1>1, RemovalsCount DEF PopsRemoved, Shortened
<1>5. Retired(z[j]) => /\ ~HasReply(w, t, j) /\ \A l : ~HasMapping(w, t, j, l)
                       /\ ~HasDescription(q, s, j)
  <2>1. Retired(z[j]) => ~Unconfirmed(z[j])
    BY DEF Retired, Unconfirmed
  <2>2. ~Unconfirmed(z[j]) => ~HasReply(w, t, j) /\ \A l : ~HasMapping(w, t, j, l)
    BY DEF RepliesPending, HasReply, HasMapping, Replies, Maps
  <2>3. ~Unconfirmed(z[j]) => ~HasDescription(q, s, j)
    BY DEF DescriptionsPending, HasDescription, Describes
  <2> QED BY <2>1, <2>2, <2>3
<1>6. ASSUME NEW k \in Owing(r, q, s, j), k # i, j \in DOMAIN z, ~Holds(z, w, t, j, k),
             r[i].fsm.state = "AWAIT_ACK" \/ r[k].fsm.mapped # j
      PROVE  Acked(q, s, k) /\ Acker(r, q, s, k, j) /\ Unconfirmed(r[k]) /\ HasReply(q, s, k)
  <2>1. k \in DOMAIN r /\ ~Retired(r[k]) /\ Holds(r, q, s, k, j)
    BY <1>6 DEF Owing
  <2>2. Acked(q, s, k) /\ Acker(r, q, s, k, j)
    BY <2>1, <1>1, <1>6 DEF Mutual
  <2>3. Unconfirmed(r[k])
    BY <2>1, <2>2 DEF Counted, Retired, Unconfirmed
  <2>4. ~HasDescription(w, t, k)
    BY <2>1, <2>2 DEF Unknown, HasDescription, Acked, Speaks
  <2> QED BY <2>1, <2>2, <2>3, <2>4 DEF ReplyComing
<1>7. CASE Acked(q, s, i)
  <2>1. r[i].fsm.state = "AWAIT_ACK" /\ Owing(z, w, t, i) = {} /\ AckedLate(r, q, z, w, s, t, i)
    BY <1>1, <1>3, <1>4, <1>7 DEF Counted, AckedEarly
  <2>2. j \in DOMAIN z /\ Retired(z[j]) /\ z[j].fsm.mapped = NoId /\ ~Acked(w, t, j)
    BY <2>1 DEF AckedLate, Crossed
  <2>3. Removals(q2, s, i) = 0
    BY <2>1, <1>3, <1>4 DEF AckedLate
  <2>4. Owing(r, q, s, j) = {}
    <3>1. IsFiniteSet(Owing(r, q, s, j))
      BY FS_Subset DEF Owing, Typed
    <3>2. Removals(w, t, j) + Cardinality(Owing(r, q, s, j)) = z[j].fsm.skip + Holdings(z, w, t, j)
      BY <2>2 DEF Counted
    <3>3. z[j].fsm.skip = 0
      BY <2>2 DEF SkipsFit, Retired
    <3>4. Holdings(z, w, t, j) = 0
      BY <2>2, <1>5 DEF Holdings
    <3>5. Removals(w, t, j) \in Nat /\ Cardinality(Owing(r, q, s, j)) \in Nat
      BY <3>1, RemovalsCount, FS_CardinalityType
    <3>6. Cardinality(Owing(r, q, s, j)) = 0
      BY <3>2, <3>3, <3>4, <3>5
    <3> QED BY <3>1, <3>6, FS_EmptySet
  <2>5. Retired(r[i])
    BY <2>1 DEF Retired
  <2> QED BY <2>1, <2>2, <2>3, <2>4, <2>5, <1>1, <1>2, <1>5, <1>7
<1>8. CASE ~Acked(q, s, i)
  <2>1. j \in DOMAIN z /\ Holds(z, w, t, j, i) /\ z[j].identifier = r[i].identifier
    BY <1>1, <1>3, <1>8 DEF Mutual
  <2>2. Owing(z, w, t, i) = {} /\ Removals(q2, s, i) = 0
    <3>1. IsFiniteSet(Owing(z, w, t, i))
      BY FS_Subset DEF Owing, Typed
    <3>2. Removals(q, s, i) + Cardinality(Owing(z, w, t, i)) = 0 + 1
      BY <1>1, <1>3, <1>8 DEF Counted
    <3>3. Cardinality(Owing(z, w, t, i)) \in Nat
      BY <3>1, FS_CardinalityType
    <3>4. Cardinality(Owing(z, w, t, i)) = 0 /\ Removals(q2, s, i) = 0
      BY <3>2, <3>3, <1>4
    <3> QED BY <3>1, <3>4, FS_EmptySet
  <2>3. Retired(z[j])
    BY <2>1, <2>2 DEF Owing
  <2>4. z[j].fsm.mapped = i
    BY <2>1, <2>3, <1>5 DEF Holds
  <2>5. ~Acked(w, t, j)
    <3>1. Acker(z, w, t, j, i)
      BY <2>3, <2>4, <1>5 DEF Acker
    <3> QED BY <2>1, <3>1, <1>1, <1>3 DEF Mutual
  <2>6. \A k \in Owing(r, q, s, j) : k = i
    <3>1. SUFFICES ASSUME NEW k \in Owing(r, q, s, j), k # i
                   PROVE  FALSE
      OBVIOUS
    <3>2. k \in DOMAIN r /\ ~Retired(r[k]) /\ Holds(r, q, s, k, j)
      BY <3>1 DEF Owing
    <3>3. ~Holds(z, w, t, j, k)
      BY <3>1, <2>3, <2>4, <1>5 DEF Holds
    <3>4. r[i].fsm.state = "AWAIT_ACK" \/ r[k].fsm.mapped # j
      BY <3>1, <3>2, <1>1, MappedOnce DEF Retired
    <3>5. Acked(q, s, k) /\ Acker(r, q, s, k, j) /\ Unconfirmed(r[k]) /\ HasReply(q, s, k)
      BY <3>1, <3>3, <3>4, <2>1, <1>6
    <3>6. PICK m \in Places(q) : Replies(q, s, m, k)
      BY <3>5 DEF HasReply
    <3>7. h \in Places(q) /\ Removes(q, s, h, i) /\ h <= m /\ h \in Nat /\ m \in Nat
      BY <1>1 DEF PopsRemoved, Shortened
    <3>8. m < h
      BY <2>1, <3>1, <3>2, <3>5, <3>6, <3>7, <1>1 DEF RemovalsInOrder
    <3> QED BY <3>7, <3>8
  <2>7. i \in Owing(r, q, s, j) <=> ~Retired(r[i])
    BY <1>1, <1>3 DEF Owing
  <2>8. /\ Retired(r[i]) => Owing(r, q, s, j) = {}
        /\ ~Retired(r[i]) => Owing(r, q, s, j) = {i}
    BY <2>6, <2>7
  <2> QED BY <2>1, <2>2, <2>3, <2>4, <2>5, <2>8, <1>1, <1>2, <1>5, <1>8
<1> QED BY <1>7, <1>8

\* Who has acknowledged the removal of i has nothing more to say to it.
LEMMA AckReceived ==
    ASSUME NEW r, NEW q, NEW z, NEW w, NEW s, NEW t, Pair(r, q, z, w, s, t), SkipsFit(r),
           NEW q2, NEW h, NEW i, PopsRemovedAck(q, q2, h, s, i)
    PROVE  /\ i \in DOMAIN r /\ r[i].fsm.state = "AWAIT_ACK" /\ r[i].fsm.skip = 0
           /\ Acked(q, s, i) /\ \A p \in Places(q2) : ~Speaks(q2, s, p, i)
           /\ Removals(q, s, i) = 0 /\ Owing(z, w, t, i) = {}
           /\ ~HasReply(q, s, i) /\ \A l : ~HasMapping(q, s, i, l)
           /\ r[i].fsm.mapped # NoId => ~AckedLate(r, q, z, w, s, t, i)
           /\ \A k : Holds(z, w, t, k, i) => Acked(w, t, k) /\ Acker(z, w, t, k, i)
<1> USE DEF Pair, End, Replied, Linked, Ordered, NoId
<1>1. /\ i \in DOMAIN r /\ i \in Nat /\ i # NoId /\ Shortened(q, q2, h, s) /\ Acks(q, s, h, i)
      /\ h \in Places(q) /\ h \in Nat /\ Speaks(q, s, h, i)
  BY DEF AddresseesLive, PopsRemovedAck, Shortened, Typed
<1>2. Acked(q, s, i)
  BY <1>1 DEF Acked
<1>3. \A p \in Places(q) : Speaks(q, s, p, i) => p = h
  <2>1. \A p \in Places(q) : Speaks(q, s, p, i) => p <= h
    BY <1>1, <1>2 DEF Counted
  <2>2. \A p \in Places(q) : h <= p /\ p \in Nat
    BY <1>1 DEF Shortened
  <2> QED BY <1>1, <2>1, <2>2
<1>4. \A p \in Places(q2) : ~Speaks(q2, s, p, i)
  BY <1>1, <1>3 DEF Shortened
<1>5. /\ \A p \in Places(q) : ~Removes(q, s, p, i)
      /\ ~HasReply(q, s, i) /\ \A l : ~HasMapping(q, s, i, l)
  <2>1. \A p \in Places(q) : ~Removes(q, s, p, i) /\ ~Replies(q, s, p, i)
    BY <1>3 DEF Speaks, PopsRemovedAck
  <2> QED BY <2>1 DEF HasReply, HasMapping, Replies, Maps
<1>6. Removals(q, s, i) = 0 /\ Owing(z, w, t, i) = {}
  BY <1>1, <1>2, <1>5, RemovalsCount DEF Counted
<1>7. r[i].fsm.state = "AWAIT_ACK"
  <2>1. ~HasDescription(w, t, i)
    BY <1>1 DEF Unknown, HasDescription
  <2>2. ~Unconfirmed(r[i])
    BY <1>1, <1>5, <2>1 DEF ReplyComing
  <2>3. r[i].fsm.state \in {"AWAIT_CONFIRMATION", "AWAIT_ACK"}
    BY <1>1, <1>2 DEF Counted
  <2> QED BY <2>2, <2>3 DEF Unconfirmed
<1>8. Holdings(r, q, s, i) = IF r[i].fsm.mapped = NoId THEN 0 ELSE 1
  BY <1>5 DEF Holdings
<1>9. r[i].fsm.skip \in Nat /\ (r[i].fsm.mapped = NoId => r[i].fsm.skip = 0)
  BY <1>1, <1>7 DEF SkipsFit, Typed
<1>10. r[i].fsm.mapped # NoId => ~AckedLate(r, q, z, w, s, t, i)
  BY <1>6, <1>8, <1>9 DEF AckedLate
<1>11. r[i].fsm.skip = 0
  <2>1. ASSUME r[i].fsm.mapped # NoId
        PROVE  r[i].fsm.skip = 0
    <3>1. AckedEarly(r, q, s, i)
      BY <2>1, <1>1, <1>2, <1>10 DEF Counted
    <3> QED BY <2>1, <3>1, <1>6, <1>8, <1>9 DEF AckedEarly
  <2> QED BY <2>1, <1>9
<1>12. ASSUME NEW k, Holds(z, w, t, k, i)
       PROVE  Acked(w, t, k) /\ Acker(z, w, t, k, i)
  <2>1. k \in DOMAIN z /\ k \in Nat
    BY <1>12 DEF Holds, Typed
  <2>2. Holds(r, q, s, i, k) => Acker(r, q, s, i, k)
    BY <1>5 DEF Holds, Acker
  <2>3. ~(Holds(r, q, s, i, k) /\ r[i].identifier = z[k].identifier)
    BY <2>1, <2>2, <1>1, <1>2, <1>12 DEF Mutual
  <2> QED BY <2>1, <2>3, <1>1, <1>12 DEF Mutual
<1> QED BY <1>1, <1>2, <1>4, <1>5, <1>6, <1>7, <1>10, <1>11, <1>12

\* Nobody refers to an element that is not mapped and has no removal to skip.
LEMMA Unreferred ==
    ASSUME NEW r, NEW q, NEW z, NEW w, NEW s, NEW t, Pair(r, q, z, w, s, t),
           NEW i \in DOMAIN r, r[i].fsm.state \in {"UNUSED_CONFIRMED", "AWAIT_REMOVALS"},
           r[i].fsm.skip = 0
    PROVE  /\ r[i].fsm.mapped = NoId /\ ~Acked(q, s, i)
           /\ \A p \in Places(q) : ~Speaks(q, s, p, i)
           /\ Owing(z, w, t, i) = {} /\ ~HasDescription(w, t, i)
           /\ \A k : Holds(z, w, t, k, i) => Acked(w, t, k) /\ Acker(z, w, t, k, i)
           /\ \A l : ~Holds(r, q, s, i, l)
<1> USE DEF Pair, End, Replied, Linked, Ordered, NoId
<1>1. r[i].fsm.mapped = NoId /\ ~Unconfirmed(r[i]) /\ i \in Nat /\ i # NoId
  BY DEF Fit, Unconfirmed, Typed
<1>2. ~HasReply(q, s, i) /\ \A l : ~HasMapping(q, s, i, l)
  BY <1>1 DEF RepliesPending, HasReply, HasMapping, Replies, Maps
<1>3. ~HasDescription(w, t, i)
  BY <1>1 DEF DescriptionsPending, HasDescription, Describes
<1>4. ~Acked(q, s, i)
  BY DEF Counted
<1>5. Holdings(r, q, s, i) = 0 /\ \A l : ~Holds(r, q, s, i, l)
  BY <1>1, <1>2 DEF Holdings, Holds
<1>6. Removals(q, s, i) = 0 /\ Owing(z, w, t, i) = {}
  <2>1. IsFiniteSet(Owing(z, w, t, i))
    BY FS_Subset DEF Owing, Typed
  <2>2. Removals(q, s, i) + Cardinality(Owing(z, w, t, i)) = 0
    BY <1>4, <1>5 DEF Counted
  <2>3. Removals(q, s, i) \in Nat /\ Cardinality(Owing(z, w, t, i)) \in Nat
    BY <2>1, RemovalsCount, FS_CardinalityType
  <2>4. Removals(q, s, i) = 0 /\ Cardinality(Owing(z, w, t, i)) = 0
    BY <2>2, <2>3
  <2> QED BY <2>1, <2>4, FS_EmptySet
<1>7. \A p \in Places(q) : ~Removes(q, s, p, i)
  BY <1>6, RemovalsCount
<1>8. \A p \in Places(q) : ~Speaks(q, s, p, i)
  BY <1>2, <1>4, <1>7 DEF HasReply, Acked, Speaks
<1>9. ASSUME NEW k, Holds(z, w, t, k, i)
      PROVE  Acked(w, t, k) /\ Acker(z, w, t, k, i)
  <2>1. k \in DOMAIN z
    BY <1>9 DEF Holds
  <2> QED BY <2>1, <1>1, <1>5, <1>9 DEF Mutual
<1> QED BY <1>1, <1>3, <1>4, <1>5, <1>6, <1>8, <1>9

----------------------------------------------------------------------------
(* The events.                                                             *)

\* A new element is described to the remote end.
LEMMA CreateKeeps ==
    ASSUME NEW r, NEW q, NEW z, NEW w, NEW s, NEW t, Pair(r, q, z, w, s, t),
           NEW r2, NEW w2, NEW n, NEW i, NEW x,
           PushesDescription(w, w2, n, t, i),
           w2[n].identifier = x,
           i \in Nat \ {NoId},
           i \notin DOMAIN r,
           DOMAIN r2 = DOMAIN r \cup {i},
           \A k \in DOMAIN r : r2[k] = r[k],
           r2[i].identifier = x,
           ~r2[i].hidden,
           r2[i].fsm.state = "UNUSED_UNCONFIRMED",
           r2[i].fsm.skip = 0,
           r2[i].fsm.mapped = NoId,
           \A k \in DOMAIN r : r[k].identifier = x => r[k].hidden
    PROVE  Pair(r2, q, z, w2, s, t)
<1> USE DEF Pair, End, Replied, Linked, Ordered, NoId
<1>1. Extended(w, w2, n, t) /\ w2[n].type = "Description"
  BY DEF PushesDescription
<1>2. /\ \A k, j : Holds(z, w2, t, k, j) <=> Holds(z, w, t, k, j)
      /\ \A k, j : Acker(z, w2, t, k, j) <=> Acker(z, w, t, k, j)
      /\ \A k : Holdings(z, w2, t, k) = Holdings(z, w, t, k)
      /\ \A k : Owing(z, w2, t, k) = Owing(z, w, t, k)
  BY DEF Holds, Acker, Holdings, Owing, PushesDescription
<1>3. \A p \in Places(q) : q[p].type \in {"Mapping", "Noticed", "Removed", "RemovedAck"}
         /\ q[p].to = s => q[p].id # i /\ q[p].id \in DOMAIN r
  BY DEF AddresseesLive
<1>4. /\ \A p \in Places(q) : ~Speaks(q, s, p, i) /\ ~Replies(q, s, p, i) /\ ~Removes(q, s, p, i)
            /\ ~Acks(q, s, p, i)
      /\ ~HasReply(q, s, i) /\ ~Acked(q, s, i) /\ Removals(q, s, i) = 0
      /\ \A j : ~HasMapping(q, s, i, j)
  <2>1. \A p \in Places(q) : ~Speaks(q, s, p, i)
    BY <1>3 DEF Speaks, Replies, Removes, Acks
  <2>2. Removals(q, s, i) = 0
    BY <2>1, RemovalsCount DEF Speaks
  <2> QED BY <2>1, <2>2 DEF Speaks, HasReply, Acked, HasMapping, Replies, Maps
<1>5. \A j \in DOMAIN z : Holds(z, w, t, j, i) => Retired(z[j]) /\ Acked(w, t, j)
  BY DEF PartnersLive, Mutual, Retired
<1>6. \A j \in DOMAIN z : ~HasMapping(w, t, j, i)
  BY <1>5 DEF Holds, RepliesPending, HasMapping, Maps, Retired, Unconfirmed
<1>7. /\ \A k, j : Holds(r2, q, s, k, j) <=> Holds(r, q, s, k, j)
      /\ \A k, j : Holds(r, q, s, k, j) => k \in DOMAIN r
      /\ \A k \in DOMAIN r : \A j : Acker(r2, q, s, k, j) <=> Acker(r, q, s, k, j)
      /\ \A k \in DOMAIN r : Holdings(r2, q, s, k) = Holdings(r, q, s, k)
      /\ Holdings(r2, q, s, i) = 0
  BY <1>4 DEF Holds, Acker, Holdings
<1>8. \A k : Owing(r2, q, s, k) = Owing(r, q, s, k)
  BY <1>7 DEF Owing, Holds
<1>9. Owing(z, w, t, i) = {} /\ Cardinality(Owing(z, w, t, i)) = 0
  BY <1>5, FS_EmptySet DEF Owing
<1>10. /\ \A k \in DOMAIN r : AckedLate(r2, q, z, w2, s, t, k) <=> AckedLate(r, q, z, w, s, t, k)
       /\ \A k \in DOMAIN r : AckedEarly(r2, q, s, k) <=> AckedEarly(r, q, s, k)
  BY <1>7 DEF AckedLate, AckedEarly, Crossed, PushesDescription
<1>11. /\ \A k \in DOMAIN z : AckedLate(z, w2, r2, q, t, s, k) <=> AckedLate(z, w, r, q, t, s, k)
       /\ \A k \in DOMAIN z : AckedEarly(z, w2, t, k) <=> AckedEarly(z, w, t, k)
  <2>1. ~Retired(r2[i])
    BY DEF Retired
  <2>2. \A k \in DOMAIN z : Crossed(z, w2, r2, q, t, s, k) <=> Crossed(z, w, r, q, t, s, k)
    BY <2>1 DEF Crossed
  <2> QED BY <2>2, <1>2 DEF AckedLate, AckedEarly, PushesDescription
<1>12. \A j, y : \A p \in Places(q) : Marks(r2, q, s, p, y, j) <=> Marks(r, q, s, p, y, j)
  BY <1>3 DEF Marks
<1>13. \A k : Acked(w2, t, k) <=> Acked(w, t, k)
  BY DEF PushesDescription
<1>14. Typed(r2)
  <2>1. IsFiniteSet(DOMAIN r2)
    BY FS_AddElement DEF Typed
  <2> QED BY <2>1 DEF Typed, States
<1>15. Queue(q)
  OBVIOUS
<1>16. Fit(r2)
  BY DEF Fit, is_mapped, destroyed
<1>17. OneVisible(r2)
  BY DEF OneVisible
<1>18. DescriptionsPending(r2, q, w2, s, t)
  <2>1. Unconfirmed(r2[i])
    BY DEF Unconfirmed
  <2>2. \A p \in Places(w2) : w2[p].type = "Description" /\ w2[p].to = t /\ p # n =>
            /\ w2[p].own \in DOMAIN r /\ Unconfirmed(r2[w2[p].own])
            /\ w2[p].identifier = r2[w2[p].own].identifier /\ ~HasReply(q, s, w2[p].own)
    BY <1>1 DEF DescriptionsPending, Extended
  <2>3. w2[n].own = i
    BY DEF PushesDescription
  <2> QED BY <2>1, <2>2, <2>3, <1>4 DEF DescriptionsPending
<1>19. RepliesPending(r2, q, s)
  BY DEF RepliesPending
<1>20. ReplyComing(r2, q, w2, s, t)
  BY DEF ReplyComing, PushesDescription
<1>21. Once(r2, q, w2, s, t)
  <2>1. \A p \in Places(w) : ~Describes(w, t, p, i)
    BY DEF DescriptionsPending, Describes
  <2>2. \A p \in Places(w2) : p \in Places(w) \/ p = n
    BY <1>1 DEF Extended
  <2>3. \A p \in Places(w) : \A k : Describes(w2, t, p, k) <=> Describes(w, t, p, k)
    BY <1>1 DEF Extended
  <2>4. \A k : Describes(w2, t, n, k) <=> k = i
    BY DEF PushesDescription
  <2> QED BY <2>1, <2>2, <2>3, <2>4, <1>4 DEF Once
<1>22. Unknown(r2, q, z, w2, s, t)
  <2>1. ASSUME NEW k \in DOMAIN r, NEW p \in Places(w2), Describes(w2, t, p, k)
        PROVE  /\ \A m \in Places(q) : ~Speaks(q, s, m, k)
               /\ \A j \in DOMAIN z : z[j].fsm.mapped = k => Retired(z[j]) /\ Acked(w2, t, j)
               /\ \A m \in Places(w2), j \in DOMAIN z : Maps(w2, t, m, j, k) => p < m
    <3>1. k # i
      OBVIOUS
    <3>2. p \in Places(w) /\ Describes(w, t, p, k)
      BY <2>1, <3>1, <1>1 DEF PushesDescription, Extended
    <3> QED BY <3>2 DEF Unknown, PushesDescription, Extended
  <2>2. ASSUME NEW p \in Places(w2)
        PROVE  /\ \A m \in Places(q) : ~Speaks(q, s, m, i)
               /\ \A j \in DOMAIN z : z[j].fsm.mapped = i => Retired(z[j]) /\ Acked(w2, t, j)
               /\ \A m \in Places(w2), j \in DOMAIN z : ~Maps(w2, t, m, j, i)
    <3>1. \A m \in Places(w2), j \in DOMAIN z : Maps(w2, t, m, j, i) => HasMapping(w, t, j, i)
      BY <1>1 DEF HasMapping, PushesDescription, Extended
    <3>2. \A j \in DOMAIN z : z[j].fsm.mapped = i => Holds(z, w, t, j, i)
      BY DEF Holds
    <3> QED BY <3>1, <3>2, <1>4, <1>5, <1>6, <1>13
  <2> QED BY <2>1, <2>2 DEF Unknown
<1>23. RepliesFirst(r2, q, s)
  BY <1>4 DEF RepliesFirst
<1>24. AddresseesLive(r2, q, s)
  BY DEF AddresseesLive
<1>25. PartnersLive(r2, z, w2, t)
  BY <1>2 DEF PartnersLive
<1>26. Mutual(r2, q, z, w2, s, t)
  BY <1>2, <1>7 DEF Mutual
<1>27. Counted(r2, q, z, w2, s, t)
  <2>1. ASSUME NEW k \in DOMAIN r
        PROVE  /\ r2[k] = r[k] /\ Owing(z, w2, t, k) = Owing(z, w, t, k)
               /\ Holdings(r2, q, s, k) = Holdings(r, q, s, k)
    BY <1>2, <1>7
  <2>2. /\ ~Acked(q, s, i)
        /\ Removals(q, s, i) + Cardinality(Owing(z, w2, t, i))
               = r2[i].fsm.skip + Holdings(r2, q, s, i)
    BY <1>2, <1>4, <1>7, <1>9
  <2>3. \A k \in DOMAIN r2 : k = i \/ k \in DOMAIN r
    OBVIOUS
  <2> QED BY <2>1, <2>2, <2>3, <1>10 DEF Counted
<1>28. CrossedOnce(r2, q, z, w2, s, t)
  BY <1>4, <1>10 DEF CrossedOnce
<1>29. CrossedKnown(r2, q, z, w2, s, t)
  BY <1>10, <1>13 DEF CrossedKnown
<1>30. OneCandidate(r2)
  BY DEF OneCandidate
<1>31. NoticedUnacked(q, s)
  OBVIOUS
<1>32. CandidatesTold(r2, z, w2, t)
  BY DEF CandidatesTold, Typed, PushesDescription
<1>33. PartnersMeet(r2, q, z, w2, s, t)
  BY <1>7 DEF PartnersMeet, PushesDescription
<1>34. LatestFollows(r2, q, z, s)
  BY <1>12 DEF LatestFollows
<1>35. MappingsFollow(r2, q, z, s)
  BY <1>12 DEF MappingsFollow
<1>36. NewerDescribed(r2, q, z, s)
  BY DEF NewerDescribed, is_mapped
<1>37. NewerFirst(r2, q, s)
  BY DEF NewerFirst
<1>38. RepliesInOrder(r2, q, w2, s, t)
  BY <1>4 DEF RepliesInOrder, PushesDescription
<1>39. RemovalsInOrder(r2, q, z, w2, s, t)
  <2>1. \A k, l : HasMapping(w2, t, k, l) <=> HasMapping(w, t, k, l)
    BY DEF PushesDescription
  <2> QED BY <2>1, <1>2, <1>4, <1>7 DEF RemovalsInOrder
<1>40. Typed(z)
  OBVIOUS
<1>41. Queue(w2)
  BY <1>1 DEF Extended
<1>42. Fit(z)
  OBVIOUS
<1>43. OneVisible(z)
  OBVIOUS
<1>44. DescriptionsPending(z, w2, q, t, s)
  BY DEF DescriptionsPending, PushesDescription
<1>45. RepliesPending(z, w2, t)
  BY <1>1, ExtendedKeeps
<1>46. ReplyComing(z, w2, q, t, s)
  BY DEF ReplyComing, PushesDescription
<1>47. Once(z, w2, q, t, s)
  BY <1>1, ExtendedKeeps
<1>48. Unknown(z, w2, r2, q, t, s)
  <2>1. \A j \in DOMAIN z, p \in Places(q) : Describes(q, s, p, j) => r2[i].fsm.mapped # j
    BY DEF Typed
  <2>2. \A p \in Places(q) : \A j : ~Maps(q, s, p, i, j)
    BY <1>4 DEF HasMapping
  <2>3. \A p \in Places(w2) : \A k : Speaks(w2, t, p, k) => p \in Places(w) /\ Speaks(w, t, p, k)
    BY DEF PushesDescription, Extended
  <2> QED BY <2>1, <2>2, <2>3 DEF Unknown
<1>49. RepliesFirst(z, w2, t)
  BY <1>1, ExtendedKeeps
<1>50. AddresseesLive(z, w2, t)
  BY <1>1 DEF AddresseesLive, Extended
<1>51. PartnersLive(z, r2, q, s)
  BY <1>7 DEF PartnersLive
<1>52. Mutual(z, w2, r2, q, t, s)
  BY <1>2, <1>5, <1>7, <1>13 DEF Mutual
<1>53. Counted(z, w2, r2, q, t, s)
  <2>1. ASSUME NEW k \in DOMAIN z
        PROVE  /\ Acked(w2, t, k) <=> Acked(w, t, k)
               /\ Removals(w2, t, k) = Removals(w, t, k)
               /\ Owing(r2, q, s, k) = Owing(r, q, s, k)
               /\ Holdings(z, w2, t, k) = Holdings(z, w, t, k)
               /\ \A p \in Places(w2) : Acks(w2, t, p, k) \/ Speaks(w2, t, p, k) => p \in Places(w)
    BY <1>2, <1>8 DEF PushesDescription, Extended
  <2> QED BY <2>1, <1>1, <1>11 DEF Counted, Extended
<1>54. CrossedOnce(z, w2, r2, q, t, s)
  BY <1>11, <1>13 DEF CrossedOnce
<1>55. CrossedKnown(z, w2, r2, q, t, s)
  <2>1. ~Retired(r2[i])
    BY DEF Retired
  <2> QED BY <2>1, <1>11, <1>13 DEF CrossedKnown
<1>56. OneCandidate(z)
  OBVIOUS
<1>57. NoticedUnacked(w2, t)
  BY <1>1, ExtendedKeeps
<1>58. CandidatesTold(z, r2, q, s)
  BY <1>5 DEF CandidatesTold, Holds, Retired, Unconfirmed
<1>59. PartnersMeet(z, w2, r2, q, t, s)
  BY <1>2 DEF PartnersMeet, PushesDescription
<1>60. LatestFollows(z, w2, r2, t)
  <2>1. ASSUME NEW j \in DOMAIN r2, NEW p \in Places(w2), ~r2[j].hidden,
               Marks(z, w2, t, p, r2[j].identifier, j)
        PROVE  \E k \in Places(w2) : p < k /\ Describes(w2, t, k, j)
    <3>1. n \in Places(w2) /\ Describes(w2, t, n, i) /\ \A m \in Places(w) : m < n
      BY DEF PushesDescription, Extended
    <3>2. CASE p = n
      <4>1. r2[j].identifier = x /\ j # i
        BY <2>1, <3>2, <1>1 DEF Marks, PushesDescription
      <4> QED BY <2>1, <4>1
    <3>3. CASE p \in Places(w) /\ j = i
      BY <3>1, <3>3
    <3>4. CASE p \in Places(w) /\ j \in DOMAIN r
      <4>1. Marks(z, w, t, p, r[j].identifier, j)
        BY <2>1, <3>4, <1>1 DEF Extended
      <4>2. PICK k \in Places(w) : p < k /\ Describes(w, t, k, j)
        BY <2>1, <3>4, <4>1 DEF LatestFollows
      <4> QED BY <4>2, <1>1 DEF Extended
    <3> QED BY <3>2, <3>3, <3>4, <1>1 DEF Extended
  <2> QED BY <2>1 DEF LatestFollows
<1>61. MappingsFollow(z, w2, r2, t)
  <2>1. MappingsFollow(z, w2, r, t)
    BY <1>1, ExtendedKeeps
  <2>2. \A p \in Places(w2) : w2[p].type = "Mapping" /\ w2[p].to = t => w2[p].own # i
    BY <1>1, <1>6 DEF HasMapping, Maps, AddresseesLive, Extended
  <2> QED BY <2>1, <2>2 DEF MappingsFollow
<1>62. NewerDescribed(z, w2, r2, t)
  BY DEF NewerDescribed, PushesDescription
<1>63. NewerFirst(z, w2, t)
  BY <1>1, ExtendedKeeps
<1>64. RepliesInOrder(z, w2, q, t, s)
  BY DEF RepliesInOrder, PushesDescription, Extended
<1>65. RemovalsInOrder(z, w2, r2, q, t, s)
  <2>1. \A p \in Places(w2) : \A k :
            /\ Removes(w2, t, p, k) => p \in Places(w) /\ Removes(w, t, p, k)
            /\ Replies(w2, t, p, k) => p \in Places(w) /\ Replies(w, t, p, k)
    BY <1>1 DEF PushesDescription, Extended
  <2>2. ASSUME NEW a \in DOMAIN z, NEW k \in DOMAIN z, NEW l \in DOMAIN r2,
               NEW p \in Places(w2), NEW m \in Places(w2),
               a # k, Holds(r2, q, s, l, a), Unconfirmed(z[k]),
               \/ Acked(w2, t, k) /\ Acker(z, w2, t, k, l)
               \/ Holds(z, w2, t, k, l) /\ r2[l].fsm.mapped = k /\ HasMapping(q, s, l, a),
               Removes(w2, t, p, a), Replies(w2, t, m, k)
        PROVE  m < p
    <3>1. /\ l \in DOMAIN r /\ Holds(r, q, s, l, a) /\ r2[l] = r[l]
          /\ p \in Places(w) /\ Removes(w, t, p, a) /\ m \in Places(w) /\ Replies(w, t, m, k)
      <4>1. Holds(r, q, s, l, a)
        BY <2>2, <1>7
      <4>2. l \in DOMAIN r
        BY <4>1 DEF Holds
      <4> QED BY <4>1, <4>2, <2>1, <2>2
    <3>2. \/ Acked(w, t, k) /\ Acker(z, w, t, k, l)
          \/ Holds(z, w, t, k, l) /\ r[l].fsm.mapped = k /\ HasMapping(q, s, l, a)
      BY <2>2, <3>1, <1>2, <1>13
    <3> QED BY <2>2, <3>1, <3>2 DEF RemovalsInOrder
  <2> QED BY <2>2 DEF RemovalsInOrder
<1> QED BY <1>14, <1>15, <1>16, <1>17, <1>18, <1>19, <1>20, <1>21, <1>22, <1>23, <1>24, <1>25,
           <1>26, <1>27, <1>28, <1>29, <1>30, <1>31, <1>32, <1>33, <1>34, <1>35, <1>36, <1>37,
           <1>38, <1>39, <1>40, <1>41, <1>42, <1>43, <1>44, <1>45, <1>46, <1>47, <1>48, <1>49,
           <1>50, <1>51, <1>52, <1>53, <1>54, <1>55, <1>56, <1>57, <1>58, <1>59, <1>60, <1>61,
           <1>62, <1>63, <1>64, <1>65

\* An element is hidden when it is destroyed and has nothing to say yet.
LEMMA HideKeeps ==
    ASSUME NEW r, NEW q, NEW z, NEW w, NEW s, NEW t, Pair(r, q, z, w, s, t),
           NEW r2, NEW i,
           i \in DOMAIN r,
           DOMAIN r2 = DOMAIN r,
           \A k \in DOMAIN r \ {i} : r2[k] = r[k],
           r2[i].identifier = r[i].identifier,
           r2[i].hidden,
           r2[i].fsm.skip = r[i].fsm.skip,
           r2[i].fsm.mapped = r[i].fsm.mapped,
           \/ /\ r[i].fsm.state \in {"UNUSED_UNCONFIRMED", "MAPPED_UNCONFIRMED"}
              /\ r2[i].fsm.state = "AWAIT_CONFIRMATION"
           \/ /\ r[i].fsm.state = "UNUSED_CONFIRMED"
              /\ r2[i].fsm.state = "AWAIT_REMOVALS"
    PROVE  Pair(r2, q, z, w, s, t)
<1> USE DEF Pair, End, Replied, Linked, Ordered, NoId
<1>1. \A k \in DOMAIN r : /\ r2[k].identifier = r[k].identifier
                          /\ r2[k].fsm.skip = r[k].fsm.skip /\ r2[k].fsm.mapped = r[k].fsm.mapped
  OBVIOUS
<1>2. \A k \in DOMAIN r : /\ Unconfirmed(r2[k]) <=> Unconfirmed(r[k])
                          /\ Retired(r2[k]) <=> Retired(r[k])
  BY DEF Unconfirmed, Retired
<1>3. \A k \in DOMAIN r : /\ is_mapped(r2[k].fsm) => is_mapped(r[k].fsm)
                          /\ ~r2[k].hidden => ~r[k].hidden
                          /\ r2[k].fsm.state = "MAPPED_UNCONFIRMED"
                                 => r[k].fsm.state = "MAPPED_UNCONFIRMED"
                          /\ r[k].fsm.state \in {"AWAIT_CONFIRMATION", "AWAIT_ACK"}
                                 => r2[k].fsm.state \in {"AWAIT_CONFIRMATION", "AWAIT_ACK"}
  BY DEF is_mapped
<1>4. /\ \A k, j : Holds(r2, q, s, k, j) <=> Holds(r, q, s, k, j)
      /\ \A k \in DOMAIN r : \A j : Acker(r2, q, s, k, j) <=> Acker(r, q, s, k, j)
      /\ \A k \in DOMAIN r : Holdings(r2, q, s, k) = Holdings(r, q, s, k)
  BY <1>1 DEF Holds, Acker, Holdings
<1>5. \A k : Owing(r2, q, s, k) = Owing(r, q, s, k)
  BY <1>2, <1>4 DEF Owing
<1>6. /\ \A k \in DOMAIN r : AckedLate(r2, q, z, w, s, t, k) <=> AckedLate(r, q, z, w, s, t, k)
      /\ \A k \in DOMAIN r : AckedEarly(r2, q, s, k) <=> AckedEarly(r, q, s, k)
      /\ \A k \in DOMAIN z : AckedLate(z, w, r2, q, t, s, k) <=> AckedLate(z, w, r, q, t, s, k)
  BY <1>1, <1>2, <1>4 DEF AckedLate, AckedEarly, Crossed
<1>7. \A p \in Places(q) : q[p].type \in {"Mapping", "Noticed", "Removed", "RemovedAck"}
         /\ q[p].to = s => q[p].id \in DOMAIN r
  BY DEF AddresseesLive
<1>8. \A j, y : \A p \in Places(q) : Marks(r2, q, s, p, y, j) <=> Marks(r, q, s, p, y, j)
  BY <1>1, <1>7 DEF Marks
<1>9. Typed(r2)
  BY <1>1 DEF Typed, States
<1>10. Queue(q)
  OBVIOUS
<1>11. Fit(r2)
  BY DEF Fit, is_mapped, destroyed
<1>12. OneVisible(r2)
  BY <1>1, <1>3 DEF OneVisible
<1>13. DescriptionsPending(r2, q, w, s, t)
  BY <1>2 DEF DescriptionsPending
<1>14. RepliesPending(r2, q, s)
  BY <1>2 DEF RepliesPending
<1>15. ReplyComing(r2, q, w, s, t)
  BY <1>2 DEF ReplyComing
<1>16. Once(r2, q, w, s, t)
  BY DEF Once
<1>17. Unknown(r2, q, z, w, s, t)
  BY DEF Unknown
<1>18. RepliesFirst(r2, q, s)
  BY DEF RepliesFirst
<1>19. AddresseesLive(r2, q, s)
  BY DEF AddresseesLive
<1>20. PartnersLive(r2, z, w, t)
  BY DEF PartnersLive
<1>21. Mutual(r2, q, z, w, s, t)
  BY <1>4 DEF Mutual
<1>22. Counted(r2, q, z, w, s, t)
  BY <1>4, <1>6 DEF Counted
<1>23. CrossedOnce(r2, q, z, w, s, t)
  BY <1>6 DEF CrossedOnce
<1>24. CrossedKnown(r2, q, z, w, s, t)
  BY <1>6 DEF CrossedKnown
<1>25. OneCandidate(r2)
  BY <1>2 DEF OneCandidate
<1>26. NoticedUnacked(q, s)
  OBVIOUS
<1>27. CandidatesTold(r2, z, w, t)
  BY <1>2 DEF CandidatesTold
<1>28. PartnersMeet(r2, q, z, w, s, t)
  BY <1>4 DEF PartnersMeet
<1>29. LatestFollows(r2, q, z, s)
  BY <1>8 DEF LatestFollows
<1>30. MappingsFollow(r2, q, z, s)
  BY <1>8 DEF MappingsFollow
<1>31. NewerDescribed(r2, q, z, s)
  BY <1>3 DEF NewerDescribed
<1>32. NewerFirst(r2, q, s)
  BY DEF NewerFirst
<1>33. RepliesInOrder(r2, q, w, s, t)
  BY <1>2 DEF RepliesInOrder
<1>34. RemovalsInOrder(r2, q, z, w, s, t)
  BY <1>2, <1>4 DEF RemovalsInOrder
<1>35. Typed(z)
  OBVIOUS
<1>36. Queue(w)
  OBVIOUS
<1>37. Fit(z)
  OBVIOUS
<1>38. OneVisible(z)
  OBVIOUS
<1>39. DescriptionsPending(z, w, q, t, s)
  OBVIOUS
<1>40. RepliesPending(z, w, t)
  OBVIOUS
<1>41. ReplyComing(z, w, q, t, s)
  OBVIOUS
<1>42. Once(z, w, q, t, s)
  OBVIOUS
<1>43. Unknown(z, w, r2, q, t, s)
  BY <1>2 DEF Unknown
<1>44. RepliesFirst(z, w, t)
  OBVIOUS
<1>45. AddresseesLive(z, w, t)
  OBVIOUS
<1>46. PartnersLive(z, r2, q, s)
  BY <1>2, <1>4 DEF PartnersLive
<1>47. Mutual(z, w, r2, q, t, s)
  BY <1>4 DEF Mutual
<1>48. Counted(z, w, r2, q, t, s)
  BY <1>5, <1>6 DEF Counted
<1>49. CrossedOnce(z, w, r2, q, t, s)
  BY <1>6 DEF CrossedOnce
<1>50. CrossedKnown(z, w, r2, q, t, s)
  BY <1>2, <1>6 DEF CrossedKnown
<1>51. OneCandidate(z)
  OBVIOUS
<1>52. NoticedUnacked(w, t)
  OBVIOUS
<1>53. CandidatesTold(z, r2, q, s)
  BY <1>2 DEF CandidatesTold
<1>54. PartnersMeet(z, w, r2, q, t, s)
  BY DEF PartnersMeet
<1>55. LatestFollows(z, w, r2, t)
  BY DEF LatestFollows
<1>56. MappingsFollow(z, w, r2, t)
  BY DEF MappingsFollow
<1>57. NewerDescribed(z, w, r2, t)
  BY DEF NewerDescribed
<1>58. NewerFirst(z, w, t)
  OBVIOUS
<1>59. RepliesInOrder(z, w, q, t, s)
  OBVIOUS
<1>60. RemovalsInOrder(z, w, r2, q, t, s)
  BY <1>4 DEF RemovalsInOrder
<1> QED BY <1>9, <1>10, <1>11, <1>12, <1>13, <1>14, <1>15, <1>16, <1>17, <1>18, <1>19, <1>20,
           <1>21, <1>22, <1>23, <1>24, <1>25, <1>26, <1>27, <1>28, <1>29, <1>30, <1>31, <1>32,
           <1>33, <1>34, <1>35, <1>36, <1>37, <1>38, <1>39, <1>40, <1>41, <1>42, <1>43, <1>44,
           <1>45, <1>46, <1>47, <1>48, <1>49, <1>50, <1>51, <1>52, <1>53, <1>54, <1>55, <1>56,
           <1>57, <1>58, <1>59, <1>60

\* A description for which there is no visible element is noticed.
LEMMA NoticeKeeps ==
    ASSUME NEW r, NEW q, NEW z, NEW w, NEW s, NEW t, Pair(r, q, z, w, s, t),
           NEW q2, NEW w2, NEW h, NEW n, NEW j,
           PopsDescription(q, q2, h, s, j),
           PushesNoticed(w, w2, n, t, j),
           \A k \in DOMAIN r : r[k].identifier = q[h].identifier => r[k].hidden
    PROVE  Pair(r, q2, z, w2, s, t)
<1> USE DEF Pair, End, Replied, Linked, Ordered, NoId
<1>1. j \in DOMAIN z /\ Unconfirmed(z[j]) /\ z[j].identifier = q[h].identifier /\ ~HasReply(w, t, j)
  BY DEF DescriptionsPending, PopsDescription, Shortened, PushesNoticed, Extended
<1>2. /\ \A p \in Places(w) : ~Speaks(w, t, p, j)
      /\ \A p \in Places(w) : ~Removes(w, t, p, j) /\ ~Acks(w, t, p, j)
      /\ ~Acked(w, t, j)
      /\ \A k : ~HasMapping(w, t, j, k)
  BY <1>1 DEF Unknown, Acked, Speaks, HasMapping, Maps, Replies, PopsDescription, Shortened,
     PushesNoticed, Extended
<1>3. /\ ~HasDescription(q2, s, j)
      /\ \A p \in Places(q2) : q2[p].type = "Description" /\ q2[p].to = s => q2[p].own # j
  BY <1>1 DEF HasDescription, Describes, Once, PopsDescription, Shortened, PushesNoticed, Extended
<1>4. \A k \in DOMAIN r : r[k].fsm.mapped = j => Retired(r[k])
  BY <1>1 DEF Unknown, PopsDescription, Shortened, PushesNoticed, Extended
<1>5. /\ \A k, l : Holds(r, q2, s, k, l) <=> Holds(r, q, s, k, l)
      /\ \A k, l : Acker(r, q2, s, k, l) <=> Acker(r, q, s, k, l)
      /\ \A k : Holdings(r, q2, s, k) = Holdings(r, q, s, k)
      /\ \A k : Owing(r, q2, s, k) = Owing(r, q, s, k)
  BY DEF Holds, Acker, Holdings, Owing, PopsDescription
<1>6. /\ \A k, l : Holds(z, w2, t, k, l) <=> Holds(z, w, t, k, l)
      /\ \A k, l : Acked(w2, t, k) => (Acker(z, w2, t, k, l) <=> Acker(z, w, t, k, l))
      /\ \A k : Holdings(z, w2, t, k) = Holdings(z, w, t, k)
      /\ \A k : Owing(z, w2, t, k) = Owing(z, w, t, k)
  BY <1>2 DEF Holds, Acker, Holdings, Owing, PushesNoticed
<1>7. /\ \A k : AckedLate(r, q2, z, w2, s, t, k) <=> AckedLate(r, q, z, w, s, t, k)
      /\ \A k : AckedEarly(r, q2, s, k) <=> AckedEarly(r, q, s, k)
      /\ \A k : AckedLate(z, w2, r, q2, t, s, k) <=> AckedLate(z, w, r, q, t, s, k)
      /\ \A k : AckedEarly(z, w2, t, k) <=> AckedEarly(z, w, t, k)
  BY <1>5, <1>6 DEF AckedLate, AckedEarly, Crossed, PopsDescription, PushesNoticed
<1>8. Shortened(q, q2, h, s) /\ Extended(w, w2, n, t) /\ w2[n].type = "Noticed"
  BY DEF PopsDescription, PushesNoticed
<1>9. Typed(r)
  OBVIOUS
<1>10. Queue(q2)
  BY DEF PopsDescription, Shortened
<1>11. Fit(r)
  OBVIOUS
<1>12. OneVisible(r)
  OBVIOUS
<1>13. DescriptionsPending(r, q2, w2, s, t)
  BY DEF DescriptionsPending, PopsDescription, PushesNoticed, Extended
<1>14. RepliesPending(r, q2, s)
  BY DEF RepliesPending, PopsDescription, Shortened
<1>15. ReplyComing(r, q2, w2, s, t)
  BY DEF ReplyComing, PopsDescription, PushesNoticed
<1>16. Once(r, q2, w2, s, t)
  BY DEF Once, PopsDescription, Shortened, PushesNoticed, Extended
<1>17. Unknown(r, q2, z, w2, s, t)
  <2>1. Unknown(r, q2, z, w, s, t)
    BY <1>8, ShortenedKeeps
  <2> QED BY <2>1, <1>8, ExtendedKeeps
<1>18. RepliesFirst(r, q2, s)
  BY DEF RepliesFirst, PopsDescription, Shortened
<1>19. AddresseesLive(r, q2, s)
  BY DEF AddresseesLive, PopsDescription, Shortened
<1>20. PartnersLive(r, z, w2, t)
  BY <1>6 DEF PartnersLive
<1>21. Mutual(r, q2, z, w2, s, t)
  BY <1>5, <1>6 DEF Mutual, PopsDescription
<1>22. Counted(r, q2, z, w2, s, t)
  BY <1>5, <1>6, <1>7 DEF Counted, PopsDescription, Shortened
<1>23. CrossedOnce(r, q2, z, w2, s, t)
  BY <1>7 DEF CrossedOnce, PopsDescription
<1>24. CrossedKnown(r, q2, z, w2, s, t)
  BY <1>7 DEF CrossedKnown, PopsDescription, PushesNoticed
<1>25. OneCandidate(r)
  OBVIOUS
<1>26. NoticedUnacked(q2, s)
  BY DEF NoticedUnacked, PopsDescription, Shortened
<1>27. CandidatesTold(r, z, w2, t)
  BY DEF CandidatesTold, PushesNoticed
<1>28. PartnersMeet(r, q2, z, w2, s, t)
  BY <1>1, <1>5 DEF PartnersMeet, PopsDescription, PushesNoticed
<1>29. LatestFollows(r, q2, z, s)
  BY DEF LatestFollows, PopsDescription, Shortened
<1>30. MappingsFollow(r, q2, z, s)
  BY <1>8, ShortenedKeeps
<1>31. NewerDescribed(r, q2, z, s)
  BY <1>1 DEF NewerDescribed, PopsDescription, Fit, destroyed, is_mapped
<1>32. NewerFirst(r, q2, s)
  <2>1. ASSUME NEW i \in DOMAIN r, NEW k \in Places(q2), r[i].fsm.state = "MAPPED_UNCONFIRMED",
               q2[k].type = "Mapping", q2[k].to = s, q2[k].id = i, q2[k].own # r[i].fsm.mapped
        PROVE  q2[k].own # j
    <3>1. Holds(r, q, s, i, q2[k].own) /\ ~Retired(r[i]) /\ q2[k].own \in Nat
      BY <2>1 DEF Holds, HasMapping, Maps, Retired, RepliesPending, PopsDescription, Shortened
    <3>2. ~r[i].hidden
      BY <2>1 DEF Fit, destroyed
    <3> QED BY <3>1, <3>2, <1>1 DEF PartnersLive
  <2> QED BY <2>1 DEF NewerFirst, PopsDescription, Shortened
<1>33. RepliesInOrder(r, q2, w2, s, t)
  <2>1. \A k : HasDescription(w2, t, k) <=> HasDescription(w, t, k)
    BY DEF PushesNoticed
  <2>2. \A p \in Places(q2) : \A k : p \in Places(q)
           /\ (Replies(q2, s, p, k) <=> Replies(q, s, p, k))
    BY <1>8 DEF Shortened
  <2>3. \A n1 \in Places(q) : \A p \in Places(q2) : p < n1 => n1 \in Places(q2)
    BY <1>8 DEF Shortened
  <2> QED BY <2>1, <2>2, <2>3 DEF RepliesInOrder
<1>34. RemovalsInOrder(r, q2, z, w2, s, t)
  BY <1>5, <1>6 DEF RemovalsInOrder, PopsDescription, Shortened, PushesNoticed
<1>35. Typed(z)
  OBVIOUS
<1>36. Queue(w2)
  BY DEF PushesNoticed, Extended
<1>37. Fit(z)
  OBVIOUS
<1>38. OneVisible(z)
  OBVIOUS
<1>39. DescriptionsPending(z, w2, q2, t, s)
  BY <1>3 DEF DescriptionsPending, PopsDescription, Shortened, PushesNoticed
<1>40. RepliesPending(z, w2, t)
  BY <1>1 DEF RepliesPending, PushesNoticed, Extended
<1>41. ReplyComing(z, w2, q2, t, s)
  BY DEF ReplyComing, PopsDescription, PushesNoticed
<1>42. Once(z, w2, q2, t, s)
  <2>1. Once(z, w, q2, t, s)
    BY <1>8, ShortenedKeeps
  <2>2. \A p \in Places(w2) : \A k :
            Replies(w2, t, p, k) => (p = n /\ k = j) \/ (p \in Places(w) /\ Replies(w, t, p, k))
    BY DEF PushesNoticed, Extended
  <2>3. \A p \in Places(w) : ~Replies(w, t, p, j)
    BY <1>1 DEF HasReply
  <2> QED BY <2>1, <2>2, <2>3 DEF Once
<1>43. Unknown(z, w2, r, q2, t, s)
  <2>1. Unknown(z, w, r, q2, t, s)
    <3>1. \A k : Acked(q2, s, k) <=> Acked(q, s, k)
      BY DEF PopsDescription
    <3> QED BY <3>1, <1>8 DEF Unknown, Shortened
  <2>2. \A k, p : p \in Places(q2) /\ Describes(q2, s, p, k) => k # j
    BY <1>3 DEF HasDescription
  <2>3. \A k, p : p \in Places(w2) /\ Speaks(w2, t, p, k)
            => k = j \/ (p \in Places(w) /\ Speaks(w, t, p, k))
    BY DEF PushesNoticed, Extended
  <2> QED BY <2>1, <2>2, <2>3 DEF Unknown
<1>44. RepliesFirst(z, w2, t)
  BY <1>2 DEF RepliesFirst, PushesNoticed, Extended
<1>45. AddresseesLive(z, w2, t)
  BY <1>1 DEF AddresseesLive, PushesNoticed, Extended
<1>46. PartnersLive(z, r, q2, s)
  BY <1>5 DEF PartnersLive
<1>47. Mutual(z, w2, r, q2, t, s)
  BY <1>5, <1>6 DEF Mutual, PushesNoticed
<1>48. Counted(z, w2, r, q2, t, s)
  BY <1>2, <1>5, <1>6, <1>7 DEF Counted, PushesNoticed, Extended
<1>49. CrossedOnce(z, w2, r, q2, t, s)
  BY <1>7 DEF CrossedOnce, PushesNoticed
<1>50. CrossedKnown(z, w2, r, q2, t, s)
  BY <1>7 DEF CrossedKnown, PopsDescription, PushesNoticed
<1>51. OneCandidate(z)
  OBVIOUS
<1>52. NoticedUnacked(w2, t)
  BY <1>2 DEF NoticedUnacked, PushesNoticed, Extended
<1>53. CandidatesTold(z, r, q2, s)
  BY DEF CandidatesTold, PopsDescription
<1>54. PartnersMeet(z, w2, r, q2, t, s)
  BY <1>1, <1>6 DEF PartnersMeet, PopsDescription, PushesNoticed
<1>55. LatestFollows(z, w2, r, t)
  BY <1>1 DEF LatestFollows, Marks, PushesNoticed, Extended
<1>56. MappingsFollow(z, w2, r, t)
  BY <1>8, ExtendedKeeps
<1>57. NewerDescribed(z, w2, r, t)
  BY DEF NewerDescribed, PushesNoticed
<1>58. NewerFirst(z, w2, t)
  BY <1>8, ExtendedKeeps
<1>59. RepliesInOrder(z, w2, q2, t, s)
  BY <1>1 DEF RepliesInOrder, PopsDescription, Shortened, PushesNoticed, Extended,
     LatestFollows, Marks, HasDescription
<1>60. RemovalsInOrder(z, w2, r, q2, t, s)
  <2>1. SUFFICES ASSUME NEW a \in DOMAIN z, NEW k \in DOMAIN z, NEW l \in DOMAIN r,
                        NEW p \in Places(w2), NEW m \in Places(w2),
                        a # k, Holds(r, q2, s, l, a), Unconfirmed(z[k]),
                        \/ Acked(w2, t, k) /\ Acker(z, w2, t, k, l)
                        \/ Holds(z, w2, t, k, l) /\ r[l].fsm.mapped = k /\ HasMapping(q2, s, l, a),
                        Removes(w2, t, p, a), Replies(w2, t, m, k)
                 PROVE  m < p
    BY DEF RemovalsInOrder
  <2>2. HasMapping(q2, s, l, a) => r[l].fsm.mapped # j
    <3>1. HasMapping(q2, s, l, a) => Unconfirmed(r[l])
      BY DEF RepliesPending, HasMapping, Maps, PopsDescription
    <3>2. Unconfirmed(r[l]) => ~Retired(r[l])
      BY DEF Unconfirmed, Retired
    <3> QED BY <3>1, <3>2, <1>4
  <2>3. Acked(w2, t, k) <=> Acked(w, t, k)
    BY DEF PushesNoticed
  <2>4. k # j
    BY <2>1, <2>2, <2>3, <1>2
  <2>5. /\ p \in Places(w) /\ Removes(w, t, p, a)
        /\ m \in Places(w) /\ Replies(w, t, m, k)
    BY <2>1, <2>4 DEF PushesNoticed, Extended
  <2>6. Holds(r, q, s, l, a) /\ (HasMapping(q2, s, l, a) => HasMapping(q, s, l, a))
    BY <2>1, <1>5 DEF PopsDescription
  <2>7. \/ Acked(w, t, k) /\ Acker(z, w, t, k, l)
        \/ Holds(z, w, t, k, l) /\ r[l].fsm.mapped = k /\ HasMapping(q, s, l, a)
    BY <2>1, <2>3, <2>6, <1>6
  <2> QED BY <2>1, <2>5, <2>6, <2>7 DEF RemovalsInOrder
<1> QED BY <1>9, <1>10, <1>11, <1>12, <1>13, <1>14, <1>15, <1>16, <1>17, <1>18, <1>19, <1>20,
           <1>21, <1>22, <1>23, <1>24, <1>25, <1>26, <1>27, <1>28, <1>29, <1>30, <1>31, <1>32,
           <1>33, <1>34, <1>35, <1>36, <1>37, <1>38, <1>39, <1>40, <1>41, <1>42, <1>43, <1>44,
           <1>45, <1>46, <1>47, <1>48, <1>49, <1>50, <1>51, <1>52, <1>53, <1>54, <1>55, <1>56,
           <1>57, <1>58, <1>59, <1>60

\* The visible element of the described identifier is mapped to the described one.
LEMMA MapKeeps ==
    ASSUME NEW r, NEW q, NEW z, NEW w, NEW s, NEW t, Pair(r, q, z, w, s, t),
           NEW r2, NEW q2, NEW w2, NEW h, NEW n, NEW i, NEW j,
           PopsDescription(q, q2, h, s, j),
           PushesMapping(w, w2, n, t, j, i),
           i \in DOMAIN r,
           DOMAIN r2 = DOMAIN r,
           \A k \in DOMAIN r \ {i} : r2[k] = r[k],
           r[i].identifier = q[h].identifier,
           ~r[i].hidden,
           r2[i].identifier = r[i].identifier,
           ~r2[i].hidden,
           r2[i].fsm.skip = r[i].fsm.skip,
           r2[i].fsm.mapped = j,
           \/ /\ r[i].fsm.state = "UNUSED_UNCONFIRMED"
              /\ r2[i].fsm.state = "MAPPED_UNCONFIRMED"
           \/ /\ r[i].fsm.state = "UNUSED_CONFIRMED"
              /\ r2[i].fsm.state = "MAPPED_CONFIRMED"
    PROVE  Pair(r2, q2, z, w2, s, t)
<1> USE DEF Pair, End, Replied, Linked, Ordered, NoId
<1>1. j \in DOMAIN z /\ Unconfirmed(z[j]) /\ z[j].identifier = r[i].identifier
         /\ ~HasReply(w, t, j) /\ j # NoId /\ j \in Nat
  BY DEF DescriptionsPending, Typed, PopsDescription, Shortened, PushesMapping, Extended
<1>2. /\ \A p \in Places(w) : ~Speaks(w, t, p, j)
      /\ \A p \in Places(w) : ~Removes(w, t, p, j) /\ ~Acks(w, t, p, j)
      /\ ~Acked(w, t, j)
      /\ \A k : ~HasMapping(w, t, j, k)
  BY <1>1 DEF Unknown, Acked, Speaks, HasMapping, Maps, Replies, PopsDescription, Shortened,
     PushesMapping, Extended
<1>3. /\ ~HasDescription(q2, s, j)
      /\ \A p \in Places(q2) : q2[p].type = "Description" /\ q2[p].to = s => q2[p].own # j
  BY <1>1 DEF HasDescription, Describes, Once, PopsDescription, Shortened, PushesMapping, Extended
<1>4. \A k \in DOMAIN r : r[k].fsm.mapped = j => Retired(r[k])
  BY <1>1 DEF Unknown, PopsDescription, Shortened, PushesMapping, Extended
<1>5. /\ r[i].fsm.mapped = NoId /\ ~Acked(q, s, i) /\ ~Retired(r[i])
      /\ \A k \in DOMAIN r : k # i => r2[k] = r[k]
      /\ \A k \in DOMAIN r : r2[k].identifier = r[k].identifier /\ (r2[k].hidden <=> r[k].hidden)
      /\ \A k \in DOMAIN r : Unconfirmed(r2[k]) <=> Unconfirmed(r[k])
      /\ \A k \in DOMAIN r : Retired(r2[k]) <=> Retired(r[k])
  BY DEF Fit, Counted, Retired, Unconfirmed
<1>6. /\ \A k, l : Holds(r2, q2, s, k, l) <=> Holds(r, q, s, k, l) \/ (k = i /\ l = j)
      /\ \A k \in DOMAIN r : \A l : k # i => (Acker(r2, q2, s, k, l) <=> Acker(r, q, s, k, l))
      /\ \A k \in DOMAIN r : k # i => Holdings(r2, q2, s, k) = Holdings(r, q, s, k)
  BY <1>1, <1>5 DEF Holds, Acker, Holdings, PopsDescription
<1>7. /\ \A k, l : Holds(z, w2, t, k, l) <=> Holds(z, w, t, k, l) \/ (k = j /\ l = i)
      /\ \A k, l : Acked(w2, t, k) => (Acker(z, w2, t, k, l) <=> Acker(z, w, t, k, l))
      /\ \A k : k # j => Holdings(z, w2, t, k) = Holdings(z, w, t, k)
  BY <1>1, <1>2 DEF Holds, Acker, Holdings, PushesMapping, Typed
<1>8. /\ \A k : Owing(r2, q2, s, k) = IF k
             = j THEN Owing(r, q, s, j) \cup {i} ELSE Owing(r, q, s, k)
      /\ \A k : Owing(z, w2, t, k) = IF k = i THEN Owing(z, w, t, i) \cup {j} ELSE Owing(z, w, t, k)
  BY <1>1, <1>5, <1>6, <1>7 DEF Owing, Unconfirmed, Retired
<1>9. /\ \A k \in DOMAIN r : k # i
             => (AckedLate(r2, q2, z, w2, s, t, k) <=> AckedLate(r, q, z, w, s, t, k))
      /\ \A k \in DOMAIN r : k # i => (AckedEarly(r2, q2, s, k) <=> AckedEarly(r, q, s, k))
      /\ \A k \in DOMAIN z : k # j
             => (AckedLate(z, w2, r2, q2, t, s, k) <=> AckedLate(z, w, r, q, t, s, k))
      /\ \A k \in DOMAIN z : k # j => (AckedEarly(z, w2, t, k) <=> AckedEarly(z, w, t, k))
  BY <1>5, <1>6, <1>7 DEF AckedLate, AckedEarly, Crossed, PopsDescription, PushesMapping
<1>10. Shortened(q, q2, h, s) /\ Extended(w, w2, n, t) /\ w2[n].type = "Mapping"
  BY DEF PopsDescription, PushesMapping
<1>11. \A p \in Places(q) : \A x, l : Marks(r2, q, s, p, x, l) <=> Marks(r, q, s, p, x, l)
  BY <1>5 DEF Marks, AddresseesLive
<1>12. /\ Holds(r, q, s, i, j) <=> i \in Owing(r, q, s, j)
       /\ Holds(z, w, t, j, i) <=> j \in Owing(z, w, t, i)
       /\ Holds(r, q, s, i, j) <=> Holds(z, w, t, j, i)
  BY <1>1, <1>2, <1>5 DEF Owing, Retired, Unconfirmed, Mutual, Typed
<1>13. /\ IsFiniteSet(Owing(r, q, s, j)) /\ Cardinality(Owing(r, q, s, j)) \in Nat
       /\ IsFiniteSet(Owing(z, w, t, i)) /\ Cardinality(Owing(z, w, t, i)) \in Nat
  <2>1. Owing(r, q, s, j) \subseteq DOMAIN r /\ Owing(z, w, t, i) \subseteq DOMAIN z
    BY DEF Owing
  <2>2. IsFiniteSet(Owing(r, q, s, j)) /\ IsFiniteSet(Owing(z, w, t, i))
    BY <2>1, FS_Subset DEF Typed
  <2> QED BY <2>2, FS_CardinalityType
<1>14. Typed(r2)
  BY <1>1, <1>5 DEF Typed, States
<1>15. Queue(q2)
  BY <1>10 DEF Shortened
<1>16. Fit(r2)
  BY <1>1, <1>5 DEF Fit, is_mapped, destroyed
<1>17. OneVisible(r2)
  BY <1>5 DEF OneVisible
<1>18. DescriptionsPending(r2, q2, w2, s, t)
  BY <1>5 DEF DescriptionsPending, PopsDescription, PushesMapping, Extended
<1>19. RepliesPending(r2, q2, s)
  BY <1>5 DEF RepliesPending, PopsDescription, Shortened
<1>20. ReplyComing(r2, q2, w2, s, t)
  BY <1>5 DEF ReplyComing, PopsDescription, PushesMapping
<1>21. Once(r2, q2, w2, s, t)
  <2>1. Once(r, q2, w, s, t)
    BY <1>10, ShortenedKeeps
  <2>2. Once(r, q2, w2, s, t)
    BY <2>1, <1>10, ExtendedKeeps
  <2> QED BY <2>2 DEF Once
<1>22. Unknown(r2, q2, z, w2, s, t)
  BY DEF Unknown, PopsDescription, Shortened, PushesMapping, Extended
<1>23. RepliesFirst(r2, q2, s)
  <2>1. RepliesFirst(r, q2, s)
    BY <1>10, ShortenedKeeps
  <2> QED BY <2>1 DEF RepliesFirst
<1>24. AddresseesLive(r2, q2, s)
  BY DEF AddresseesLive, PopsDescription, Shortened
<1>25. PartnersLive(r2, z, w2, t)
  BY <1>1, <1>5, <1>7 DEF PartnersLive
<1>26. Mutual(r2, q2, z, w2, s, t)
  BY <1>1, <1>5, <1>6, <1>7 DEF Mutual, PopsDescription
<1>27. Counted(r2, q2, z, w2, s, t)
  <2>1. ASSUME NEW k \in DOMAIN r, k # i
        PROVE  /\ Acked(q2, s, k) <=> Acked(q, s, k)
               /\ Removals(q2, s, k) = Removals(q, s, k) /\ r2[k] = r[k]
               /\ Owing(z, w2, t, k) = Owing(z, w, t, k)
               /\ Holdings(r2, q2, s, k) = Holdings(r, q, s, k)
    BY <2>1, <1>6, <1>8 DEF PopsDescription
  <2>2. Removals(q2, s, i) + Cardinality(Owing(z, w2, t, i))
            = r2[i].fsm.skip + Holdings(r2, q2, s, i)
    <3>1. Removals(q, s, i) + Cardinality(Owing(z, w, t, i)) = r[i].fsm.skip + Holdings(r, q, s, i)
      BY <1>5 DEF Counted
    <3>2. Removals(q2, s, i) = Removals(q, s, i) /\ Removals(q, s, i) \in Nat
             /\ r[i].fsm.skip \in Nat
      BY RemovalsCount DEF PopsDescription, Typed
    <3>3. CASE Holds(r, q, s, i, j)
      <4>1. Cardinality(Owing(z, w2, t, i)) = Cardinality(Owing(z, w, t, i))
        BY <3>3, <1>8, <1>12
      <4>2. HasMapping(q, s, i, j)
        BY <3>3, <1>1, <1>5 DEF Holds
      <4>3. \A l : HasMapping(q, s, i, l) => l = j
        BY <4>2 DEF HasMapping, Maps, Once, Replies
      <4>4. Holdings(r2, q2, s, i) = 1 /\ Holdings(r, q, s, i) = 1
        BY <4>2, <4>3, <1>1, <1>5 DEF Holdings, PopsDescription
      <4> QED BY <4>1, <4>4, <3>1, <3>2
    <3>4. CASE ~Holds(r, q, s, i, j)
      <4>1. Cardinality(Owing(z, w2, t, i)) = Cardinality(Owing(z, w, t, i)) + 1
        BY <3>4, <1>8, <1>12, <1>13, FS_AddElement
      <4>2. ~HasMapping(q, s, i, j)
        BY <3>4, <1>1 DEF Holds
      <4>3. Holdings(r2, q2, s, i) = Holdings(r, q, s, i) + 1 /\ Holdings(r, q, s, i) \in Nat
        BY <4>2, <1>1, <1>5 DEF Holdings, PopsDescription
      <4> QED BY <4>1, <4>3, <3>1, <3>2, <1>13
    <3> QED BY <3>3, <3>4
  <2>3. ~Acked(q2, s, i)
    BY <1>5 DEF PopsDescription
  <2> QED BY <2>1, <2>2, <2>3, <1>9, <1>10 DEF Counted, Shortened
<1>28. CrossedOnce(r2, q2, z, w2, s, t)
  BY <1>5, <1>9 DEF CrossedOnce, PopsDescription
<1>29. CrossedKnown(r2, q2, z, w2, s, t)
  BY <1>5, <1>9 DEF CrossedKnown, PopsDescription, PushesMapping
<1>30. OneCandidate(r2)
  BY <1>4, <1>5 DEF OneCandidate, Unconfirmed, Retired
<1>31. NoticedUnacked(q2, s)
  BY <1>10, ShortenedKeeps
<1>32. CandidatesTold(r2, z, w2, t)
  BY <1>5 DEF CandidatesTold, PushesMapping
<1>33. PartnersMeet(r2, q2, z, w2, s, t)
  BY <1>1, <1>5, <1>6 DEF PartnersMeet, OneVisible, PopsDescription, PushesMapping
<1>34. LatestFollows(r2, q2, z, s)
  <2>1. LatestFollows(r, q2, z, s)
    BY <1>10, ShortenedKeeps
  <2> QED BY <2>1, <1>10, <1>11 DEF LatestFollows, Shortened
<1>35. MappingsFollow(r2, q2, z, s)
  <2>1. MappingsFollow(r, q2, z, s)
    BY <1>10, ShortenedKeeps
  <2> QED BY <2>1, <1>10, <1>11 DEF MappingsFollow, Shortened
<1>36. NewerDescribed(r2, q2, z, s)
  <2>1. ASSUME NEW l \in DOMAIN z, l # j, ~z[l].hidden, r[i].identifier = z[l].identifier
        PROVE  HasDescription(q2, s, l)
    BY <2>1, <1>1 DEF LatestFollows, Marks, HasDescription, PopsDescription, Shortened
  <2>2. \A k \in DOMAIN r : k # i /\ is_mapped(r[k].fsm) => r[k].identifier # z[j].identifier
    BY <1>1 DEF OneVisible, Fit, is_mapped, destroyed
  <2> QED BY <2>1, <2>2, <1>5 DEF NewerDescribed, PopsDescription
<1>37. NewerFirst(r2, q2, s)
  <2>1. ASSUME NEW k \in DOMAIN r, NEW m \in Places(q2), r2[k].fsm.state = "MAPPED_UNCONFIRMED",
               q2[m].type = "Mapping", q2[m].to = s, q2[m].id = k, q2[m].own # r2[k].fsm.mapped
        PROVE  \E p \in Places(q2) : p < m /\ Describes(q2, s, p, q2[m].own)
    <3>1. m \in Places(q) /\ q[m] = q2[m] /\ h < m
      BY <1>10 DEF Shortened
    <3>2. Holds(r, q, s, k, q[m].own) /\ ~Retired(r[k]) /\ q[m].own \in Nat
      BY <2>1, <3>1 DEF Holds, HasMapping, Maps, Retired, Unconfirmed, RepliesPending
    <3>3. q[m].own \in DOMAIN z /\ z[q[m].own].identifier = r[k].identifier
      BY <3>2 DEF PartnersLive
    <3>4. CASE k = i
      <4>1. q[m].own # j /\ Marks(r, q, s, h, z[q[m].own].identifier, q[m].own)
        BY <2>1, <3>1, <3>3, <3>4 DEF Marks, PopsDescription
      <4>2. PICK p \in Places(q) : h < p /\ p < m /\ Describes(q, s, p, q[m].own)
        BY <2>1, <3>1, <3>3, <4>1, <1>10 DEF MappingsFollow, Shortened
      <4> QED BY <3>1, <4>2, <1>10 DEF Shortened
    <3>5. CASE k # i
      <4>1. r2[k] = r[k] /\ ~r[k].hidden
        BY <2>1, <3>5 DEF Fit, destroyed
      <4>2. q[m].own # j
        BY <3>3, <3>5, <4>1, <1>1 DEF OneVisible
      <4>3. PICK p \in Places(q) : p < m /\ Describes(q, s, p, q[m].own)
        BY <2>1, <3>1, <4>1 DEF NewerFirst
      <4> QED BY <3>1, <4>2, <4>3 DEF PopsDescription, Shortened
    <3> QED BY <3>4, <3>5
  <2> QED BY <2>1 DEF NewerFirst
<1>38. RepliesInOrder(r2, q2, w2, s, t)
  BY <1>5 DEF RepliesInOrder, PopsDescription, Shortened, PushesMapping
<1>39. RemovalsInOrder(r2, q2, z, w2, s, t)
  <2>1. ASSUME NEW a \in DOMAIN r, NEW k \in DOMAIN r, NEW l \in DOMAIN z,
               NEW p \in Places(q2), NEW m \in Places(q2),
               a # k, Holds(z, w2, t, l, a), Unconfirmed(r2[k]),
               \/ Acked(q2, s, k) /\ Acker(r2, q2, s, k, l)
               \/ Holds(r2, q2, s, k, l) /\ z[l].fsm.mapped = k /\ HasMapping(w2, t, l, a),
               Removes(q2, s, p, a), Replies(q2, s, m, k)
        PROVE  m < p
    <3>1. /\ p \in Places(q) /\ m \in Places(q) /\ m \in Nat /\ p \in Nat
          /\ Removes(q, s, p, a) /\ Replies(q, s, m, k) /\ Unconfirmed(r[k])
      BY <2>1, <1>5, <1>10 DEF Shortened
    <3>2. CASE l = j /\ a = i
      <4>1. Holds(r, q, s, k, j)
        <5>1. CASE Acked(q2, s, k) /\ Acker(r2, q2, s, k, l)
          BY <5>1, <3>2, <2>1, <1>1, <1>6 DEF Acker, Holds
        <5>2. CASE Holds(r2, q2, s, k, l)
          BY <5>2, <3>2, <2>1, <1>6
        <5> QED BY <5>1, <5>2, <2>1
      <4>2. r[k].identifier = r[i].identifier
        BY <4>1, <3>1, <1>1 DEF PartnersLive, Unconfirmed, Retired, Typed
      <4>3. ~HasDescription(w, t, i)
        BY <3>1, <3>2 DEF Unknown, HasDescription, Speaks
      <4>4. PICK c \in Places(q) : m < c /\ Replies(q, s, c, i)
        BY <2>1, <3>1, <3>2, <4>2, <4>3 DEF RepliesInOrder
      <4>5. c < p /\ c \in Nat
        BY <3>1, <3>2, <4>4 DEF RepliesFirst, Queue
      <4> QED BY <3>1, <4>4, <4>5
    <3>3. CASE ~(l = j /\ a = i)
      <4>1. Holds(z, w, t, l, a) /\ (HasMapping(w2, t, l, a) => HasMapping(w, t, l, a))
        BY <2>1, <3>3, <1>7 DEF PushesMapping
      <4>2. CASE Acked(q2, s, k) /\ Acker(r2, q2, s, k, l)
        BY <4>2, <4>1, <2>1, <3>1, <1>5, <1>6 DEF RemovalsInOrder, PopsDescription
      <4>3. CASE Holds(r2, q2, s, k, l) /\ z[l].fsm.mapped = k /\ HasMapping(w2, t, l, a)
        <5>1. Holds(r, q, s, k, l)
          BY <4>3, <4>1, <1>2, <1>6
        <5> QED BY <5>1, <4>3, <4>1, <2>1, <3>1 DEF RemovalsInOrder
      <4> QED BY <4>2, <4>3, <2>1
    <3> QED BY <3>2, <3>3
  <2> QED BY <2>1 DEF RemovalsInOrder
<1>40. Typed(z)
  OBVIOUS
<1>41. Queue(w2)
  BY <1>10 DEF Extended
<1>42. Fit(z)
  OBVIOUS
<1>43. OneVisible(z)
  OBVIOUS
<1>44. DescriptionsPending(z, w2, q2, t, s)
  BY <1>3 DEF DescriptionsPending, PopsDescription, Shortened, PushesMapping
<1>45. RepliesPending(z, w2, t)
  BY <1>1 DEF RepliesPending, PushesMapping, Extended, Typed
<1>46. ReplyComing(z, w2, q2, t, s)
  BY DEF ReplyComing, PopsDescription, PushesMapping
<1>47. Once(z, w2, q2, t, s)
  BY <1>1 DEF Once, HasReply, PopsDescription, Shortened, PushesMapping, Extended
<1>48. Unknown(z, w2, r2, q2, t, s)
  BY <1>3, <1>5 DEF Unknown, HasDescription, PopsDescription, Shortened, PushesMapping, Extended
<1>49. RepliesFirst(z, w2, t)
  BY <1>2 DEF RepliesFirst, PushesMapping, Extended
<1>50. AddresseesLive(z, w2, t)
  BY <1>1 DEF AddresseesLive, PushesMapping, Extended
<1>51. PartnersLive(z, r2, q2, s)
  BY <1>1, <1>5, <1>6 DEF PartnersLive
<1>52. Mutual(z, w2, r2, q2, t, s)
  BY <1>1, <1>2, <1>5, <1>6, <1>7 DEF Mutual, PushesMapping
<1>53. Counted(z, w2, r2, q2, t, s)
  <2>1. ASSUME NEW k \in DOMAIN z, k # j
        PROVE  /\ Acked(w2, t, k) <=> Acked(w, t, k)
               /\ Removals(w2, t, k) = Removals(w, t, k)
               /\ Owing(r2, q2, s, k) = Owing(r, q, s, k)
               /\ Holdings(z, w2, t, k) = Holdings(z, w, t, k)
               /\ \A p \in Places(w2) : Acks(w2, t, p, k) \/ Speaks(w2, t, p, k) => p \in Places(w)
    <3>1. (Acked(w2, t, k) <=> Acked(w, t, k)) /\ Removals(w2, t, k) = Removals(w, t, k)
      BY DEF PushesMapping
    <3>2. Owing(r2, q2, s, k) = Owing(r, q, s, k)
      BY <2>1, <1>8
    <3>3. Holdings(z, w2, t, k) = Holdings(z, w, t, k)
      BY <2>1, <1>7
    <3>4. ~Acks(w2, t, n, k) /\ ~Speaks(w2, t, n, k)
      BY <2>1 DEF PushesMapping
    <3>5. \A p \in Places(w2) : p \in Places(w) \/ p = n
      BY <1>10 DEF Extended
    <3> QED BY <3>1, <3>2, <3>3, <3>4, <3>5
  <2>2. Removals(w2, t, j) + Cardinality(Owing(r2, q2, s, j))
            = z[j].fsm.skip + Holdings(z, w2, t, j)
    <3>1. Removals(w, t, j) + Cardinality(Owing(r, q, s, j)) = z[j].fsm.skip + Holdings(z, w, t, j)
      BY <1>1, <1>2 DEF Counted
    <3>2. Removals(w2, t, j) = Removals(w, t, j) /\ Removals(w, t, j) \in Nat
             /\ z[j].fsm.skip \in Nat
      BY <1>1, RemovalsCount DEF PushesMapping, Typed
    <3>3. CASE Holds(r, q, s, i, j)
      <4>1. Cardinality(Owing(r2, q2, s, j)) = Cardinality(Owing(r, q, s, j))
        BY <3>3, <1>8, <1>12
      <4>2. z[j].fsm.mapped = i /\ i # NoId
        BY <3>3, <1>2, <1>12 DEF Holds
      <4>3. Holdings(z, w2, t, j) = 1 /\ Holdings(z, w, t, j) = 1
        BY <4>2, <1>2 DEF Holdings, PushesMapping
      <4> QED BY <4>1, <4>3, <3>1, <3>2
    <3>4. CASE ~Holds(r, q, s, i, j)
      <4>1. Cardinality(Owing(r2, q2, s, j)) = Cardinality(Owing(r, q, s, j)) + 1
        BY <3>4, <1>8, <1>12, <1>13, FS_AddElement
      <4>2. z[j].fsm.mapped # i /\ i # NoId /\ i \in Nat
        BY <3>4, <1>1, <1>12 DEF Holds, Typed
      <4>3. Holdings(z, w2, t, j) = Holdings(z, w, t, j) + 1 /\ Holdings(z, w, t, j) \in Nat
        BY <4>2, <1>2 DEF Holdings, PushesMapping
      <4> QED BY <4>1, <4>3, <3>1, <3>2, <1>13
    <3> QED BY <3>3, <3>4
  <2>3. ~Acked(w2, t, j)
    BY <1>2 DEF PushesMapping
  <2> QED BY <2>1, <2>2, <2>3, <1>9, <1>10 DEF Counted, Extended
<1>54. CrossedOnce(z, w2, r2, q2, t, s)
  BY <1>2, <1>9 DEF CrossedOnce, PushesMapping
<1>55. CrossedKnown(z, w2, r2, q2, t, s)
  BY <1>2, <1>5, <1>9 DEF CrossedKnown, PopsDescription, PushesMapping
<1>56. OneCandidate(z)
  OBVIOUS
<1>57. NoticedUnacked(w2, t)
  BY <1>10, ExtendedKeeps
<1>58. CandidatesTold(z, r2, q2, s)
  BY <1>5 DEF CandidatesTold, PopsDescription
<1>59. PartnersMeet(z, w2, r2, q2, t, s)
  BY <1>1, <1>5, <1>7 DEF PartnersMeet, OneVisible, PopsDescription, PushesMapping
<1>60. LatestFollows(z, w2, r2, t)
  BY <1>1, <1>5 DEF LatestFollows, OneVisible, Marks, PushesMapping, Extended
<1>61. MappingsFollow(z, w2, r2, t)
  <2>1. ASSUME NEW k \in DOMAIN r, NEW p \in Places(w2), NEW m \in Places(w2), p < m,
               Marks(z, w2, t, p, r[k].identifier, k), w2[m].type = "Mapping", w2[m].to = t,
               w2[m].own = k
        PROVE  \E c \in Places(w2) : p < c /\ c < m /\ Describes(w2, t, c, k)
    <3>1. p \in Places(w) /\ Marks(z, w, t, p, r[k].identifier, k)
      <4>1. p \in Nat /\ m \in Nat /\ n \in Nat /\ m <= n
        BY <2>1, <1>10 DEF Extended
      <4>2. p \in Places(w)
        BY <2>1, <4>1, <1>10 DEF Extended
      <4> QED BY <2>1, <4>2, <1>10 DEF Extended
    <3>2. CASE m = n
      <4>1. PICK c \in Places(w) : p < c /\ Describes(w, t, c, k)
        BY <2>1, <3>1, <3>2 DEF LatestFollows, PushesMapping
      <4> QED BY <4>1, <3>2, <1>10 DEF Extended
    <3>3. CASE m # n
      <4>1. m \in Places(w) /\ w[m] = w2[m]
        BY <2>1, <3>3, <1>10 DEF Extended
      <4>2. PICK c \in Places(w) : p < c /\ c < m /\ Describes(w, t, c, k)
        BY <2>1, <3>1, <4>1 DEF MappingsFollow
      <4> QED BY <4>2, <1>10 DEF Extended
    <3> QED BY <3>2, <3>3
  <2> QED BY <2>1, <1>5 DEF MappingsFollow
<1>62. NewerDescribed(z, w2, r2, t)
  BY <1>5 DEF NewerDescribed, PushesMapping
<1>63. NewerFirst(z, w2, t)
  BY <1>1 DEF NewerFirst, NewerDescribed, is_mapped, HasDescription, PushesMapping, Extended
<1>64. RepliesInOrder(z, w2, q2, t, s)
  BY <1>1, <1>3 DEF RepliesInOrder, LatestFollows, Marks, HasDescription, PopsDescription,
     Shortened, PushesMapping, Extended
<1>65. RemovalsInOrder(z, w2, r2, q2, t, s)
  <2>1. ASSUME NEW a \in DOMAIN z, NEW k \in DOMAIN z, NEW l \in DOMAIN r,
               NEW p \in Places(w2), NEW m \in Places(w2),
               a # k, Holds(r2, q2, s, l, a), Unconfirmed(z[k]),
               \/ Acked(w2, t, k) /\ Acker(z, w2, t, k, l)
               \/ Holds(z, w2, t, k, l) /\ r2[l].fsm.mapped = k /\ HasMapping(q2, s, l, a),
               Removes(w2, t, p, a), Replies(w2, t, m, k)
        PROVE  m < p
    <3>1. p \in Places(w) /\ Removes(w, t, p, a) /\ a # j
      BY <2>1, <1>2 DEF PushesMapping, Extended
    <3>2. Holds(r, q, s, l, a)
      BY <2>1, <3>1, <1>6
    <3>3. ASSUME HasMapping(q2, s, i, a)
          PROVE  FALSE
      <4>1. PICK m2 \in Places(q2) : Maps(q2, s, m2, i, a)
        BY <3>3 DEF HasMapping
      <4>2. /\ m2 \in Places(q) /\ h < m2 /\ q[m2].type = "Mapping" /\ q[m2].to = s /\ q[m2].own = a
            /\ HasMapping(q, s, i, a)
        BY <4>1, <1>10 DEF Maps, Shortened, HasMapping
      <4>3. z[a].identifier = r[i].identifier
        BY <4>2, <1>5 DEF PartnersLive, Holds, Typed
      <4>4. Marks(r, q, s, h, z[a].identifier, a)
        BY <4>3, <3>1 DEF Marks, PopsDescription
      <4>5. PICK c \in Places(q) : Describes(q, s, c, a)
        BY <4>2, <4>4, <1>10 DEF MappingsFollow, Shortened
      <4> QED BY <4>5, <3>1 DEF Unknown, Speaks
    <3>4. HasMapping(q2, s, l, a) => Unconfirmed(r[l])
      BY <1>10 DEF RepliesPending, HasMapping, Maps, Shortened
    <3>5. k # j
      BY <2>1, <3>3, <3>4, <1>2, <1>4, <1>5 DEF PushesMapping, Retired, Unconfirmed
    <3>6. m \in Places(w) /\ Replies(w, t, m, k)
      BY <2>1, <3>5 DEF PushesMapping, Extended
    <3> QED BY <2>1, <3>1, <3>2, <3>3, <3>5, <3>6, <1>5, <1>7 DEF RemovalsInOrder,
               PushesMapping, PopsDescription
  <2> QED BY <2>1 DEF RemovalsInOrder
<1> QED BY <1>14, <1>15, <1>16, <1>17, <1>18, <1>19, <1>20, <1>21, <1>22, <1>23, <1>24, <1>25,
           <1>26, <1>27, <1>28, <1>29, <1>30, <1>31, <1>32, <1>33, <1>34, <1>35, <1>36, <1>37,
           <1>38, <1>39, <1>40, <1>41, <1>42, <1>43, <1>44, <1>45, <1>46, <1>47, <1>48, <1>49,
           <1>50, <1>51, <1>52, <1>53, <1>54, <1>55, <1>56, <1>57, <1>58, <1>59, <1>60, <1>61,
           <1>62, <1>63, <1>64, <1>65

\* An element whose remote one has been replaced acknowledges the removal that is to come.
LEMMA ReleaseKeeps ==
    ASSUME NEW r, NEW q, NEW z, NEW w, NEW s, NEW t, Pair(r, q, z, w, s, t),
           NEW r2, NEW w2, NEW h, NEW n, NEW i, NEW j,
           PushesRemovedAck(w, w2, n, t, j),
           i \in DOMAIN r,
           ~Retired(r[i]),
           j = r[i].fsm.mapped,
           j # NoId,
           h \in Places(q),
           \A p \in Places(q) : h <= p,
           Marks(r, q, s, h, r[i].identifier, j),
           DOMAIN r2 = DOMAIN r,
           \A k \in DOMAIN r \ {i} : r2[k] = r[k],
           r2[i].identifier = r[i].identifier,
           r2[i].hidden <=> r[i].hidden,
           r2[i].fsm.skip = r[i].fsm.skip + 1,
           r2[i].fsm.mapped = NoId,
           \/ r[i].fsm.state = "MAPPED_UNCONFIRMED" /\ r2[i].fsm.state = "UNUSED_UNCONFIRMED"
           \/ r[i].fsm.state = "MAPPED_CONFIRMED" /\ r2[i].fsm.state = "UNUSED_CONFIRMED"
           \/ r[i].fsm.state = "AWAIT_CONFIRMATION" /\ r2[i].fsm.state = "AWAIT_CONFIRMATION"
    PROVE  Pair(r2, q, z, w2, s, t)
<1> USE DEF Pair, End, Replied, Linked, Ordered, NoId
<1>1. /\ j \in DOMAIN z /\ j \in Nat /\ z[j].identifier = r[i].identifier /\ i # NoId /\ i \in Nat
      /\ Holds(r, q, s, i, j) /\ ~HasDescription(q, s, j)
  BY MappedExists DEF Typed
<1>2. \A k : ~HasMapping(q, s, k, j)
  <2>1. SUFFICES ASSUME NEW k, NEW p \in Places(q), Maps(q, s, p, k, j)
                 PROVE  FALSE
    BY DEF HasMapping
  <2>2. h < p
    <3>1. h # p
      BY <2>1 DEF Marks, Maps
    <3> QED BY <3>1 DEF Queue
  <2>3. \E c \in Places(q) : Describes(q, s, c, j)
    BY <2>1, <2>2, <1>1 DEF MappingsFollow, Maps
  <2> QED BY <2>3, <1>1 DEF HasDescription
<1>3. z[j].hidden
  BY <1>1 DEF LatestFollows, HasDescription
<1>4. Holds(z, w, t, j, i)
  <2>1. ~(Acked(q, s, i) /\ Acker(r, q, s, i, j))
    <3>1. SUFFICES ASSUME Acked(q, s, i), ~HasReply(q, s, i)
                   PROVE  FALSE
      BY <1>2 DEF Acker
    <3>2. r[i].fsm.state \in {"AWAIT_CONFIRMATION", "AWAIT_ACK"}
      BY <3>1 DEF Counted
    <3>3. HasDescription(w, t, i)
      BY <3>1, <3>2 DEF ReplyComing, Unconfirmed, Retired
    <3> QED BY <3>1, <3>3 DEF Unknown, HasDescription, Acked, Speaks
  <2> QED BY <2>1, <1>1 DEF Mutual
<1>5. z[j].fsm.state \in {"AWAIT_CONFIRMATION", "AWAIT_ACK"}
         /\ ~(Retired(z[j]) /\ z[j].fsm.mapped = NoId)
  <2>1. HasMapping(w, t, j, i) => Unconfirmed(z[j])
    BY <1>1 DEF HasMapping, Maps, RepliesPending
  <2> QED BY <2>1, <1>1, <1>3, <1>4 DEF Holds, Fit, destroyed, Unconfirmed, Retired
<1>6. /\ Owing(r, q, s, j) = {i}
      /\ ~Acked(w, t, j)
  <2>1. \A k \in Owing(r, q, s, j) : k = i
    BY <1>2, MappedOnce DEF Owing, Holds
  <2>2. i \in Owing(r, q, s, j)
    BY <1>1 DEF Owing
  <2> QED BY <2>1, <2>2, <1>1 DEF Counted
<1>7. HasMapping(w, t, j, i) \/ (~HasReply(w, t, j) /\ z[j].fsm.mapped = i)
  <2>1. SUFFICES ASSUME ~HasMapping(w, t, j, i), HasReply(w, t, j)
                 PROVE  FALSE
    BY <1>4 DEF Holds
  <2>2. PICK p \in Places(w) : Replies(w, t, p, j)
    BY <2>1 DEF HasReply
  <2>3. Unconfirmed(z[j])
    BY <2>2 DEF RepliesPending, Replies
  <2>4. ~Unconfirmed(r[i])
    BY <2>1, <2>3, <1>1 DEF CandidatesTold
  <2>5. ~r[i].hidden
    BY <2>4 DEF Fit, destroyed, Unconfirmed
  <2>6. Marks(z, w, t, p, r[i].identifier, i)
    BY <2>1, <2>2, <1>1 DEF Marks, Replies, HasMapping, Maps
  <2>7. HasDescription(w, t, i)
    BY <2>5, <2>6 DEF LatestFollows, HasDescription
  <2> QED BY <2>4, <2>7 DEF HasDescription, Describes, DescriptionsPending
<1>8. \A k : Acker(z, w2, t, j, k) <=> k = i
  <2>1. \A k : HasMapping(w, t, j, k) /\ HasMapping(w, t, j, i) => k = i
    BY <1>1 DEF Once, HasMapping, Maps, Replies
  <2>2. \A k : HasMapping(w, t, j, k) => HasReply(w, t, j)
    BY DEF HasMapping, HasReply, Maps, Replies
  <2> QED BY <2>1, <2>2, <1>7 DEF Acker, PushesRemovedAck
<1>9. /\ \A k \in DOMAIN r : k # i => r2[k] = r[k]
      /\ \A k \in DOMAIN r : r2[k].identifier = r[k].identifier /\ (r2[k].hidden <=> r[k].hidden)
      /\ \A k \in DOMAIN r : Unconfirmed(r2[k]) <=> Unconfirmed(r[k])
      /\ \A k \in DOMAIN r : Retired(r2[k]) <=> Retired(r[k])
  BY DEF Retired, Unconfirmed
<1>10. /\ \A k, l : Holds(r2, q, s, k, l) <=> Holds(r, q, s, k, l) /\ ~(k = i /\ l = j)
       /\ \A k \in DOMAIN r : \A l : k # i => (Acker(r2, q, s, k, l) <=> Acker(r, q, s, k, l))
       /\ \A l : l # NoId => (Acker(r2, q, s, i, l) <=> Acker(r, q, s, i, l) /\ l # j)
       /\ \A k \in DOMAIN r : k # i => Holdings(r2, q, s, k) = Holdings(r, q, s, k)
       /\ Holdings(r, q, s, i) = Holdings(r2, q, s, i) + 1 /\ Holdings(r2, q, s, i) \in Nat
  BY <1>1, <1>2, <1>9 DEF Holds, Acker, Holdings
<1>11. /\ \A k, l : Holds(z, w2, t, k, l) <=> Holds(z, w, t, k, l)
       /\ \A k, l : Acker(z, w2, t, k, l) <=> Acker(z, w, t, k, l)
       /\ \A k : Holdings(z, w2, t, k) = Holdings(z, w, t, k)
       /\ \A k : Owing(z, w2, t, k) = Owing(z, w, t, k)
  BY DEF Holds, Acker, Holdings, Owing, PushesRemovedAck
<1>12. /\ \A k : k # j => Owing(r2, q, s, k) = Owing(r, q, s, k)
       /\ Owing(r2, q, s, j) = {}
  BY <1>6, <1>9, <1>10 DEF Owing
<1>13. /\ \A k \in DOMAIN r : AckedLate(r2, q, z, w2, s, t, k) <=> AckedLate(r, q, z, w, s, t, k)
       /\ \A k \in DOMAIN r : AckedEarly(r2, q, s, k) <=> AckedEarly(r, q, s, k)
       /\ \A k \in DOMAIN z : AckedLate(z, w2, r2, q, t, s, k) <=> AckedLate(z, w, r, q, t, s, k)
       /\ \A k \in DOMAIN z : AckedEarly(z, w2, t, k) <=> AckedEarly(z, w, t, k)
  <2>1. \A k \in DOMAIN r : Removals(q, s, k) \in Nat /\ r[k].fsm.skip \in Nat
    BY RemovalsCount DEF Typed
  <2>2. \A k \in DOMAIN r : AckedEarly(r2, q, s, k) <=> AckedEarly(r, q, s, k)
    BY <2>1, <1>9, <1>10 DEF AckedEarly
  <2>3. \A k \in DOMAIN r : AckedLate(r2, q, z, w2, s, t, k) <=> AckedLate(r, q, z, w, s, t, k)
    BY <1>5, <1>9, <1>10 DEF AckedLate, Crossed, PushesRemovedAck
  <2>4. \A k \in DOMAIN z : AckedLate(z, w2, r2, q, t, s, k) <=> AckedLate(z, w, r, q, t, s, k)
    BY <1>9, <1>11 DEF AckedLate, Crossed, PushesRemovedAck
  <2>5. \A k \in DOMAIN z : AckedEarly(z, w2, t, k) <=> AckedEarly(z, w, t, k)
    BY <1>11 DEF AckedEarly, PushesRemovedAck
  <2> QED BY <2>2, <2>3, <2>4, <2>5
<1>14. Extended(w, w2, n, t) /\ w2[n].type = "RemovedAck"
  BY DEF PushesRemovedAck
<1>15. \A p \in Places(q) : \A x, l : Marks(r2, q, s, p, x, l) <=> Marks(r, q, s, p, x, l)
  BY <1>9 DEF Marks, AddresseesLive
<1>16. AckedEarly(z, w, t, j) /\ ~AckedLate(z, w, r, q, t, s, j)
  <2>1. Removals(w, t, j) + Cardinality({i}) = z[j].fsm.skip + Holdings(z, w, t, j)
    BY <1>1, <1>6 DEF Counted
  <2>2. Cardinality({i}) = 1
    BY FS_Singleton
  <2>3. Removals(w, t, j) \in Nat
    BY RemovalsCount
  <2> QED BY <2>1, <2>2, <2>3 DEF AckedEarly, AckedLate
<1>17. Typed(r2)
  BY DEF Typed, States
<1>18. Queue(q)
  OBVIOUS
<1>19. Fit(r2)
  BY DEF Fit, is_mapped, destroyed
<1>20. OneVisible(r2)
  BY <1>9 DEF OneVisible
<1>21. DescriptionsPending(r2, q, w2, s, t)
  BY <1>9 DEF DescriptionsPending, PushesRemovedAck, Extended
<1>22. RepliesPending(r2, q, s)
  BY <1>9 DEF RepliesPending
<1>23. ReplyComing(r2, q, w2, s, t)
  BY <1>9 DEF ReplyComing, PushesRemovedAck
<1>24. Once(r2, q, w2, s, t)
  <2>1. Once(r, q, w2, s, t)
    BY <1>14, ExtendedKeeps
  <2> QED BY <2>1 DEF Once
<1>25. Unknown(r2, q, z, w2, s, t)
  <2>1. Unknown(r, q, z, w2, s, t)
    BY <1>14, ExtendedKeeps
  <2> QED BY <2>1 DEF Unknown
<1>26. RepliesFirst(r2, q, s)
  BY DEF RepliesFirst
<1>27. AddresseesLive(r2, q, s)
  BY DEF AddresseesLive
<1>28. PartnersLive(r2, z, w2, t)
  BY <1>9, <1>11 DEF PartnersLive
<1>29. Mutual(r2, q, z, w2, s, t)
  BY <1>9, <1>10, <1>11 DEF Mutual, Holds
<1>30. Counted(r2, q, z, w2, s, t)
  <2>1. ASSUME NEW k \in DOMAIN r, ~Acked(q, s, k)
        PROVE  Removals(q, s, k) + Cardinality(Owing(z, w2, t, k))
                 = r2[k].fsm.skip + Holdings(r2, q, s, k)
    <3>1. Removals(q, s, k) + Cardinality(Owing(z, w2, t, k)) = r[k].fsm.skip + Holdings(r, q, s, k)
      BY <2>1, <1>11 DEF Counted
    <3> QED BY <3>1, <1>9, <1>10 DEF Typed
  <2>2. \A k \in DOMAIN r : r[k].fsm.state \in {"AWAIT_CONFIRMATION", "AWAIT_ACK"}
                           => r2[k].fsm.state \in {"AWAIT_CONFIRMATION", "AWAIT_ACK"}
    BY <1>9
  <2> QED BY <2>1, <2>2, <1>11, <1>13 DEF Counted
<1>31. CrossedOnce(r2, q, z, w2, s, t)
  BY <1>9, <1>13 DEF CrossedOnce, AckedLate
<1>32. CrossedKnown(r2, q, z, w2, s, t)
  BY <1>9, <1>13 DEF CrossedKnown, AckedLate, PushesRemovedAck
<1>33. OneCandidate(r2)
  BY <1>9 DEF OneCandidate
<1>34. NoticedUnacked(q, s)
  OBVIOUS
<1>35. CandidatesTold(r2, z, w2, t)
  BY <1>9 DEF CandidatesTold, Typed, PushesRemovedAck
<1>36. PartnersMeet(r2, q, z, w2, s, t)
  BY <1>3, <1>9, <1>10 DEF PartnersMeet, PushesRemovedAck
<1>37. LatestFollows(r2, q, z, s)
  BY <1>15 DEF LatestFollows
<1>38. MappingsFollow(r2, q, z, s)
  BY <1>15 DEF MappingsFollow
<1>39. NewerDescribed(r2, q, z, s)
  BY <1>9 DEF NewerDescribed, is_mapped
<1>40. NewerFirst(r2, q, s)
  BY <1>9 DEF NewerFirst
<1>41. RepliesInOrder(r2, q, w2, s, t)
  BY <1>9 DEF RepliesInOrder, PushesRemovedAck
<1>42. RemovalsInOrder(r2, q, z, w2, s, t)
  <2>1. \A k, l : HasMapping(w2, t, k, l) <=> HasMapping(w, t, k, l)
    BY DEF PushesRemovedAck
  <2>2. \A k \in DOMAIN r, l \in DOMAIN z : Acker(r2, q, s, k, l) => Acker(r, q, s, k, l)
    BY <1>10 DEF Typed
  <2> QED BY <2>1, <2>2, <1>9, <1>10, <1>11 DEF RemovalsInOrder
<1>43. Typed(z)
  OBVIOUS
<1>44. Queue(w2)
  BY <1>14 DEF Extended
<1>45. Fit(z)
  OBVIOUS
<1>46. OneVisible(z)
  OBVIOUS
<1>47. DescriptionsPending(z, w2, q, t, s)
  BY DEF DescriptionsPending, PushesRemovedAck
<1>48. RepliesPending(z, w2, t)
  BY <1>14, ExtendedKeeps
<1>49. ReplyComing(z, w2, q, t, s)
  BY DEF ReplyComing, PushesRemovedAck
<1>50. Once(z, w2, q, t, s)
  BY <1>14, ExtendedKeeps
<1>51. Unknown(z, w2, r2, q, t, s)
  <2>1. \A k, p : p \in Places(w2) /\ Speaks(w2, t, p, k)
            => k = j \/ (p \in Places(w) /\ Speaks(w, t, p, k))
    BY <1>14 DEF PushesRemovedAck, Extended
  <2>2. \A p \in Places(q) : ~Describes(q, s, p, j)
    BY <1>1 DEF HasDescription
  <2>3. \A k \in DOMAIN r : r2[k].fsm.mapped # NoId => r2[k] = r[k]
    BY <1>1
  <2>4. NoId \notin DOMAIN z
    BY DEF Typed
  <2> QED BY <2>1, <2>2, <2>3, <2>4 DEF Unknown
<1>52. RepliesFirst(z, w2, t)
  BY <1>14, ExtendedKeeps
<1>53. AddresseesLive(z, w2, t)
  BY <1>1 DEF AddresseesLive, PushesRemovedAck, Extended
<1>54. PartnersLive(z, r2, q, s)
  BY <1>9, <1>10 DEF PartnersLive
<1>55. Mutual(z, w2, r2, q, t, s)
  BY <1>1, <1>6, <1>8, <1>9, <1>10, <1>11 DEF Mutual, PushesRemovedAck
<1>56. Counted(z, w2, r2, q, t, s)
  <2>1. ASSUME NEW k \in DOMAIN z, k # j
        PROVE  /\ Acked(w2, t, k) <=> Acked(w, t, k)
               /\ Removals(w2, t, k) = Removals(w, t, k)
               /\ Owing(r2, q, s, k) = Owing(r, q, s, k)
               /\ Holdings(z, w2, t, k) = Holdings(z, w, t, k)
               /\ \A p \in Places(w2) : Acks(w2, t, p, k) \/ Speaks(w2, t, p, k) => p \in Places(w)
    BY <2>1, <1>11, <1>12 DEF PushesRemovedAck, Extended
  <2>2. \A p, k \in Places(w2) : Acks(w2, t, p, j) /\ Speaks(w2, t, k, j) => k <= p
    BY <1>6 DEF Acked, PushesRemovedAck, Extended
  <2>3. Acked(w2, t, j)
    BY DEF PushesRemovedAck
  <2> QED BY <2>1, <2>2, <2>3, <1>5, <1>12, <1>13, <1>14, <1>16 DEF Counted, Extended
<1>57. CrossedOnce(z, w2, r2, q, t, s)
  BY <1>13, <1>16 DEF CrossedOnce, PushesRemovedAck
<1>58. CrossedKnown(z, w2, r2, q, t, s)
  BY <1>9, <1>13 DEF CrossedKnown, PushesRemovedAck
<1>59. OneCandidate(z)
  OBVIOUS
<1>60. NoticedUnacked(w2, t)
  <2>1. \A p \in Places(w) : ~(w[p].type = "Noticed" /\ w[p].to = t /\ w[p].id = j)
    BY <1>1, <1>7 DEF Once, HasMapping, Maps, HasReply, Replies
  <2> QED BY <2>1 DEF NoticedUnacked, PushesRemovedAck, Extended
<1>61. CandidatesTold(z, r2, q, s)
  BY <1>9 DEF CandidatesTold
<1>62. PartnersMeet(z, w2, r2, q, t, s)
  BY <1>9, <1>11 DEF PartnersMeet, PushesRemovedAck
<1>63. LatestFollows(z, w2, r2, t)
  <2>1. LatestFollows(z, w2, r, t)
    BY <1>14, ExtendedKeeps
  <2> QED BY <2>1, <1>9 DEF LatestFollows
<1>64. MappingsFollow(z, w2, r2, t)
  <2>1. MappingsFollow(z, w2, r, t)
    BY <1>14, ExtendedKeeps
  <2> QED BY <2>1, <1>9 DEF MappingsFollow
<1>65. NewerDescribed(z, w2, r2, t)
  BY <1>9 DEF NewerDescribed, PushesRemovedAck
<1>66. NewerFirst(z, w2, t)
  BY <1>14, ExtendedKeeps
<1>67. RepliesInOrder(z, w2, q, t, s)
  <2>1. \A p \in Places(w2) : \A k : Replies(w2, t, p, k) => p \in Places(w) /\ Replies(w, t, p, k)
    BY DEF PushesRemovedAck, Extended
  <2>2. \A p \in Places(w) : \A k : Replies(w, t, p, k) => p \in Places(w2) /\ Replies(w2, t, p, k)
    BY DEF PushesRemovedAck, Extended
  <2> QED BY <2>1, <2>2 DEF RepliesInOrder
<1>68. RemovalsInOrder(z, w2, r2, q, t, s)
  <2>1. ASSUME NEW a \in DOMAIN z, NEW k \in DOMAIN z, NEW l \in DOMAIN r,
               NEW p \in Places(w2), NEW m \in Places(w2),
               a # k, Holds(r2, q, s, l, a), Unconfirmed(z[k]),
               \/ Acked(w2, t, k) /\ Acker(z, w2, t, k, l)
               \/ Holds(z, w2, t, k, l) /\ r2[l].fsm.mapped = k /\ HasMapping(q, s, l, a),
               Removes(w2, t, p, a), Replies(w2, t, m, k)
        PROVE  m < p
    <3>1. /\ p \in Places(w) /\ Removes(w, t, p, a) /\ m \in Places(w) /\ Replies(w, t, m, k)
          /\ Holds(r, q, s, l, a)
      BY <2>1, <1>10 DEF PushesRemovedAck, Extended
    <3>2. CASE k = j /\ Acked(w2, t, k) /\ Acker(z, w2, t, k, l)
      <4>1. l = i /\ HasMapping(q, s, i, a)
        BY <3>2, <2>1, <1>1, <1>8 DEF Holds, Typed
      <4> QED BY <3>1, <3>2, <4>1, <2>1, <1>4 DEF RemovalsInOrder
    <3>3. CASE k # j /\ Acked(w2, t, k) /\ Acker(z, w2, t, k, l)
      BY <3>1, <3>3, <2>1, <1>11 DEF RemovalsInOrder, PushesRemovedAck
    <3>4. CASE Holds(z, w2, t, k, l) /\ r2[l].fsm.mapped = k /\ HasMapping(q, s, l, a)
      <4>1. r[l].fsm.mapped = k /\ Holds(z, w, t, k, l)
        BY <3>4, <2>1, <1>9, <1>11 DEF Typed
      <4> QED BY <3>1, <3>4, <4>1, <2>1 DEF RemovalsInOrder
    <3> QED BY <3>2, <3>3, <3>4, <2>1
  <2> QED BY <2>1 DEF RemovalsInOrder
<1> QED BY <1>17, <1>18, <1>19, <1>20, <1>21, <1>22, <1>23, <1>24, <1>25, <1>26, <1>27, <1>28,
           <1>29, <1>30, <1>31, <1>32, <1>33, <1>34, <1>35, <1>36, <1>37, <1>38, <1>39, <1>40,
           <1>41, <1>42, <1>43, <1>44, <1>45, <1>46, <1>47, <1>48, <1>49, <1>50, <1>51, <1>52,
           <1>53, <1>54, <1>55, <1>56, <1>57, <1>58, <1>59, <1>60, <1>61, <1>62, <1>63, <1>64,
           <1>65, <1>66, <1>67, <1>68

\* The removal of a mapped element that is destroyed is sent.
LEMMA RetireKeeps ==
    ASSUME NEW r, NEW q, NEW z, NEW w, NEW s, NEW t, Pair(r, q, z, w, s, t),
           NEW r2, NEW w2, NEW n, NEW i, NEW j,
           PushesRemoved(w, w2, n, t, j),
           i \in DOMAIN r,
           r[i].fsm.state = "MAPPED_CONFIRMED",
           j = r[i].fsm.mapped,
           DOMAIN r2 = DOMAIN r,
           \A k \in DOMAIN r \ {i} : r2[k] = r[k],
           r2[i].identifier = r[i].identifier,
           r2[i].hidden,
           r2[i].fsm.skip = r[i].fsm.skip,
           r2[i].fsm.mapped = j,
           r2[i].fsm.state = "AWAIT_ACK"
    PROVE  Pair(r2, q, z, w2, s, t)
<1> USE DEF Pair, End, Replied, Linked, Ordered, NoId
<1>1. j # NoId /\ ~Retired(r[i]) /\ ~Unconfirmed(r[i])
  BY DEF Fit, is_mapped, Retired, Unconfirmed
<1>2. /\ j \in DOMAIN z /\ j \in Nat /\ z[j].identifier = r[i].identifier
      /\ Holds(r, q, s, i, j) /\ ~HasDescription(q, s, j)
  BY <1>1, MappedExists DEF Typed
<1>3. ~Acked(q, s, i) /\ \A l : ~HasMapping(q, s, i, l)
  BY <1>1 DEF Counted, HasMapping, Maps, RepliesPending
<1>4. /\ \A k \in DOMAIN r : k # i => r2[k] = r[k]
      /\ \A k \in DOMAIN r : r2[k].identifier = r[k].identifier /\ (~r2[k].hidden => ~r[k].hidden)
      /\ \A k \in DOMAIN r : r2[k].fsm.skip = r[k].fsm.skip /\ r2[k].fsm.mapped = r[k].fsm.mapped
      /\ \A k \in DOMAIN r : Unconfirmed(r2[k]) <=> Unconfirmed(r[k])
      /\ \A k \in DOMAIN r : Retired(r2[k]) <=> Retired(r[k]) \/ k = i
  BY <1>1 DEF Retired, Unconfirmed
<1>5. /\ \A k, l : Holds(r2, q, s, k, l) <=> Holds(r, q, s, k, l)
      /\ \A k \in DOMAIN r : \A l : Acker(r2, q, s, k, l) <=> Acker(r, q, s, k, l)
      /\ \A k \in DOMAIN r : Holdings(r2, q, s, k) = Holdings(r, q, s, k)
  BY <1>4 DEF Holds, Acker, Holdings
<1>6. /\ \A k, l : Holds(z, w2, t, k, l) <=> Holds(z, w, t, k, l)
      /\ \A k, l : Acker(z, w2, t, k, l) <=> Acker(z, w, t, k, l)
      /\ \A k : Holdings(z, w2, t, k) = Holdings(z, w, t, k)
      /\ \A k : Owing(z, w2, t, k) = Owing(z, w, t, k)
  BY DEF Holds, Acker, Holdings, Owing, PushesRemoved
<1>7. /\ \A k : k # j => Owing(r2, q, s, k) = Owing(r, q, s, k)
      /\ Owing(r2, q, s, j) = Owing(r, q, s, j) \ {i}
      /\ i \in Owing(r, q, s, j)
      /\ ~Acked(w, t, j)
  <2>1. \A l : Holds(r, q, s, i, l) => l = j
    BY <1>3 DEF Holds
  <2>2. i \in Owing(r, q, s, j)
    BY <1>1, <1>2 DEF Owing
  <2>3. \A k, l : (k \in DOMAIN r2 /\ ~Retired(r2[k]) /\ Holds(r2, q, s, k, l))
                   <=> (k \in DOMAIN r /\ ~Retired(r[k]) /\ Holds(r, q, s, k, l) /\ k # i)
    BY <1>4, <1>5
  <2>4. \A k : k # j => Owing(r2, q, s, k) = Owing(r, q, s, k)
    BY <2>1, <2>3 DEF Owing
  <2>5. Owing(r2, q, s, j) = Owing(r, q, s, j) \ {i}
    BY <2>3 DEF Owing
  <2>6. ~Acked(w, t, j)
    BY <2>2, <1>2 DEF Counted
  <2> QED BY <2>2, <2>4, <2>5, <2>6
<1>8. /\ Cardinality(Owing(r, q, s, j)) \in Nat
      /\ Cardinality(Owing(r, q, s, j) \ {i}) = Cardinality(Owing(r, q, s, j)) - 1
  <2>1. Owing(r, q, s, j) \subseteq DOMAIN r
    BY DEF Owing
  <2>2. IsFiniteSet(Owing(r, q, s, j))
    BY <2>1, FS_Subset DEF Typed
  <2> QED BY <1>7, <2>2, FS_CardinalityType, FS_RemoveElement
<1>9. /\ \A k \in DOMAIN r : k # i
             => (AckedLate(r2, q, z, w2, s, t, k) <=> AckedLate(r, q, z, w, s, t, k))
      /\ \A k \in DOMAIN r : AckedEarly(r2, q, s, k) <=> AckedEarly(r, q, s, k)
      /\ \A k \in DOMAIN z : k # j
             => (AckedLate(z, w2, r2, q, t, s, k) <=> AckedLate(z, w, r, q, t, s, k))
      /\ \A k \in DOMAIN z : k # j => (AckedEarly(z, w2, t, k) <=> AckedEarly(z, w, t, k))
  BY <1>1, <1>4, <1>5, <1>6 DEF AckedLate, AckedEarly, Crossed, PushesRemoved
<1>10. Extended(w, w2, n, t) /\ w2[n].type = "Removed"
  BY DEF PushesRemoved
<1>11. \A p \in Places(q) : \A x, l : Marks(r2, q, s, p, x, l) <=> Marks(r, q, s, p, x, l)
  BY <1>4 DEF Marks, AddresseesLive
<1>12. Typed(r2)
  BY <1>4 DEF Typed, States
<1>13. Queue(q)
  OBVIOUS
<1>14. Fit(r2)
  BY DEF Fit, is_mapped, destroyed
<1>15. OneVisible(r2)
  BY <1>4 DEF OneVisible
<1>16. DescriptionsPending(r2, q, w2, s, t)
  BY <1>4 DEF DescriptionsPending, PushesRemoved, Extended
<1>17. RepliesPending(r2, q, s)
  BY <1>4 DEF RepliesPending
<1>18. ReplyComing(r2, q, w2, s, t)
  BY <1>4 DEF ReplyComing, PushesRemoved
<1>19. Once(r2, q, w2, s, t)
  <2>1. Once(r, q, w2, s, t)
    BY <1>10, ExtendedKeeps
  <2> QED BY <2>1 DEF Once
<1>20. Unknown(r2, q, z, w2, s, t)
  <2>1. Unknown(r, q, z, w2, s, t)
    BY <1>10, ExtendedKeeps
  <2> QED BY <2>1 DEF Unknown
<1>21. RepliesFirst(r2, q, s)
  BY DEF RepliesFirst
<1>22. AddresseesLive(r2, q, s)
  BY DEF AddresseesLive
<1>23. PartnersLive(r2, z, w2, t)
  BY <1>4, <1>6 DEF PartnersLive
<1>24. Mutual(r2, q, z, w2, s, t)
  BY <1>4, <1>5, <1>6 DEF Mutual
<1>25. Counted(r2, q, z, w2, s, t)
  <2>1. \A k \in DOMAIN r : r[k].fsm.state \in {"AWAIT_CONFIRMATION", "AWAIT_ACK"}
                           => r2[k].fsm.state \in {"AWAIT_CONFIRMATION", "AWAIT_ACK"}
    BY <1>4
  <2> QED BY <2>1, <1>3, <1>4, <1>5, <1>6, <1>9 DEF Counted
<1>26. CrossedOnce(r2, q, z, w2, s, t)
  BY <1>3, <1>4, <1>9 DEF CrossedOnce
<1>27. CrossedKnown(r2, q, z, w2, s, t)
  BY <1>3, <1>4, <1>9 DEF CrossedKnown, PushesRemoved
<1>28. OneCandidate(r2)
  BY <1>4 DEF OneCandidate
<1>29. NoticedUnacked(q, s)
  OBVIOUS
<1>30. CandidatesTold(r2, z, w2, t)
  BY <1>4 DEF CandidatesTold, PushesRemoved
<1>31. PartnersMeet(r2, q, z, w2, s, t)
  BY <1>4, <1>5 DEF PartnersMeet, PushesRemoved
<1>32. LatestFollows(r2, q, z, s)
  BY <1>11 DEF LatestFollows
<1>33. MappingsFollow(r2, q, z, s)
  BY <1>11 DEF MappingsFollow
<1>34. NewerDescribed(r2, q, z, s)
  BY <1>4 DEF NewerDescribed, is_mapped
<1>35. NewerFirst(r2, q, s)
  BY <1>4 DEF NewerFirst
<1>36. RepliesInOrder(r2, q, w2, s, t)
  BY <1>4 DEF RepliesInOrder, PushesRemoved
<1>37. RemovalsInOrder(r2, q, z, w2, s, t)
  <2>1. \A k, l : HasMapping(w2, t, k, l) <=> HasMapping(w, t, k, l)
    BY DEF PushesRemoved
  <2> QED BY <2>1, <1>4, <1>5, <1>6 DEF RemovalsInOrder
<1>38. Typed(z)
  OBVIOUS
<1>39. Queue(w2)
  BY <1>10 DEF Extended
<1>40. Fit(z)
  OBVIOUS
<1>41. OneVisible(z)
  OBVIOUS
<1>42. DescriptionsPending(z, w2, q, t, s)
  BY DEF DescriptionsPending, PushesRemoved
<1>43. RepliesPending(z, w2, t)
  BY <1>10, ExtendedKeeps
<1>44. ReplyComing(z, w2, q, t, s)
  BY DEF ReplyComing, PushesRemoved
<1>45. Once(z, w2, q, t, s)
  BY <1>10, ExtendedKeeps
<1>46. Unknown(z, w2, r2, q, t, s)
  BY <1>1, <1>2, <1>4 DEF Unknown, HasDescription, PushesRemoved, Extended
<1>47. RepliesFirst(z, w2, t)
  BY <1>10, ExtendedKeeps
<1>48. AddresseesLive(z, w2, t)
  BY <1>2 DEF AddresseesLive, PushesRemoved, Extended
<1>49. PartnersLive(z, r2, q, s)
  BY <1>4, <1>5 DEF PartnersLive
<1>50. Mutual(z, w2, r2, q, t, s)
  BY <1>4, <1>5, <1>6 DEF Mutual, PushesRemoved
<1>51. Counted(z, w2, r2, q, t, s)
  <2>1. ASSUME NEW k \in DOMAIN z, k # j
        PROVE  /\ Acked(w2, t, k) <=> Acked(w, t, k)
               /\ Removals(w2, t, k) = Removals(w, t, k)
               /\ Owing(r2, q, s, k) = Owing(r, q, s, k)
               /\ Holdings(z, w2, t, k) = Holdings(z, w, t, k)
               /\ \A p \in Places(w2) : Acks(w2, t, p, k) \/ Speaks(w2, t, p, k) => p \in Places(w)
    BY <2>1, <1>6, <1>7 DEF PushesRemoved, Extended
  <2>2. Removals(w2, t, j) + Cardinality(Owing(r2, q, s, j)) = z[j].fsm.skip + Holdings(z, w2, t, j)
    <3>1. Removals(w, t, j) + Cardinality(Owing(r, q, s, j)) = z[j].fsm.skip + Holdings(z, w, t, j)
      BY <1>2, <1>7 DEF Counted
    <3>2. Removals(w2, t, j) = Removals(w, t, j) + 1 /\ Removals(w, t, j) \in Nat
      BY RemovalsCount DEF PushesRemoved
    <3>3. Cardinality(Owing(r2, q, s, j)) = Cardinality(Owing(r, q, s, j)) - 1
      BY <1>7, <1>8
    <3> QED BY <3>1, <3>2, <3>3, <1>6, <1>8
  <2>3. ~Acked(w2, t, j)
    BY <1>7 DEF PushesRemoved
  <2> QED BY <2>1, <2>2, <2>3, <1>9, <1>10 DEF Counted, Extended
<1>52. CrossedOnce(z, w2, r2, q, t, s)
  BY <1>7, <1>9 DEF CrossedOnce, PushesRemoved
<1>53. CrossedKnown(z, w2, r2, q, t, s)
  BY <1>1, <1>4, <1>7, <1>9 DEF CrossedKnown, PushesRemoved
<1>54. OneCandidate(z)
  OBVIOUS
<1>55. NoticedUnacked(w2, t)
  BY <1>10, ExtendedKeeps
<1>56. CandidatesTold(z, r2, q, s)
  BY <1>4 DEF CandidatesTold
<1>57. PartnersMeet(z, w2, r2, q, t, s)
  BY <1>4, <1>6 DEF PartnersMeet, PushesRemoved
<1>58. LatestFollows(z, w2, r2, t)
  <2>1. LatestFollows(z, w2, r, t)
    BY <1>10, ExtendedKeeps
  <2> QED BY <2>1, <1>4 DEF LatestFollows
<1>59. MappingsFollow(z, w2, r2, t)
  <2>1. MappingsFollow(z, w2, r, t)
    BY <1>10, ExtendedKeeps
  <2> QED BY <2>1, <1>4 DEF MappingsFollow
<1>60. NewerDescribed(z, w2, r2, t)
  BY <1>4 DEF NewerDescribed, PushesRemoved
<1>61. NewerFirst(z, w2, t)
  BY <1>10, ExtendedKeeps
<1>62. RepliesInOrder(z, w2, q, t, s)
  BY DEF RepliesInOrder, PushesRemoved, Extended
<1>63. RemovalsInOrder(z, w2, r2, q, t, s)
  BY <1>4, <1>5, <1>6 DEF RemovalsInOrder, PushesRemoved, Extended
<1> QED BY <1>12, <1>13, <1>14, <1>15, <1>16, <1>17, <1>18, <1>19, <1>20, <1>21, <1>22, <1>23,
           <1>24, <1>25, <1>26, <1>27, <1>28, <1>29, <1>30, <1>31, <1>32, <1>33, <1>34, <1>35,
           <1>36, <1>37, <1>38, <1>39, <1>40, <1>41, <1>42, <1>43, <1>44, <1>45, <1>46, <1>47,
           <1>48, <1>49, <1>50, <1>51, <1>52, <1>53, <1>54, <1>55, <1>56, <1>57, <1>58, <1>59,
           <1>60, <1>61, <1>62, <1>63

\* A destroyed element learns to whom it is mapped and sends its removal.
LEMMA RetireOnMappingKeeps ==
    ASSUME NEW r, NEW q, NEW z, NEW w, NEW s, NEW t, Pair(r, q, z, w, s, t),
           NEW r2, NEW q2, NEW w2, NEW h, NEW n, NEW i, NEW j,
           PopsMapping(q, q2, h, s, i, j),
           PushesRemoved(w, w2, n, t, j),
           r[i].fsm.state = "AWAIT_CONFIRMATION",
           r[i].fsm.mapped \in {NoId, j},
           DOMAIN r2 = DOMAIN r,
           \A k \in DOMAIN r \ {i} : r2[k] = r[k],
           r2[i].identifier = r[i].identifier,
           r2[i].hidden,
           r2[i].fsm.skip = r[i].fsm.skip,
           r2[i].fsm.mapped = j,
           r2[i].fsm.state = "AWAIT_ACK"
    PROVE  Pair(r2, q2, z, w2, s, t)
<1> USE DEF Pair, End, Replied, Linked, Ordered, NoId
<1>1. /\ i \in DOMAIN r /\ i \in Nat /\ j \in Nat /\ j # NoId
      /\ ~Retired(r[i]) /\ Unconfirmed(r[i]) /\ r[i].hidden
  BY DEF RepliesPending, PopsMapping, Shortened, Retired, Unconfirmed, Fit, destroyed, Typed
<1>2. /\ Holds(r, q, s, i, j) /\ j \in DOMAIN z /\ z[j].identifier = r[i].identifier
  <2>1. Holds(r, q, s, i, j)
    BY <1>1 DEF Holds, PopsMapping
  <2> QED BY <2>1, <1>1 DEF PartnersLive
<1>3. /\ ~HasReply(q2, s, i) /\ \A l : ~HasMapping(q2, s, i, l)
      /\ ~HasDescription(w, t, i)
      /\ ~HasDescription(q, s, j)
  <2>1. \A p \in Places(q2) : ~Replies(q2, s, p, i)
    BY <1>1 DEF Once, PopsMapping, Shortened
  <2>2. ~HasDescription(w, t, i)
    BY <1>1 DEF Unknown, HasDescription, PopsMapping, Shortened
  <2>3. ~HasDescription(q, s, j)
    BY <1>1, <1>2 DEF Unknown, HasDescription, PopsMapping, Shortened
  <2> QED BY <2>1, <2>2, <2>3 DEF HasReply, HasMapping, Maps, Replies
<1>4. /\ \A k \in DOMAIN r : k # i => r2[k] = r[k]
      /\ \A k \in DOMAIN r : r2[k].identifier = r[k].identifier /\ (~r2[k].hidden => k # i)
      /\ \A k \in DOMAIN r : r2[k].fsm.skip = r[k].fsm.skip
      /\ \A k \in DOMAIN r : Unconfirmed(r2[k]) <=> Unconfirmed(r[k]) /\ k # i
      /\ \A k \in DOMAIN r : Retired(r2[k]) <=> Retired(r[k]) \/ k = i
  BY <1>1 DEF Retired, Unconfirmed
<1>5. /\ \A k, l : Holds(r2, q2, s, k, l) <=> Holds(r, q, s, k, l)
      /\ \A k \in DOMAIN r : \A l : Acker(r2, q2, s, k, l) <=> Acker(r, q, s, k, l)
      /\ \A k \in DOMAIN r : Holdings(r2, q2, s, k) = Holdings(r, q, s, k)
  BY <1>1, <1>3, <1>4 DEF Holds, Acker, Holdings, PopsMapping
<1>6. /\ \A k, l : Holds(z, w2, t, k, l) <=> Holds(z, w, t, k, l)
      /\ \A k, l : Acker(z, w2, t, k, l) <=> Acker(z, w, t, k, l)
      /\ \A k : Holdings(z, w2, t, k) = Holdings(z, w, t, k)
      /\ \A k : Owing(z, w2, t, k) = Owing(z, w, t, k)
  BY DEF Holds, Acker, Holdings, Owing, PushesRemoved
<1>7. /\ \A k : k # j => Owing(r2, q2, s, k) = Owing(r, q, s, k)
      /\ Owing(r2, q2, s, j) = Owing(r, q, s, j) \ {i}
      /\ i \in Owing(r, q, s, j)
      /\ ~Acked(w, t, j)
  <2>1. \A l : Holds(r, q, s, i, l) => l = j
    BY <1>3 DEF Holds, PopsMapping
  <2>2. i \in Owing(r, q, s, j)
    BY <1>1, <1>2 DEF Owing
  <2>3. \A k, l : (k \in DOMAIN r2 /\ ~Retired(r2[k]) /\ Holds(r2, q2, s, k, l))
                   <=> (k \in DOMAIN r /\ ~Retired(r[k]) /\ Holds(r, q, s, k, l) /\ k # i)
    BY <1>4, <1>5
  <2>4. \A k : k # j => Owing(r2, q2, s, k) = Owing(r, q, s, k)
    BY <2>1, <2>3 DEF Owing
  <2>5. Owing(r2, q2, s, j) = Owing(r, q, s, j) \ {i}
    BY <2>3 DEF Owing
  <2>6. ~Acked(w, t, j)
    BY <2>2, <1>2 DEF Counted
  <2> QED BY <2>2, <2>4, <2>5, <2>6
<1>8. /\ Cardinality(Owing(r, q, s, j)) \in Nat
      /\ Cardinality(Owing(r, q, s, j) \ {i}) = Cardinality(Owing(r, q, s, j)) - 1
  <2>1. Owing(r, q, s, j) \subseteq DOMAIN r
    BY DEF Owing
  <2>2. IsFiniteSet(Owing(r, q, s, j))
    BY <2>1, FS_Subset DEF Typed
  <2> QED BY <1>7, <2>2, FS_CardinalityType, FS_RemoveElement
<1>9. /\ \A k \in DOMAIN r : k # i
             => (AckedLate(r2, q2, z, w2, s, t, k) <=> AckedLate(r, q, z, w, s, t, k))
      /\ \A k \in DOMAIN r : AckedEarly(r2, q2, s, k) <=> AckedEarly(r, q, s, k)
      /\ \A k \in DOMAIN z : k # j
             => (AckedLate(z, w2, r2, q2, t, s, k) <=> AckedLate(z, w, r, q, t, s, k))
      /\ \A k \in DOMAIN z : k # j => (AckedEarly(z, w2, t, k) <=> AckedEarly(z, w, t, k))
  BY <1>1, <1>4, <1>5, <1>6 DEF AckedLate, AckedEarly, Crossed, PopsMapping, PushesRemoved
<1>10. Shortened(q, q2, h, s) /\ Extended(w, w2, n, t) /\ w2[n].type = "Removed"
  BY DEF PopsMapping, PushesRemoved
<1>11. \A p \in Places(q) : \A x, l : Marks(r2, q, s, p, x, l) <=> Marks(r, q, s, p, x, l)
  BY <1>4 DEF Marks, AddresseesLive
<1>12. Acked(q, s, i) => AckedEarly(r2, q2, s, i) /\ ~AckedLate(r2, q2, z, w2, s, t, i)
  <2>1. Acked(q, s, i) => AckedEarly(r, q, s, i)
    BY <1>1 DEF Counted, AckedLate
  <2>2. Removals(q2, s, i) \in Nat
    BY <1>10, RemovalsCount DEF Shortened
  <2> QED BY <2>1, <2>2, <1>1, <1>9 DEF AckedEarly, AckedLate
<1>13. \A k : Acked(q2, s, k) <=> Acked(q, s, k)
  BY DEF PopsMapping
<1>14. Typed(r2)
  BY <1>1, <1>4 DEF Typed, States
<1>15. Queue(q2)
  BY <1>10 DEF Shortened
<1>16. Fit(r2)
  BY DEF Fit, is_mapped, destroyed
<1>17. OneVisible(r2)
  BY <1>4 DEF OneVisible
<1>18. DescriptionsPending(r2, q2, w2, s, t)
  <2>1. \A p \in Places(w2) : w2[p].type = "Description" /\ w2[p].to = t =>
            p \in Places(w) /\ w[p] = w2[p] /\ w2[p].own # i
    BY <1>3, <1>10 DEF Extended, HasDescription, Describes
  <2>2. \A k : HasReply(q2, s, k) => HasReply(q, s, k)
    BY DEF PopsMapping
  <2> QED BY <2>1, <2>2, <1>4 DEF DescriptionsPending
<1>19. RepliesPending(r2, q2, s)
  <2>1. RepliesPending(r, q2, s)
    BY <1>10, ShortenedKeeps
  <2>2. \A p \in Places(q2) : q2[p].type \in {"Mapping", "Noticed"} /\ q2[p].to = s => q2[p].id # i
    BY <1>3 DEF HasReply, Replies
  <2> QED BY <2>1, <2>2, <1>4 DEF RepliesPending
<1>20. ReplyComing(r2, q2, w2, s, t)
  BY <1>4 DEF ReplyComing, PopsMapping, PushesRemoved
<1>21. Once(r2, q2, w2, s, t)
  <2>1. Once(r, q2, w, s, t)
    BY <1>10, ShortenedKeeps
  <2>2. Once(r, q2, w2, s, t)
    BY <2>1, <1>10, ExtendedKeeps
  <2> QED BY <2>2 DEF Once
<1>22. Unknown(r2, q2, z, w2, s, t)
  <2>1. Unknown(r, q2, z, w, s, t)
    BY <1>10, ShortenedKeeps
  <2>2. Unknown(r, q2, z, w2, s, t)
    BY <2>1, <1>10, ExtendedKeeps
  <2> QED BY <2>2 DEF Unknown
<1>23. RepliesFirst(r2, q2, s)
  <2>1. RepliesFirst(r, q2, s)
    BY <1>10, ShortenedKeeps
  <2> QED BY <2>1 DEF RepliesFirst
<1>24. AddresseesLive(r2, q2, s)
  BY <1>10 DEF AddresseesLive, Shortened
<1>25. PartnersLive(r2, z, w2, t)
  BY <1>4, <1>6 DEF PartnersLive
<1>26. Mutual(r2, q2, z, w2, s, t)
  BY <1>4, <1>5, <1>6, <1>13 DEF Mutual
<1>27. Counted(r2, q2, z, w2, s, t)
  <2>1. \A k \in DOMAIN r : r[k].fsm.state \in {"AWAIT_CONFIRMATION", "AWAIT_ACK"}
                           => r2[k].fsm.state \in {"AWAIT_CONFIRMATION", "AWAIT_ACK"}
    BY <1>4
  <2>2. \A k \in DOMAIN r : Acked(q, s, k)
           /\ (AckedEarly(r, q, s, k) \/ AckedLate(r, q, z, w, s, t, k))
                           => AckedEarly(r2, q2, s, k) \/ AckedLate(r2, q2, z, w2, s, t, k)
    BY <1>9, <1>12
  <2>3. \A k : Removals(q2, s, k) = Removals(q, s, k)
    BY DEF PopsMapping
  <2> QED BY <2>1, <2>2, <2>3, <1>4, <1>5, <1>6, <1>10, <1>13 DEF Counted, Shortened
<1>28. CrossedOnce(r2, q2, z, w2, s, t)
  BY <1>4, <1>9, <1>12, <1>13 DEF CrossedOnce
<1>29. CrossedKnown(r2, q2, z, w2, s, t)
  <2>1. \A k \in DOMAIN r : AckedLate(r, q, z, w, s, t, k) => k # i
    BY <1>1 DEF AckedLate
  <2>2. \A k : Acked(w2, t, k) <=> Acked(w, t, k)
    BY DEF PushesRemoved
  <2> QED BY <2>1, <2>2, <1>4, <1>9, <1>13 DEF CrossedKnown
<1>30. OneCandidate(r2)
  BY <1>4 DEF OneCandidate
<1>31. NoticedUnacked(q2, s)
  BY <1>10, ShortenedKeeps
<1>32. CandidatesTold(r2, z, w2, t)
  BY <1>4 DEF CandidatesTold, PushesRemoved
<1>33. PartnersMeet(r2, q2, z, w2, s, t)
  BY <1>4, <1>5 DEF PartnersMeet, PopsMapping, PushesRemoved
<1>34. LatestFollows(r2, q2, z, s)
  <2>1. LatestFollows(r, q2, z, s)
    BY <1>10, ShortenedKeeps
  <2>2. \A p \in Places(q2) : \A x, l : Marks(r2, q2, s, p, x, l) <=> Marks(r, q2, s, p, x, l)
    BY <1>10, <1>11 DEF Shortened
  <2> QED BY <2>1, <2>2 DEF LatestFollows
<1>35. MappingsFollow(r2, q2, z, s)
  <2>1. MappingsFollow(r, q2, z, s)
    BY <1>10, ShortenedKeeps
  <2>2. \A p \in Places(q2) : \A x, l : Marks(r2, q2, s, p, x, l) <=> Marks(r, q2, s, p, x, l)
    BY <1>10, <1>11 DEF Shortened
  <2> QED BY <2>1, <2>2 DEF MappingsFollow
<1>36. NewerDescribed(r2, q2, z, s)
  <2>1. ~is_mapped(r2[i].fsm)
    BY DEF is_mapped
  <2> QED BY <2>1, <1>4 DEF NewerDescribed, PopsMapping
<1>37. NewerFirst(r2, q2, s)
  <2>1. \A p \in Places(q) : \A k : Describes(q, s, p, k)
            => p \in Places(q2) /\ Describes(q2, s, p, k)
    BY DEF PopsMapping, Shortened
  <2>2. \A p \in Places(q2) : p \in Places(q) /\ q2[p] = q[p]
    BY <1>10 DEF Shortened
  <2> QED BY <2>1, <2>2, <1>4 DEF NewerFirst
<1>38. RepliesInOrder(r2, q2, w2, s, t)
  <2>1. \A p \in Places(q2), m \in Places(q) : p < m => m \in Places(q2)
    BY <1>10, ShortenedAfter
  <2>2. \A p \in Places(q2) : \A k : p \in Places(q)
           /\ (Replies(q2, s, p, k) <=> Replies(q, s, p, k))
    BY <1>10 DEF Shortened
  <2>3. \A k : HasDescription(w2, t, k) <=> HasDescription(w, t, k)
    BY DEF PushesRemoved
  <2> QED BY <2>1, <2>2, <2>3, <1>4 DEF RepliesInOrder
<1>39. RemovalsInOrder(r2, q2, z, w2, s, t)
  <2>1. \A k, l : HasMapping(w2, t, k, l) <=> HasMapping(w, t, k, l)
    BY DEF PushesRemoved
  <2>2. \A p \in Places(q2) : \A k :
            /\ p \in Places(q)
            /\ Replies(q2, s, p, k) <=> Replies(q, s, p, k)
            /\ Removes(q2, s, p, k) <=> Removes(q, s, p, k)
    BY <1>10 DEF Shortened
  <2> QED BY <2>1, <2>2, <1>4, <1>5, <1>6, <1>13 DEF RemovalsInOrder
<1>40. Typed(z)
  OBVIOUS
<1>41. Queue(w2)
  BY <1>10 DEF Extended
<1>42. Fit(z)
  OBVIOUS
<1>43. OneVisible(z)
  OBVIOUS
<1>44. DescriptionsPending(z, w2, q2, t, s)
  BY <1>10 DEF DescriptionsPending, PushesRemoved, Shortened
<1>45. RepliesPending(z, w2, t)
  BY <1>10, ExtendedKeeps
<1>46. ReplyComing(z, w2, q2, t, s)
  BY DEF ReplyComing, PopsMapping, PushesRemoved
<1>47. Once(z, w2, q2, t, s)
  <2>1. Once(z, w, q2, t, s)
    BY <1>10, ShortenedKeeps
  <2> QED BY <2>1, <1>10, ExtendedKeeps
<1>48. Unknown(z, w2, r2, q2, t, s)
  <2>1. \A k, p : p \in Places(q2) /\ Describes(q2, s, p, k)
            => k # j /\ p \in Places(q) /\ Describes(q, s, p, k)
    BY <1>3, <1>10 DEF HasDescription, Shortened
  <2>2. \A k, p : p \in Places(w2) /\ Speaks(w2, t, p, k)
            => k = j \/ (p \in Places(w) /\ Speaks(w, t, p, k))
    BY DEF PushesRemoved, Extended
  <2>3. \A p, k, l : p \in Places(q2) /\ Maps(q2, s, p, k, l)
            => p \in Places(q) /\ Maps(q, s, p, k, l)
    BY <1>10 DEF Shortened
  <2> QED BY <2>1, <2>2, <2>3, <1>4, <1>13 DEF Unknown
<1>49. RepliesFirst(z, w2, t)
  BY <1>10, ExtendedKeeps
<1>50. AddresseesLive(z, w2, t)
  BY <1>2 DEF AddresseesLive, PushesRemoved, Extended
<1>51. PartnersLive(z, r2, q2, s)
  BY <1>4, <1>5 DEF PartnersLive
<1>52. Mutual(z, w2, r2, q2, t, s)
  BY <1>4, <1>5, <1>6 DEF Mutual, PushesRemoved
<1>53. Counted(z, w2, r2, q2, t, s)
  <2>1. ASSUME NEW k \in DOMAIN z, k # j
        PROVE  /\ Acked(w2, t, k) <=> Acked(w, t, k)
               /\ Removals(w2, t, k) = Removals(w, t, k)
               /\ Owing(r2, q2, s, k) = Owing(r, q, s, k)
               /\ Holdings(z, w2, t, k) = Holdings(z, w, t, k)
               /\ \A p \in Places(w2) : Acks(w2, t, p, k) \/ Speaks(w2, t, p, k) => p \in Places(w)
    BY <2>1, <1>6, <1>7 DEF PushesRemoved, Extended
  <2>2. Removals(w2, t, j) + Cardinality(Owing(r2, q2, s, j))
            = z[j].fsm.skip + Holdings(z, w2, t, j)
    <3>1. Removals(w, t, j) + Cardinality(Owing(r, q, s, j)) = z[j].fsm.skip + Holdings(z, w, t, j)
      BY <1>2, <1>7 DEF Counted
    <3>2. Removals(w2, t, j) = Removals(w, t, j) + 1 /\ Removals(w, t, j) \in Nat
      BY RemovalsCount DEF PushesRemoved
    <3>3. Cardinality(Owing(r2, q2, s, j)) = Cardinality(Owing(r, q, s, j)) - 1
      BY <1>7, <1>8
    <3> QED BY <3>1, <3>2, <3>3, <1>6, <1>8
  <2>3. ~Acked(w2, t, j)
    BY <1>7 DEF PushesRemoved
  <2> QED BY <2>1, <2>2, <2>3, <1>9, <1>10 DEF Counted, Extended
<1>54. CrossedOnce(z, w2, r2, q2, t, s)
  BY <1>7, <1>9 DEF CrossedOnce, PushesRemoved
<1>55. CrossedKnown(z, w2, r2, q2, t, s)
  <2>1. \A k : Acked(w2, t, k) <=> Acked(w, t, k)
    BY DEF PushesRemoved
  <2> QED BY <2>1, <1>1, <1>4, <1>7, <1>9, <1>13 DEF CrossedKnown
<1>56. OneCandidate(z)
  OBVIOUS
<1>57. NoticedUnacked(w2, t)
  BY <1>10, ExtendedKeeps
<1>58. CandidatesTold(z, r2, q2, s)
  BY <1>4 DEF CandidatesTold, PopsMapping
<1>59. PartnersMeet(z, w2, r2, q2, t, s)
  BY <1>4, <1>6 DEF PartnersMeet, PopsMapping, PushesRemoved
<1>60. LatestFollows(z, w2, r2, t)
  <2>1. LatestFollows(z, w2, r, t)
    BY <1>10, ExtendedKeeps
  <2> QED BY <2>1, <1>4 DEF LatestFollows
<1>61. MappingsFollow(z, w2, r2, t)
  <2>1. MappingsFollow(z, w2, r, t)
    BY <1>10, ExtendedKeeps
  <2> QED BY <2>1, <1>4 DEF MappingsFollow
<1>62. NewerDescribed(z, w2, r2, t)
  BY <1>4 DEF NewerDescribed, PushesRemoved
<1>63. NewerFirst(z, w2, t)
  BY <1>10, ExtendedKeeps
<1>64. RepliesInOrder(z, w2, q2, t, s)
  BY DEF RepliesInOrder, PopsMapping, PushesRemoved, Extended
<1>65. RemovalsInOrder(z, w2, r2, q2, t, s)
  <2>1. ASSUME NEW a \in DOMAIN z, NEW k \in DOMAIN z, NEW l \in DOMAIN r,
               NEW p \in Places(w2), NEW m \in Places(w2),
               a # k, Holds(r2, q2, s, l, a), Unconfirmed(z[k]),
               \/ Acked(w2, t, k) /\ Acker(z, w2, t, k, l)
               \/ Holds(z, w2, t, k, l) /\ r2[l].fsm.mapped = k /\ HasMapping(q2, s, l, a),
               Removes(w2, t, p, a), Replies(w2, t, m, k)
        PROVE  m < p
    <3>1. m \in Places(w) /\ Replies(w, t, m, k)
             /\ (p = n \/ (p \in Places(w) /\ Removes(w, t, p, a)))
      BY <2>1 DEF PushesRemoved, Extended
    <3>2. Holds(r, q, s, l, a)
      BY <2>1, <1>5
    <3>3. \/ Acked(w, t, k) /\ Acker(z, w, t, k, l)
          \/ Holds(z, w, t, k, l) /\ r[l].fsm.mapped = k /\ HasMapping(q, s, l, a)
      <4>1. Acked(w2, t, k) <=> Acked(w, t, k)
        BY DEF PushesRemoved
      <4>2. HasMapping(q2, s, l, a) => l # i /\ HasMapping(q, s, l, a)
        BY <1>3 DEF PopsMapping
      <4> QED BY <4>1, <4>2, <2>1, <1>4, <1>6
    <3>4. m < n
      BY <3>1, <1>10 DEF Extended
    <3> QED BY <2>1, <3>1, <3>2, <3>3, <3>4 DEF RemovalsInOrder
  <2> QED BY <2>1 DEF RemovalsInOrder
<1> QED BY <1>14, <1>15, <1>16, <1>17, <1>18, <1>19, <1>20, <1>21, <1>22, <1>23, <1>24, <1>25,
           <1>26, <1>27, <1>28, <1>29, <1>30, <1>31, <1>32, <1>33, <1>34, <1>35, <1>36, <1>37,
           <1>38, <1>39, <1>40, <1>41, <1>42, <1>43, <1>44, <1>45, <1>46, <1>47, <1>48, <1>49,
           <1>50, <1>51, <1>52, <1>53, <1>54, <1>55, <1>56, <1>57, <1>58, <1>59, <1>60, <1>61,
           <1>62, <1>63, <1>64, <1>65

\* A visible element learns to whom it is mapped.
LEMMA ConfirmMappingKeeps ==
    ASSUME NEW r, NEW q, NEW z, NEW w, NEW s, NEW t, Pair(r, q, z, w, s, t),
           NEW r2, NEW q2, NEW h, NEW i, NEW j,
           PopsMapping(q, q2, h, s, i, j),
           \/ r[i].fsm.state = "UNUSED_UNCONFIRMED"
           \/ r[i].fsm.state = "MAPPED_UNCONFIRMED" /\ r[i].fsm.mapped = j,
           DOMAIN r2 = DOMAIN r,
           \A k \in DOMAIN r \ {i} : r2[k] = r[k],
           r2[i].identifier = r[i].identifier,
           ~r2[i].hidden,
           r2[i].fsm.skip = r[i].fsm.skip,
           r2[i].fsm.mapped = j,
           r2[i].fsm.state = "MAPPED_CONFIRMED"
    PROVE  Pair(r2, q2, z, w, s, t)
<1> USE DEF Pair, End, Replied, Linked, Ordered, NoId
<1>1. /\ i \in DOMAIN r /\ i \in Nat /\ j \in Nat /\ j # NoId
      /\ ~Retired(r[i]) /\ Unconfirmed(r[i]) /\ ~r[i].hidden /\ r[i].fsm.mapped \in {NoId, j}
  BY DEF RepliesPending, PopsMapping, Shortened, Retired, Unconfirmed, Fit, destroyed, Typed
<1>2. /\ Holds(r, q, s, i, j) /\ j \in DOMAIN z /\ z[j].identifier = r[i].identifier
  <2>1. Holds(r, q, s, i, j)
    BY <1>1 DEF Holds, PopsMapping
  <2> QED BY <2>1, <1>1 DEF PartnersLive
<1>3. /\ ~HasReply(q2, s, i) /\ \A l : ~HasMapping(q2, s, i, l)
      /\ ~HasDescription(w, t, i)
      /\ ~HasDescription(q, s, j)
  <2>1. \A p \in Places(q2) : ~Replies(q2, s, p, i)
    BY <1>1 DEF Once, PopsMapping, Shortened
  <2>2. ~HasDescription(w, t, i)
    BY <1>1 DEF Unknown, HasDescription, PopsMapping, Shortened
  <2>3. ~HasDescription(q, s, j)
    BY <1>1, <1>2 DEF Unknown, HasDescription, PopsMapping, Shortened
  <2> QED BY <2>1, <2>2, <2>3 DEF HasReply, HasMapping, Maps, Replies
<1>4. /\ \A k \in DOMAIN r : k # i => r2[k] = r[k]
      /\ \A k \in DOMAIN r : r2[k].identifier = r[k].identifier /\ (~r2[k].hidden <=> ~r[k].hidden)
      /\ \A k \in DOMAIN r : r2[k].fsm.skip = r[k].fsm.skip
      /\ \A k \in DOMAIN r : Unconfirmed(r2[k]) <=> Unconfirmed(r[k]) /\ k # i
      /\ \A k \in DOMAIN r : Retired(r2[k]) <=> Retired(r[k])
  BY <1>1 DEF Retired, Unconfirmed
<1>5. /\ \A k, l : Holds(r2, q2, s, k, l) <=> Holds(r, q, s, k, l)
      /\ \A k \in DOMAIN r : \A l : Acker(r2, q2, s, k, l) <=> Acker(r, q, s, k, l)
      /\ \A k \in DOMAIN r : Holdings(r2, q2, s, k) = Holdings(r, q, s, k)
  BY <1>1, <1>3, <1>4 DEF Holds, Acker, Holdings, PopsMapping
<1>6. \A k : Owing(r2, q2, s, k) = Owing(r, q, s, k)
  BY <1>4, <1>5 DEF Owing
<1>7. /\ \A k \in DOMAIN r : AckedLate(r2, q2, z, w, s, t, k) <=> AckedLate(r, q, z, w, s, t, k)
      /\ \A k \in DOMAIN r : AckedEarly(r2, q2, s, k) <=> AckedEarly(r, q, s, k)
      /\ \A k \in DOMAIN z : AckedLate(z, w, r2, q2, t, s, k) <=> AckedLate(z, w, r, q, t, s, k)
  BY <1>1, <1>4, <1>5 DEF AckedLate, AckedEarly, Crossed, PopsMapping
<1>8. Shortened(q, q2, h, s) /\ ~Acked(q, s, i)
  BY <1>1 DEF PopsMapping, Counted, Unconfirmed
<1>9. \A p \in Places(q2) : \A x, l : Marks(r2, q2, s, p, x, l) <=> Marks(r, q2, s, p, x, l)
  <2>1. \A p \in Places(q2) : q2[p].type \in {"Mapping", "Noticed"} /\ q2[p].to = s
            => q2[p].id \in DOMAIN r
    BY <1>8 DEF AddresseesLive, Shortened
  <2> QED BY <2>1, <1>4 DEF Marks
<1>10. \A k : Acked(q2, s, k) <=> Acked(q, s, k)
  BY DEF PopsMapping
<1>11. Typed(r2)
  BY <1>1, <1>4 DEF Typed, States
<1>12. Queue(q2)
  BY <1>8 DEF Shortened
<1>13. Fit(r2)
  BY <1>1 DEF Fit, is_mapped, destroyed
<1>14. OneVisible(r2)
  BY <1>4 DEF OneVisible
<1>15. DescriptionsPending(r2, q2, w, s, t)
  <2>1. \A p \in Places(w) : w[p].type = "Description" /\ w[p].to = t => w[p].own # i
    BY <1>3 DEF HasDescription, Describes
  <2>2. \A k : HasReply(q2, s, k) => HasReply(q, s, k)
    BY DEF PopsMapping
  <2> QED BY <2>1, <2>2, <1>4 DEF DescriptionsPending
<1>16. RepliesPending(r2, q2, s)
  <2>1. RepliesPending(r, q2, s)
    BY <1>8, ShortenedKeeps
  <2>2. \A p \in Places(q2) : q2[p].type \in {"Mapping", "Noticed"} /\ q2[p].to = s => q2[p].id # i
    BY <1>3 DEF HasReply, Replies
  <2> QED BY <2>1, <2>2, <1>4 DEF RepliesPending
<1>17. ReplyComing(r2, q2, w, s, t)
  BY <1>4 DEF ReplyComing, PopsMapping
<1>18. Once(r2, q2, w, s, t)
  <2>1. Once(r, q2, w, s, t)
    BY <1>8, ShortenedKeeps
  <2> QED BY <2>1 DEF Once
<1>19. Unknown(r2, q2, z, w, s, t)
  <2>1. Unknown(r, q2, z, w, s, t)
    BY <1>8, ShortenedKeeps
  <2> QED BY <2>1 DEF Unknown
<1>20. RepliesFirst(r2, q2, s)
  <2>1. RepliesFirst(r, q2, s)
    BY <1>8, ShortenedKeeps
  <2> QED BY <2>1 DEF RepliesFirst
<1>21. AddresseesLive(r2, q2, s)
  BY <1>8 DEF AddresseesLive, Shortened
<1>22. PartnersLive(r2, z, w, t)
  BY <1>4 DEF PartnersLive
<1>23. Mutual(r2, q2, z, w, s, t)
  BY <1>4, <1>5, <1>10 DEF Mutual
<1>24. Counted(r2, q2, z, w, s, t)
  <2>1. \A k \in DOMAIN r : Acked(q, s, k) => r2[k] = r[k]
    BY <1>4, <1>8
  <2>2. \A k : Removals(q2, s, k) = Removals(q, s, k)
    BY DEF PopsMapping
  <2> QED BY <2>1, <2>2, <1>4, <1>5, <1>7, <1>8, <1>10 DEF Counted, Shortened
<1>25. CrossedOnce(r2, q2, z, w, s, t)
  BY <1>4, <1>7, <1>8, <1>10 DEF CrossedOnce
<1>26. CrossedKnown(r2, q2, z, w, s, t)
  BY <1>4, <1>7, <1>8, <1>10 DEF CrossedKnown
<1>27. OneCandidate(r2)
  BY <1>4 DEF OneCandidate
<1>28. NoticedUnacked(q2, s)
  BY <1>8, ShortenedKeeps
<1>29. CandidatesTold(r2, z, w, t)
  BY <1>4 DEF CandidatesTold
<1>30. PartnersMeet(r2, q2, z, w, s, t)
  BY <1>4, <1>5 DEF PartnersMeet, PopsMapping
<1>31. LatestFollows(r2, q2, z, s)
  <2>1. LatestFollows(r, q2, z, s)
    BY <1>8, ShortenedKeeps
  <2> QED BY <2>1, <1>9 DEF LatestFollows
<1>32. MappingsFollow(r2, q2, z, s)
  <2>1. MappingsFollow(r, q2, z, s)
    BY <1>8, ShortenedKeeps
  <2> QED BY <2>1, <1>9 DEF MappingsFollow
<1>33. NewerDescribed(r2, q2, z, s)
  <2>1. ASSUME NEW k \in DOMAIN z, k # j, ~z[k].hidden, r[i].identifier = z[k].identifier
        PROVE  HasDescription(q, s, k)
    <3>1. Marks(r, q, s, h, z[k].identifier, k)
      BY <2>1 DEF Marks, PopsMapping
    <3>2. h \in Places(q)
      BY <1>8 DEF Shortened
    <3> QED BY <2>1, <3>1, <3>2 DEF LatestFollows, HasDescription
  <2> QED BY <2>1, <1>4 DEF NewerDescribed, PopsMapping
<1>34. NewerFirst(r2, q2, s)
  <2>1. \A p \in Places(q) : \A k : Describes(q, s, p, k)
            => p \in Places(q2) /\ Describes(q2, s, p, k)
    BY DEF PopsMapping, Shortened
  <2>2. \A p \in Places(q2) : p \in Places(q) /\ q2[p] = q[p]
    BY <1>8 DEF Shortened
  <2> QED BY <2>1, <2>2, <1>4 DEF NewerFirst
<1>35. RepliesInOrder(r2, q2, w, s, t)
  <2>1. \A p \in Places(q2), m \in Places(q) : p < m => m \in Places(q2)
    BY <1>8, ShortenedAfter
  <2>2. \A p \in Places(q2) : \A k : p \in Places(q)
           /\ (Replies(q2, s, p, k) <=> Replies(q, s, p, k))
    BY <1>8 DEF Shortened
  <2> QED BY <2>1, <2>2, <1>4 DEF RepliesInOrder
<1>36. RemovalsInOrder(r2, q2, z, w, s, t)
  <2>1. \A p \in Places(q2) : \A k :
            /\ p \in Places(q)
            /\ Replies(q2, s, p, k) <=> Replies(q, s, p, k)
            /\ Removes(q2, s, p, k) <=> Removes(q, s, p, k)
    BY <1>8 DEF Shortened
  <2> QED BY <2>1, <1>4, <1>5, <1>10 DEF RemovalsInOrder
<1>37. Typed(z)
  OBVIOUS
<1>38. Queue(w)
  OBVIOUS
<1>39. Fit(z)
  OBVIOUS
<1>40. OneVisible(z)
  OBVIOUS
<1>41. DescriptionsPending(z, w, q2, t, s)
  BY <1>8 DEF DescriptionsPending, Shortened
<1>42. RepliesPending(z, w, t)
  OBVIOUS
<1>43. ReplyComing(z, w, q2, t, s)
  BY DEF ReplyComing, PopsMapping
<1>44. Once(z, w, q2, t, s)
  BY <1>8, ShortenedKeeps
<1>45. Unknown(z, w, r2, q2, t, s)
  <2>1. \A k, p : p \in Places(q2) /\ Describes(q2, s, p, k)
            => k # j /\ p \in Places(q) /\ Describes(q, s, p, k)
    BY <1>3, <1>8 DEF HasDescription, Shortened
  <2>2. \A p, k, l : p \in Places(q2) /\ Maps(q2, s, p, k, l)
            => p \in Places(q) /\ Maps(q, s, p, k, l)
    BY <1>8 DEF Shortened
  <2> QED BY <2>1, <2>2, <1>4, <1>10 DEF Unknown
<1>46. RepliesFirst(z, w, t)
  OBVIOUS
<1>47. AddresseesLive(z, w, t)
  OBVIOUS
<1>48. PartnersLive(z, r2, q2, s)
  BY <1>4, <1>5 DEF PartnersLive
<1>49. Mutual(z, w, r2, q2, t, s)
  BY <1>4, <1>5 DEF Mutual
<1>50. Counted(z, w, r2, q2, t, s)
  BY <1>6, <1>7 DEF Counted
<1>51. CrossedOnce(z, w, r2, q2, t, s)
  BY <1>7 DEF CrossedOnce
<1>52. CrossedKnown(z, w, r2, q2, t, s)
  <2>1. ~Retired(r2[i])
    BY <1>1, <1>4
  <2> QED BY <2>1, <1>1, <1>4, <1>7, <1>10 DEF CrossedKnown
<1>53. OneCandidate(z)
  OBVIOUS
<1>54. NoticedUnacked(w, t)
  OBVIOUS
<1>55. CandidatesTold(z, r2, q2, s)
  BY <1>4 DEF CandidatesTold, PopsMapping
<1>56. PartnersMeet(z, w, r2, q2, t, s)
  BY <1>4 DEF PartnersMeet, PopsMapping
<1>57. LatestFollows(z, w, r2, t)
  BY <1>4 DEF LatestFollows
<1>58. MappingsFollow(z, w, r2, t)
  BY <1>4 DEF MappingsFollow
<1>59. NewerDescribed(z, w, r2, t)
  BY <1>4 DEF NewerDescribed
<1>60. NewerFirst(z, w, t)
  OBVIOUS
<1>61. RepliesInOrder(z, w, q2, t, s)
  BY DEF RepliesInOrder, PopsMapping
<1>62. RemovalsInOrder(z, w, r2, q2, t, s)
  <2>1. \A l : HasMapping(q2, s, i, l) => FALSE
    BY <1>3
  <2>2. \A k, l : HasMapping(q2, s, k, l) => HasMapping(q, s, k, l)
    BY DEF PopsMapping
  <2> QED BY <2>1, <2>2, <1>4, <1>5 DEF RemovalsInOrder
<1> QED BY <1>11, <1>12, <1>13, <1>14, <1>15, <1>16, <1>17, <1>18, <1>19, <1>20, <1>21, <1>22,
           <1>23, <1>24, <1>25, <1>26, <1>27, <1>28, <1>29, <1>30, <1>31, <1>32, <1>33, <1>34,
           <1>35, <1>36, <1>37, <1>38, <1>39, <1>40, <1>41, <1>42, <1>43, <1>44, <1>45, <1>46,
           <1>47, <1>48, <1>49, <1>50, <1>51, <1>52, <1>53, <1>54, <1>55, <1>56, <1>57, <1>58,
           <1>59, <1>60, <1>61, <1>62

\* An element that is mapped to nothing learns that its description has been noticed.
LEMMA ConfirmNoticedKeeps ==
    ASSUME NEW r, NEW q, NEW z, NEW w, NEW s, NEW t, Pair(r, q, z, w, s, t),
           NEW r2, NEW q2, NEW h, NEW i,
           PopsNoticed(q, q2, h, s, i),
           \/ r[i].fsm.state = "UNUSED_UNCONFIRMED" /\ r2[i].fsm.state = "UNUSED_CONFIRMED"
           \/ r[i].fsm.state = "AWAIT_CONFIRMATION" /\ r2[i].fsm.state = "AWAIT_REMOVALS",
           DOMAIN r2 = DOMAIN r,
           \A k \in DOMAIN r \ {i} : r2[k] = r[k],
           r2[i].identifier = r[i].identifier,
           r2[i].hidden <=> r[i].hidden,
           r2[i].fsm.skip = r[i].fsm.skip,
           r[i].fsm.mapped = NoId,
           r2[i].fsm.mapped = NoId
    PROVE  Pair(r2, q2, z, w, s, t)
<1> USE DEF Pair, End, Replied, Linked, Ordered, NoId
<1>1. /\ i \in DOMAIN r /\ i \in Nat
      /\ ~Retired(r[i]) /\ Unconfirmed(r[i]) /\ ~Retired(r2[i]) /\ ~Unconfirmed(r2[i])
  BY DEF RepliesPending, PopsNoticed, Shortened, Retired, Unconfirmed, Typed
<1>2. \A k \in DOMAIN r : k # i => r2[k] = r[k]
  OBVIOUS
<1>3. /\ ~HasReply(q2, s, i) /\ \A l : ~HasMapping(q, s, i, l)
      /\ ~HasDescription(w, t, i)
  <2>1. \A p \in Places(q2) : ~Replies(q2, s, p, i)
    BY <1>1 DEF Once, PopsNoticed, Shortened
  <2>2. ~HasDescription(w, t, i)
    BY <1>1 DEF Unknown, HasDescription, PopsNoticed, Shortened
  <2>3. \A l : ~HasMapping(q2, s, i, l)
    BY <2>1 DEF HasMapping, Maps, Replies
  <2> QED BY <2>1, <2>2, <2>3 DEF HasReply, PopsNoticed
<1>4. /\ \A k \in DOMAIN r : k # i => r2[k] = r[k]
      /\ \A k \in DOMAIN r : r2[k].identifier = r[k].identifier /\ (~r2[k].hidden <=> ~r[k].hidden)
      /\ \A k \in DOMAIN r : r2[k].fsm.skip = r[k].fsm.skip
      /\ \A k \in DOMAIN r : Unconfirmed(r2[k]) <=> Unconfirmed(r[k]) /\ k # i
      /\ \A k \in DOMAIN r : Retired(r2[k]) <=> Retired(r[k])
  BY <1>1 DEF Retired, Unconfirmed
<1>5. /\ \A k, l : Holds(r2, q2, s, k, l) <=> Holds(r, q, s, k, l)
      /\ \A k \in DOMAIN r : \A l : l # NoId => (Acker(r2, q2, s, k, l) <=> Acker(r, q, s, k, l))
      /\ \A k \in DOMAIN r : Holdings(r2, q2, s, k) = Holdings(r, q, s, k)
  BY <1>1, <1>3, <1>4 DEF Holds, Acker, Holdings, PopsNoticed
<1>6. \A k : Owing(r2, q2, s, k) = Owing(r, q, s, k)
  BY <1>4, <1>5 DEF Owing
<1>7. /\ \A k \in DOMAIN r : AckedLate(r2, q2, z, w, s, t, k) <=> AckedLate(r, q, z, w, s, t, k)
      /\ \A k \in DOMAIN r : AckedEarly(r2, q2, s, k) <=> AckedEarly(r, q, s, k)
      /\ \A k \in DOMAIN z : AckedLate(z, w, r2, q2, t, s, k) <=> AckedLate(z, w, r, q, t, s, k)
  BY <1>1, <1>4, <1>5 DEF AckedLate, AckedEarly, Crossed, PopsNoticed
<1>8. Shortened(q, q2, h, s) /\ ~Acked(q, s, i)
  BY DEF PopsNoticed, NoticedUnacked, Shortened
<1>9. \A p \in Places(q2) : \A x, l : Marks(r2, q2, s, p, x, l) <=> Marks(r, q2, s, p, x, l)
  BY <1>4, <1>8 DEF Marks, AddresseesLive, Shortened
<1>10. \A k : Acked(q2, s, k) <=> Acked(q, s, k)
  BY DEF PopsNoticed
<1>11. Typed(r2)
  BY <1>1, <1>4 DEF Typed, States
<1>12. Queue(q2)
  BY <1>8 DEF Shortened
<1>13. Fit(r2)
  BY <1>1, <1>2 DEF Fit, is_mapped, destroyed
<1>14. OneVisible(r2)
  BY <1>4 DEF OneVisible
<1>15. DescriptionsPending(r2, q2, w, s, t)
  <2>1. \A p \in Places(w) : w[p].type = "Description" /\ w[p].to = t => w[p].own # i
    BY <1>3 DEF HasDescription, Describes
  <2>2. \A k : HasReply(q2, s, k) => HasReply(q, s, k)
    BY DEF PopsNoticed
  <2> QED BY <2>1, <2>2, <1>4 DEF DescriptionsPending
<1>16. RepliesPending(r2, q2, s)
  <2>1. RepliesPending(r, q2, s)
    BY <1>8, ShortenedKeeps
  <2>2. \A p \in Places(q2) : q2[p].type \in {"Mapping", "Noticed"} /\ q2[p].to = s => q2[p].id # i
    BY <1>3 DEF HasReply, Replies
  <2> QED BY <2>1, <2>2, <1>4 DEF RepliesPending
<1>17. ReplyComing(r2, q2, w, s, t)
  BY <1>4 DEF ReplyComing, PopsNoticed
<1>18. Once(r2, q2, w, s, t)
  <2>1. Once(r, q2, w, s, t)
    BY <1>8, ShortenedKeeps
  <2> QED BY <2>1 DEF Once
<1>19. Unknown(r2, q2, z, w, s, t)
  <2>1. Unknown(r, q2, z, w, s, t)
    BY <1>8, ShortenedKeeps
  <2> QED BY <2>1 DEF Unknown
<1>20. RepliesFirst(r2, q2, s)
  <2>1. RepliesFirst(r, q2, s)
    BY <1>8, ShortenedKeeps
  <2> QED BY <2>1 DEF RepliesFirst
<1>21. AddresseesLive(r2, q2, s)
  BY <1>8 DEF AddresseesLive, Shortened
<1>22. PartnersLive(r2, z, w, t)
  BY <1>4 DEF PartnersLive
<1>23. Mutual(r2, q2, z, w, s, t)
  BY <1>4, <1>5, <1>10 DEF Mutual, Holds
<1>24. Counted(r2, q2, z, w, s, t)
  <2>1. \A k \in DOMAIN r : Acked(q, s, k) => r2[k] = r[k]
    BY <1>4, <1>8
  <2>2. \A k : Removals(q2, s, k) = Removals(q, s, k)
    BY DEF PopsNoticed
  <2> QED BY <2>1, <2>2, <1>4, <1>5, <1>7, <1>8, <1>10 DEF Counted, Shortened
<1>25. CrossedOnce(r2, q2, z, w, s, t)
  BY <1>4, <1>7, <1>8, <1>10 DEF CrossedOnce
<1>26. CrossedKnown(r2, q2, z, w, s, t)
  BY <1>4, <1>7, <1>8, <1>10 DEF CrossedKnown
<1>27. OneCandidate(r2)
  BY <1>4 DEF OneCandidate
<1>28. NoticedUnacked(q2, s)
  BY <1>8, ShortenedKeeps
<1>29. CandidatesTold(r2, z, w, t)
  BY <1>4 DEF CandidatesTold
<1>30. PartnersMeet(r2, q2, z, w, s, t)
  BY <1>4, <1>5 DEF PartnersMeet, PopsNoticed
<1>31. LatestFollows(r2, q2, z, s)
  <2>1. LatestFollows(r, q2, z, s)
    BY <1>8, ShortenedKeeps
  <2> QED BY <2>1, <1>9 DEF LatestFollows
<1>32. MappingsFollow(r2, q2, z, s)
  <2>1. MappingsFollow(r, q2, z, s)
    BY <1>8, ShortenedKeeps
  <2> QED BY <2>1, <1>9 DEF MappingsFollow
<1>33. NewerDescribed(r2, q2, z, s)
  <2>1. ~is_mapped(r2[i].fsm)
    BY DEF is_mapped
  <2> QED BY <2>1, <1>4 DEF NewerDescribed, PopsNoticed
<1>34. NewerFirst(r2, q2, s)
  <2>1. \A p \in Places(q) : \A k : Describes(q, s, p, k)
            => p \in Places(q2) /\ Describes(q2, s, p, k)
    BY DEF PopsNoticed, Shortened
  <2>2. \A p \in Places(q2) : p \in Places(q) /\ q2[p] = q[p]
    BY <1>8 DEF Shortened
  <2> QED BY <2>1, <2>2, <1>4 DEF NewerFirst
<1>35. RepliesInOrder(r2, q2, w, s, t)
  <2>1. \A p \in Places(q2), m \in Places(q) : p < m => m \in Places(q2)
    BY <1>8, ShortenedAfter
  <2>2. \A p \in Places(q2) : \A k : p \in Places(q)
           /\ (Replies(q2, s, p, k) <=> Replies(q, s, p, k))
    BY <1>8 DEF Shortened
  <2> QED BY <2>1, <2>2, <1>4 DEF RepliesInOrder
<1>36. RemovalsInOrder(r2, q2, z, w, s, t)
  <2>1. \A p \in Places(q2) : \A k :
            /\ p \in Places(q)
            /\ Replies(q2, s, p, k) <=> Replies(q, s, p, k)
            /\ Removes(q2, s, p, k) <=> Removes(q, s, p, k)
    BY <1>8 DEF Shortened
  <2>2. \A l \in DOMAIN z : l # NoId
    BY DEF Typed
  <2> QED BY <2>1, <2>2, <1>4, <1>5, <1>10 DEF RemovalsInOrder
<1>37. Typed(z)
  OBVIOUS
<1>38. Queue(w)
  OBVIOUS
<1>39. Fit(z)
  OBVIOUS
<1>40. OneVisible(z)
  OBVIOUS
<1>41. DescriptionsPending(z, w, q2, t, s)
  BY <1>8 DEF DescriptionsPending, Shortened
<1>42. RepliesPending(z, w, t)
  OBVIOUS
<1>43. ReplyComing(z, w, q2, t, s)
  BY DEF ReplyComing, PopsNoticed
<1>44. Once(z, w, q2, t, s)
  BY <1>8, ShortenedKeeps
<1>45. Unknown(z, w, r2, q2, t, s)
  <2>1. \A k, p : p \in Places(q2) /\ Describes(q2, s, p, k)
            => p \in Places(q) /\ Describes(q, s, p, k)
    BY <1>8 DEF Shortened
  <2>2. \A p, k, l : p \in Places(q2) /\ Maps(q2, s, p, k, l)
            => p \in Places(q) /\ Maps(q, s, p, k, l)
    BY <1>8 DEF Shortened
  <2>3. \A k \in DOMAIN z : k # NoId
    BY DEF Typed
  <2> QED BY <2>1, <2>2, <2>3, <1>4, <1>10 DEF Unknown
<1>46. RepliesFirst(z, w, t)
  OBVIOUS
<1>47. AddresseesLive(z, w, t)
  OBVIOUS
<1>48. PartnersLive(z, r2, q2, s)
  BY <1>4, <1>5 DEF PartnersLive
<1>49. Mutual(z, w, r2, q2, t, s)
  BY <1>4, <1>5 DEF Mutual
<1>50. Counted(z, w, r2, q2, t, s)
  BY <1>6, <1>7 DEF Counted
<1>51. CrossedOnce(z, w, r2, q2, t, s)
  BY <1>7 DEF CrossedOnce
<1>52. CrossedKnown(z, w, r2, q2, t, s)
  <2>1. ~Retired(r2[i])
    BY <1>1, <1>4
  <2> QED BY <2>1, <1>1, <1>4, <1>7, <1>10 DEF CrossedKnown
<1>53. OneCandidate(z)
  OBVIOUS
<1>54. NoticedUnacked(w, t)
  OBVIOUS
<1>55. CandidatesTold(z, r2, q2, s)
  BY <1>4 DEF CandidatesTold, PopsNoticed
<1>56. PartnersMeet(z, w, r2, q2, t, s)
  BY <1>4 DEF PartnersMeet, PopsNoticed
<1>57. LatestFollows(z, w, r2, t)
  BY <1>4 DEF LatestFollows
<1>58. MappingsFollow(z, w, r2, t)
  BY <1>4 DEF MappingsFollow
<1>59. NewerDescribed(z, w, r2, t)
  BY <1>4 DEF NewerDescribed
<1>60. NewerFirst(z, w, t)
  OBVIOUS
<1>61. RepliesInOrder(z, w, q2, t, s)
  BY DEF RepliesInOrder, PopsNoticed
<1>62. RemovalsInOrder(z, w, r2, q2, t, s)
  <2>1. \A l : HasMapping(q2, s, i, l) => FALSE
    BY <1>3 DEF PopsNoticed
  <2>2. \A k, l : HasMapping(q2, s, k, l) => HasMapping(q, s, k, l)
    BY DEF PopsNoticed
  <2> QED BY <2>1, <2>2, <1>4, <1>5 DEF RemovalsInOrder
<1> QED BY <1>11, <1>12, <1>13, <1>14, <1>15, <1>16, <1>17, <1>18, <1>19, <1>20, <1>21, <1>22,
           <1>23, <1>24, <1>25, <1>26, <1>27, <1>28, <1>29, <1>30, <1>31, <1>32, <1>33, <1>34,
           <1>35, <1>36, <1>37, <1>38, <1>39, <1>40, <1>41, <1>42, <1>43, <1>44, <1>45, <1>46,
           <1>47, <1>48, <1>49, <1>50, <1>51, <1>52, <1>53, <1>54, <1>55, <1>56, <1>57, <1>58,
           <1>59, <1>60, <1>61, <1>62

\* A removal that is to be skipped is received.
LEMMA SkipKeeps ==
    ASSUME NEW r, NEW q, NEW z, NEW w, NEW s, NEW t, Pair(r, q, z, w, s, t),
           NEW r2, NEW q2, NEW h, NEW i,
           PopsRemoved(q, q2, h, s, i),
           r[i].fsm.skip > 0,
           DOMAIN r2 = DOMAIN r,
           \A k \in DOMAIN r \ {i} : r2[k] = r[k],
           r2[i].identifier = r[i].identifier,
           r2[i].hidden <=> r[i].hidden,
           r2[i].fsm.state = r[i].fsm.state,
           r2[i].fsm.mapped = r[i].fsm.mapped,
           r2[i].fsm.skip = r[i].fsm.skip - 1
    PROVE  Pair(r2, q2, z, w, s, t)
<1> USE DEF Pair, End, Replied, Linked, Ordered, NoId
<1>1. i \in DOMAIN r /\ r[i].fsm.skip \in Nat /\ r2[i].fsm.skip \in Nat
  BY DEF AddresseesLive, PopsRemoved, Shortened, Typed
<1>2. \A k \in DOMAIN r : k # i => r2[k] = r[k]
  OBVIOUS
<1>3. \A k \in DOMAIN r : r2[k].fsm.state = r[k].fsm.state /\ r2[k].fsm.mapped = r[k].fsm.mapped
  OBVIOUS
<1>4. /\ \A k \in DOMAIN r : r2[k].identifier = r[k].identifier /\ (~r2[k].hidden <=> ~r[k].hidden)
      /\ \A k \in DOMAIN r : Unconfirmed(r2[k]) <=> Unconfirmed(r[k])
      /\ \A k \in DOMAIN r : Retired(r2[k]) <=> Retired(r[k])
  BY <1>3 DEF Retired, Unconfirmed
<1>5. /\ \A k, l : Holds(r2, q2, s, k, l) <=> Holds(r, q, s, k, l)
      /\ \A k \in DOMAIN r : \A l : Acker(r2, q2, s, k, l) <=> Acker(r, q, s, k, l)
      /\ \A k \in DOMAIN r : Holdings(r2, q2, s, k) = Holdings(r, q, s, k)
  BY <1>3 DEF Holds, Acker, Holdings, PopsRemoved
<1>6. \A k : Owing(r2, q2, s, k) = Owing(r, q, s, k)
  BY <1>4, <1>5 DEF Owing
<1>7. /\ \A k \in DOMAIN r : AckedLate(r2, q2, z, w, s, t, k) <=> AckedLate(r, q, z, w, s, t, k)
      /\ \A k \in DOMAIN r : AckedEarly(r2, q2, s, k) <=> AckedEarly(r, q, s, k)
      /\ \A k \in DOMAIN z : AckedLate(z, w, r2, q2, t, s, k) <=> AckedLate(z, w, r, q, t, s, k)
  <2>1. \A k : Removals(q2, s, k) \in Nat
    BY RemovalsCount DEF PopsRemoved, Shortened
  <2>2. \A k \in DOMAIN r : Crossed(r2, q2, z, w, s, t, k) <=> Crossed(r, q, z, w, s, t, k)
    BY <1>3 DEF Crossed
  <2>3. \A k \in DOMAIN z : Crossed(z, w, r2, q2, t, s, k) <=> Crossed(z, w, r, q, t, s, k)
    BY <1>3, <1>4 DEF Crossed, PopsRemoved
  <2>4. \A k \in DOMAIN r : Holdings(r, q, s, k) \in Nat
    BY DEF Holdings
  <2>5. \A k \in DOMAIN r : AckedEarly(r2, q2, s, k) <=> AckedEarly(r, q, s, k)
    BY <2>1, <2>4, <1>1, <1>2, <1>5 DEF AckedEarly, PopsRemoved
  <2>6. \A k \in DOMAIN r : (Removals(q2, s, k) = r2[k].fsm.skip + Holdings(r2, q2, s, k))
                             <=> (Removals(q, s, k) = r[k].fsm.skip + Holdings(r, q, s, k))
    BY <2>1, <2>4, <1>1, <1>2, <1>5 DEF PopsRemoved
  <2>7. \A k \in DOMAIN r : AckedLate(r2, q2, z, w, s, t, k) <=> AckedLate(r, q, z, w, s, t, k)
    BY <2>2, <2>6, <1>3, <1>4 DEF AckedLate
  <2>8. \A k \in DOMAIN z : AckedLate(z, w, r2, q2, t, s, k) <=> AckedLate(z, w, r, q, t, s, k)
    BY <2>3 DEF AckedLate
  <2> QED BY <2>5, <2>7, <2>8
<1>8. Shortened(q, q2, h, s)
  BY DEF PopsRemoved
<1>9. \A p \in Places(q2) : \A x, l : Marks(r2, q2, s, p, x, l) <=> Marks(r, q2, s, p, x, l)
  BY <1>4, <1>8 DEF Marks, AddresseesLive, Shortened
<1>10. \A k : Acked(q2, s, k) <=> Acked(q, s, k)
  BY DEF PopsRemoved
<1>11. Typed(r2)
  BY <1>1, <1>2, <1>3 DEF Typed
<1>12. Queue(q2)
  BY <1>8 DEF Shortened
<1>13. Fit(r2)
  BY <1>3, <1>4 DEF Fit, is_mapped, destroyed
<1>14. OneVisible(r2)
  BY <1>4 DEF OneVisible
<1>15. DescriptionsPending(r2, q2, w, s, t)
  BY <1>4 DEF DescriptionsPending, PopsRemoved
<1>16. RepliesPending(r2, q2, s)
  <2>1. RepliesPending(r, q2, s)
    BY <1>8, ShortenedKeeps
  <2> QED BY <2>1, <1>4 DEF RepliesPending
<1>17. ReplyComing(r2, q2, w, s, t)
  BY <1>4 DEF ReplyComing, PopsRemoved
<1>18. Once(r2, q2, w, s, t)
  <2>1. Once(r, q2, w, s, t)
    BY <1>8, ShortenedKeeps
  <2> QED BY <2>1 DEF Once
<1>19. Unknown(r2, q2, z, w, s, t)
  <2>1. Unknown(r, q2, z, w, s, t)
    BY <1>8, ShortenedKeeps
  <2> QED BY <2>1 DEF Unknown
<1>20. RepliesFirst(r2, q2, s)
  <2>1. RepliesFirst(r, q2, s)
    BY <1>8, ShortenedKeeps
  <2> QED BY <2>1 DEF RepliesFirst
<1>21. AddresseesLive(r2, q2, s)
  BY <1>8 DEF AddresseesLive, Shortened
<1>22. PartnersLive(r2, z, w, t)
  BY <1>4 DEF PartnersLive
<1>23. Mutual(r2, q2, z, w, s, t)
  BY <1>4, <1>5, <1>10 DEF Mutual
<1>24. Counted(r2, q2, z, w, s, t)
  <2>1. ASSUME NEW k \in DOMAIN r, ~Acked(q, s, k)
        PROVE  Removals(q2, s, k) + Cardinality(Owing(z, w, t, k))
                   = r2[k].fsm.skip + Holdings(r2, q2, s, k)
    <3>1. Removals(q, s, k) + Cardinality(Owing(z, w, t, k)) = r[k].fsm.skip + Holdings(r, q, s, k)
      BY <2>1 DEF Counted
    <3>2. Removals(q2, s, k) \in Nat /\ Cardinality(Owing(z, w, t, k)) \in Nat
             /\ Holdings(r, q, s, k) \in Nat
      <4>1. IsFiniteSet(Owing(z, w, t, k))
        BY FS_Subset DEF Owing, Typed
      <4>2. Cardinality(Owing(z, w, t, k)) \in Nat
        BY <4>1, FS_CardinalityType
      <4>3. Removals(q2, s, k) \in Nat
        BY <1>8, RemovalsCount DEF Shortened
      <4>4. Holdings(r, q, s, k) \in Nat
        BY DEF Holdings
      <4> QED BY <4>2, <4>3, <4>4
    <3> QED BY <2>1, <3>1, <3>2, <1>1, <1>2, <1>5 DEF PopsRemoved
  <2> QED BY <2>1, <1>3, <1>7, <1>8, <1>10 DEF Counted, Shortened
<1>25. CrossedOnce(r2, q2, z, w, s, t)
  BY <1>3, <1>7, <1>10 DEF CrossedOnce
<1>26. CrossedKnown(r2, q2, z, w, s, t)
  BY <1>3, <1>7, <1>10 DEF CrossedKnown
<1>27. OneCandidate(r2)
  BY <1>3, <1>4 DEF OneCandidate
<1>28. NoticedUnacked(q2, s)
  BY <1>8, ShortenedKeeps
<1>29. CandidatesTold(r2, z, w, t)
  BY <1>3, <1>4 DEF CandidatesTold
<1>30. PartnersMeet(r2, q2, z, w, s, t)
  BY <1>4, <1>5 DEF PartnersMeet, PopsRemoved
<1>31. LatestFollows(r2, q2, z, s)
  <2>1. LatestFollows(r, q2, z, s)
    BY <1>8, ShortenedKeeps
  <2> QED BY <2>1, <1>9 DEF LatestFollows
<1>32. MappingsFollow(r2, q2, z, s)
  <2>1. MappingsFollow(r, q2, z, s)
    BY <1>8, ShortenedKeeps
  <2> QED BY <2>1, <1>9 DEF MappingsFollow
<1>33. NewerDescribed(r2, q2, z, s)
  BY <1>3, <1>4 DEF NewerDescribed, is_mapped, PopsRemoved
<1>34. NewerFirst(r2, q2, s)
  <2>1. \A p \in Places(q) : \A k : Describes(q, s, p, k)
            => p \in Places(q2) /\ Describes(q2, s, p, k)
    BY DEF PopsRemoved, Shortened
  <2>2. \A p \in Places(q2) : p \in Places(q) /\ q2[p] = q[p]
    BY <1>8 DEF Shortened
  <2> QED BY <2>1, <2>2, <1>3 DEF NewerFirst
<1>35. RepliesInOrder(r2, q2, w, s, t)
  <2>1. \A p \in Places(q2), m \in Places(q) : p < m => m \in Places(q2)
    BY <1>8, ShortenedAfter
  <2>2. \A p \in Places(q2) : \A k : p \in Places(q)
           /\ (Replies(q2, s, p, k) <=> Replies(q, s, p, k))
    BY <1>8 DEF Shortened
  <2> QED BY <2>1, <2>2, <1>4 DEF RepliesInOrder
<1>36. RemovalsInOrder(r2, q2, z, w, s, t)
  <2>1. \A p \in Places(q2) : \A k :
            /\ p \in Places(q)
            /\ Replies(q2, s, p, k) <=> Replies(q, s, p, k)
            /\ Removes(q2, s, p, k) <=> Removes(q, s, p, k)
    BY <1>8 DEF Shortened
  <2> QED BY <2>1, <1>4, <1>5, <1>10 DEF RemovalsInOrder
<1>37. Typed(z)
  OBVIOUS
<1>38. Queue(w)
  OBVIOUS
<1>39. Fit(z)
  OBVIOUS
<1>40. OneVisible(z)
  OBVIOUS
<1>41. DescriptionsPending(z, w, q2, t, s)
  BY <1>8 DEF DescriptionsPending, Shortened
<1>42. RepliesPending(z, w, t)
  OBVIOUS
<1>43. ReplyComing(z, w, q2, t, s)
  BY DEF ReplyComing, PopsRemoved
<1>44. Once(z, w, q2, t, s)
  BY <1>8, ShortenedKeeps
<1>45. Unknown(z, w, r2, q2, t, s)
  <2>1. \A k, p : p \in Places(q2) /\ Describes(q2, s, p, k)
            => p \in Places(q) /\ Describes(q, s, p, k)
    BY <1>8 DEF Shortened
  <2>2. \A p, k, l : p \in Places(q2) /\ Maps(q2, s, p, k, l)
            => p \in Places(q) /\ Maps(q, s, p, k, l)
    BY <1>8 DEF Shortened
  <2> QED BY <2>1, <2>2, <1>3, <1>4, <1>10 DEF Unknown
<1>46. RepliesFirst(z, w, t)
  OBVIOUS
<1>47. AddresseesLive(z, w, t)
  OBVIOUS
<1>48. PartnersLive(z, r2, q2, s)
  BY <1>4, <1>5 DEF PartnersLive
<1>49. Mutual(z, w, r2, q2, t, s)
  BY <1>4, <1>5 DEF Mutual
<1>50. Counted(z, w, r2, q2, t, s)
  BY <1>6, <1>7 DEF Counted
<1>51. CrossedOnce(z, w, r2, q2, t, s)
  BY <1>7 DEF CrossedOnce
<1>52. CrossedKnown(z, w, r2, q2, t, s)
  BY <1>3, <1>4, <1>7, <1>10 DEF CrossedKnown
<1>53. OneCandidate(z)
  OBVIOUS
<1>54. NoticedUnacked(w, t)
  OBVIOUS
<1>55. CandidatesTold(z, r2, q2, s)
  BY <1>4 DEF CandidatesTold, PopsRemoved
<1>56. PartnersMeet(z, w, r2, q2, t, s)
  BY <1>4 DEF PartnersMeet, PopsRemoved
<1>57. LatestFollows(z, w, r2, t)
  BY <1>4 DEF LatestFollows
<1>58. MappingsFollow(z, w, r2, t)
  BY <1>4 DEF MappingsFollow
<1>59. NewerDescribed(z, w, r2, t)
  BY <1>4 DEF NewerDescribed
<1>60. NewerFirst(z, w, t)
  OBVIOUS
<1>61. RepliesInOrder(z, w, q2, t, s)
  BY DEF RepliesInOrder, PopsRemoved
<1>62. RemovalsInOrder(z, w, r2, q2, t, s)
  <2>1. \A k, l : HasMapping(q2, s, k, l) <=> HasMapping(q, s, k, l)
    BY DEF PopsRemoved
  <2> QED BY <2>1, <1>3, <1>4, <1>5 DEF RemovalsInOrder
<1> QED BY <1>11, <1>12, <1>13, <1>14, <1>15, <1>16, <1>17, <1>18, <1>19, <1>20, <1>21, <1>22,
           <1>23, <1>24, <1>25, <1>26, <1>27, <1>28, <1>29, <1>30, <1>31, <1>32, <1>33, <1>34,
           <1>35, <1>36, <1>37, <1>38, <1>39, <1>40, <1>41, <1>42, <1>43, <1>44, <1>45, <1>46,
           <1>47, <1>48, <1>49, <1>50, <1>51, <1>52, <1>53, <1>54, <1>55, <1>56, <1>57, <1>58,
           <1>59, <1>60, <1>61, <1>62

\* The removal that ends what the element is mapped to is received and acknowledged.
LEMMA GiveKeeps ==
    ASSUME NEW r, NEW q, NEW z, NEW w, NEW s, NEW t, Pair(r, q, z, w, s, t),
           NEW r2, NEW q2, NEW w2, NEW h, NEW n, NEW i, NEW j,
           SkipsFit(z),
           PopsRemoved(q, q2, h, s, i),
           PushesRemovedAck(w, w2, n, t, j),
           \/ r[i].fsm.state = "MAPPED_CONFIRMED" /\ r2[i].fsm.state = "UNUSED_CONFIRMED"
           \/ r[i].fsm.state = "AWAIT_ACK" /\ r2[i].fsm.state = "AWAIT_ACK",
           r[i].fsm.skip = 0,
           j = r[i].fsm.mapped,
           j # NoId,
           DOMAIN r2 = DOMAIN r,
           \A k \in DOMAIN r \ {i} : r2[k] = r[k],
           r2[i].identifier = r[i].identifier,
           r2[i].hidden <=> r[i].hidden,
           r2[i].fsm.skip = 0,
           r2[i].fsm.mapped = NoId
    PROVE  Pair(r2, q2, z, w2, s, t)
<1> USE DEF Pair, End, Replied, Linked, Ordered, NoId
<1>1. /\ i \in DOMAIN r /\ i # NoId /\ j \in DOMAIN z /\ j \in Nat
      /\ Retired(z[j]) /\ ~Unconfirmed(z[j]) /\ ~Acked(w, t, j)
  BY RemovalAnswered DEF Retired, Unconfirmed, Typed
<1>2. Removals(q2, s, i) = 0 /\ Owing(z, w, t, i) = {}
  BY RemovalAnswered
<1>3. /\ ~HasReply(q, s, i) /\ \A l : ~HasMapping(q, s, i, l)
      /\ ~HasReply(w, t, j) /\ \A l : ~HasMapping(w, t, j, l)
      /\ ~HasDescription(q, s, j)
  BY RemovalAnswered
<1>4. /\ Acked(q, s, i) => Retired(r[i]) /\ z[j].fsm.mapped = NoId /\ AckedLate(r, q, z, w, s, t, i)
      /\ ~Acked(q, s, i) => z[j].fsm.mapped = i /\ z[j].identifier = r[i].identifier
  BY RemovalAnswered
<1>5. /\ Retired(r[i]) => Owing(r, q, s, j) = {}
      /\ ~Retired(r[i]) => Owing(r, q, s, j) = {i}
  BY RemovalAnswered
<1>6. /\ Shortened(q, q2, h, s) /\ Extended(w, w2, n, t) /\ w2[n].type = "RemovedAck"
      /\ \A k : Acked(q2, s, k) <=> Acked(q, s, k)
      /\ \A k : Acked(w2, t, k) <=> Acked(w, t, k) \/ k = j
  BY DEF PopsRemoved, PushesRemovedAck
<1>7. /\ \A k \in DOMAIN r : k # i => r2[k] = r[k]
      /\ \A k \in DOMAIN r : r2[k].identifier = r[k].identifier /\ (~r2[k].hidden <=> ~r[k].hidden)
      /\ \A k \in DOMAIN r : Unconfirmed(r2[k]) <=> Unconfirmed(r[k])
      /\ \A k \in DOMAIN r : Retired(r2[k]) <=> Retired(r[k])
      /\ ~Unconfirmed(r[i])
  BY DEF Retired, Unconfirmed
<1>8. /\ \A k, l : Holds(r2, q2, s, k, l) <=> Holds(r, q, s, k, l) /\ k # i
      /\ \A l : Holds(r, q, s, i, l) <=> l = j
      /\ \A k \in DOMAIN r : \A l : k # i => (Acker(r2, q2, s, k, l) <=> Acker(r, q, s, k, l))
      /\ \A k \in DOMAIN r : k # i => Holdings(r2, q2, s, k) = Holdings(r, q, s, k)
      /\ Holdings(r2, q2, s, i) = 0
  BY <1>1, <1>3, <1>7 DEF Holds, Acker, Holdings, PopsRemoved
<1>9. /\ \A k, l : Holds(z, w2, t, k, l) <=> Holds(z, w, t, k, l)
      /\ \A k, l : Acker(z, w2, t, k, l) <=> Acker(z, w, t, k, l)
      /\ \A k : Holdings(z, w2, t, k) = Holdings(z, w, t, k)
      /\ \A k : Owing(z, w2, t, k) = Owing(z, w, t, k)
  BY DEF Holds, Acker, Holdings, Owing, PushesRemovedAck
<1>10. /\ \A k : k # j => Owing(r2, q2, s, k) = Owing(r, q, s, k)
       /\ Owing(r2, q2, s, j) = {}
  <2>1. \A k : Owing(r2, q2, s, k) = Owing(r, q, s, k) \ {i}
    BY <1>7, <1>8 DEF Owing
  <2>2. \A k : k # j => i \notin Owing(r, q, s, k)
    BY <1>8 DEF Owing
  <2>3. \A k : k # j => Owing(r2, q2, s, k) = Owing(r, q, s, k)
    BY <2>1, <2>2
  <2>4. \A k \in Owing(r, q, s, j) : k = i
    BY <1>5
  <2>5. Owing(r2, q2, s, j) = {}
    BY <2>1, <2>4
  <2> QED BY <2>3, <2>5
<1>11. /\ \A k : Removals(w2, t, k) = Removals(w, t, k) /\ Removals(w, t, k) \in Nat
       /\ \A k \in DOMAIN r : k # i => (AckedEarly(r2, q2, s, k) <=> AckedEarly(r, q, s, k))
       /\ \A k \in DOMAIN z : AckedEarly(z, w2, t, k) <=> AckedEarly(z, w, t, k)
  <2>1. \A k : Removals(w2, t, k) = Removals(w, t, k) /\ Removals(w, t, k) \in Nat
    BY RemovalsCount DEF PushesRemovedAck
  <2>2. \A k : k # i => Removals(q2, s, k) = Removals(q, s, k)
    BY DEF PopsRemoved
  <2> QED BY <2>1, <2>2, <1>7, <1>8, <1>9 DEF AckedEarly
<1>12. \A k \in DOMAIN r : k # i /\ Acked(q, s, k) =>
           (AckedLate(r2, q2, z, w2, s, t, k) <=> AckedLate(r, q, z, w, s, t, k))
  <2>1. SUFFICES ASSUME NEW k \in DOMAIN r, k # i, Acked(q, s, k)
                 PROVE  AckedLate(r2, q2, z, w2, s, t, k) <=> AckedLate(r, q, z, w, s, t, k)
    OBVIOUS
  <2>2. /\ r2[k] = r[k] /\ Holdings(r2, q2, s, k) = Holdings(r, q, s, k)
        /\ Removals(q2, s, k) = Removals(q, s, k)
    BY <2>1, <1>7, <1>8 DEF PopsRemoved
  <2>3. CASE r[k].fsm.mapped # j
    <3>1. Crossed(r2, q2, z, w2, s, t, k) <=> Crossed(r, q, z, w, s, t, k)
      BY <2>2, <2>3, <1>6 DEF Crossed
    <3> QED BY <3>1, <2>2 DEF AckedLate
  <2>4. CASE r[k].fsm.mapped = j
    <3>1. ~Crossed(r2, q2, z, w2, s, t, k)
      BY <2>2, <2>4, <1>6 DEF Crossed
    <3>2. ~AckedLate(r, q, z, w, s, t, k)
      <4>1. Crossed(r, q, z, w, s, t, k) => Acked(q, s, i)
        BY <2>4, <1>1, <1>4 DEF Crossed
      <4> QED BY <2>1, <2>4, <4>1, <1>1, <1>4 DEF CrossedOnce, AckedLate
    <3> QED BY <2>2, <2>4, <3>1, <3>2 DEF AckedLate
  <2> QED BY <2>3, <2>4
<1>13. \A k \in DOMAIN z : k # j /\ Acked(w, t, k) =>
           (AckedLate(z, w2, r2, q2, t, s, k) <=> AckedLate(z, w, r, q, t, s, k))
  <2>1. SUFFICES ASSUME NEW k \in DOMAIN z, k # j, Acked(w, t, k)
                 PROVE  AckedLate(z, w2, r2, q2, t, s, k) <=> AckedLate(z, w, r, q, t, s, k)
    OBVIOUS
  <2>2. CASE z[k].fsm.mapped # i
    <3>1. Crossed(z, w2, r2, q2, t, s, k) <=> Crossed(z, w, r, q, t, s, k)
      BY <2>2, <1>6, <1>7 DEF Crossed
    <3> QED BY <3>1, <1>9, <1>11 DEF AckedLate
  <2>3. CASE z[k].fsm.mapped = i
    <3>1. ~AckedLate(z, w, r, q, t, s, k)
      BY <2>3, <1>1 DEF AckedLate, Crossed
    <3>2. AckedEarly(z, w, t, k)
      BY <2>1, <3>1 DEF Counted
    <3>3. ~AckedLate(z, w2, r2, q2, t, s, k)
      BY <3>2, <1>9, <1>11 DEF AckedEarly, AckedLate
    <3> QED BY <3>1, <3>3
  <2> QED BY <2>2, <2>3
<1>14. /\ Retired(r[i]) => AckedLate(z, w2, r2, q2, t, s, j)
       /\ ~Retired(r[i]) => AckedEarly(z, w2, t, j) /\ ~AckedLate(z, w2, r2, q2, t, s, j)
  <2>1. Removals(w, t, j) + Cardinality(Owing(r, q, s, j)) = z[j].fsm.skip + Holdings(z, w, t, j)
    BY <1>1 DEF Counted
  <2>2. Cardinality({}) = 0 /\ Cardinality({i}) = 1
    BY FS_EmptySet, FS_Singleton
  <2>3. ASSUME Retired(r[i])
        PROVE  AckedLate(z, w2, r2, q2, t, s, j)
    <3>1. z[j].fsm.mapped # NoId => Crossed(z, w2, r2, q2, t, s, j)
      BY <2>3, <1>4, <1>1, <1>6, <1>7 DEF Crossed
    <3>2. Removals(w2, t, j) = z[j].fsm.skip + Holdings(z, w2, t, j)
      <4>1. Cardinality(Owing(r, q, s, j)) = 0
        BY <2>2, <2>3, <1>5
      <4>2. Removals(w, t, j) = z[j].fsm.skip + Holdings(z, w, t, j)
        BY <4>1, <2>1, <1>11
      <4> QED BY <4>2, <1>9, <1>11
    <3> QED BY <3>1, <3>2, <1>1 DEF AckedLate
  <2>4. ASSUME ~Retired(r[i])
        PROVE  AckedEarly(z, w2, t, j) /\ ~AckedLate(z, w2, r2, q2, t, s, j)
    <3>1. Removals(w2, t, j) + 1 = z[j].fsm.skip + Holdings(z, w2, t, j)
      BY <2>1, <2>2, <2>4, <1>5, <1>9, <1>11
    <3> QED BY <3>1, <1>11 DEF AckedEarly, AckedLate
  <2> QED BY <2>3, <2>4
<1>15. \A p \in Places(q2) : \A x, l : Marks(r2, q2, s, p, x, l) <=> Marks(r, q2, s, p, x, l)
  BY <1>6, <1>7 DEF Marks, AddresseesLive, Shortened
<1>16. Typed(r2)
  BY <1>1, <1>7 DEF Typed, States
<1>17. Queue(q2)
  BY <1>6 DEF Shortened
<1>18. Fit(r2)
  BY <1>7 DEF Fit, is_mapped, destroyed
<1>19. OneVisible(r2)
  BY <1>7 DEF OneVisible
<1>20. DescriptionsPending(r2, q2, w2, s, t)
  <2>1. \A p \in Places(w2) : w2[p].type = "Description" => p \in Places(w) /\ w[p] = w2[p]
    BY <1>6 DEF Extended
  <2> QED BY <2>1, <1>7 DEF DescriptionsPending, PopsRemoved
<1>21. RepliesPending(r2, q2, s)
  <2>1. RepliesPending(r, q2, s)
    BY <1>6, ShortenedKeeps
  <2> QED BY <2>1, <1>7 DEF RepliesPending
<1>22. ReplyComing(r2, q2, w2, s, t)
  BY <1>7 DEF ReplyComing, PopsRemoved, PushesRemovedAck
<1>23. Once(r2, q2, w2, s, t)
  <2>1. Once(r, q2, w, s, t)
    BY <1>6, ShortenedKeeps
  <2>2. Once(r, q2, w2, s, t)
    BY <2>1, <1>6, ExtendedKeeps
  <2> QED BY <2>2 DEF Once
<1>24. Unknown(r2, q2, z, w2, s, t)
  <2>1. Unknown(r, q2, z, w, s, t)
    BY <1>6, ShortenedKeeps
  <2>2. Unknown(r, q2, z, w2, s, t)
    BY <2>1, <1>6, ExtendedKeeps
  <2> QED BY <2>2 DEF Unknown
<1>25. RepliesFirst(r2, q2, s)
  <2>1. RepliesFirst(r, q2, s)
    BY <1>6, ShortenedKeeps
  <2> QED BY <2>1 DEF RepliesFirst
<1>26. AddresseesLive(r2, q2, s)
  BY <1>6 DEF AddresseesLive, Shortened
<1>27. PartnersLive(r2, z, w2, t)
  BY <1>7, <1>9 DEF PartnersLive
<1>28. Mutual(r2, q2, z, w2, s, t)
  BY <1>6, <1>7, <1>8, <1>9 DEF Mutual
<1>29. Counted(r2, q2, z, w2, s, t)
  <2>1. Removals(q2, s, i) + Cardinality(Owing(z, w2, t, i))
            = r2[i].fsm.skip + Holdings(r2, q2, s, i)
    BY <1>2, <1>8, <1>9, FS_EmptySet
  <2>2. Acked(q, s, i) => AckedLate(r2, q2, z, w2, s, t, i) /\ r2[i].fsm.state = "AWAIT_ACK"
    BY <1>2, <1>4, <1>7, <1>8 DEF AckedLate, Retired
  <2>3. \A k \in DOMAIN r : k # i => Removals(q2, s, k) = Removals(q, s, k)
    BY DEF PopsRemoved
  <2>4. \A p, m \in Places(q2) : \A k : p \in Places(q) /\ m \in Places(q)
            /\ (Acks(q2, s, p, k) <=> Acks(q, s, p, k))
                  /\ (Speaks(q2, s, m, k) <=> Speaks(q, s, m, k))
    BY <1>6 DEF Shortened
  <2>5. ASSUME NEW k \in DOMAIN r, k # i, ~Acked(q, s, k)
        PROVE  Removals(q2, s, k) + Cardinality(Owing(z, w2, t, k))
                   = r2[k].fsm.skip + Holdings(r2, q2, s, k)
    BY <2>3, <2>5, <1>7, <1>8, <1>9 DEF Counted
  <2>6. ASSUME NEW k \in DOMAIN r, k # i, Acked(q, s, k)
        PROVE  /\ r2[k].fsm.state \in {"AWAIT_CONFIRMATION", "AWAIT_ACK"}
               /\ AckedEarly(r2, q2, s, k) \/ AckedLate(r2, q2, z, w2, s, t, k)
    BY <2>6, <1>7, <1>11, <1>12 DEF Counted
  <2>7. ASSUME NEW k \in DOMAIN r, Acked(q, s, k)
        PROVE  /\ \A p, m \in Places(q2) : Acks(q2, s, p, k) /\ Speaks(q2, s, m, k) => m <= p
               /\ Owing(z, w2, t, k) = {}
    BY <2>4, <2>7, <1>9 DEF Counted
  <2> QED BY <2>1, <2>2, <2>5, <2>6, <2>7, <1>6 DEF Counted
<1>30. CrossedOnce(r2, q2, z, w2, s, t)
  BY <1>6, <1>7, <1>12 DEF CrossedOnce
<1>31. CrossedKnown(r2, q2, z, w2, s, t)
  <2>1. ASSUME NEW k \in DOMAIN z, Retired(z[k]), z[k].fsm.mapped = NoId, ~Acked(w2, t, k)
        PROVE  \E l \in DOMAIN r2 : Acked(q2, s, l) /\ r2[l].fsm.mapped = k
                  /\ AckedLate(r2, q2, z, w2, s, t, l)
    <3>1. k # j /\ ~Acked(w, t, k)
      BY <2>1, <1>6
    <3>2. PICK l \in DOMAIN r : Acked(q, s, l) /\ r[l].fsm.mapped = k
             /\ AckedLate(r, q, z, w, s, t, l)
      BY <2>1, <3>1 DEF CrossedKnown
    <3>3. l # i
      BY <3>1, <3>2
    <3> QED BY <3>2, <3>3, <1>6, <1>7, <1>12
  <2> QED BY <2>1 DEF CrossedKnown
<1>32. OneCandidate(r2)
  BY <1>7 DEF OneCandidate
<1>33. NoticedUnacked(q2, s)
  BY <1>6, ShortenedKeeps
<1>34. CandidatesTold(r2, z, w2, t)
  BY <1>7 DEF CandidatesTold, PushesRemovedAck
<1>35. PartnersMeet(r2, q2, z, w2, s, t)
  <2>1. z[j].hidden
    BY <1>1 DEF Fit, destroyed, Retired
  <2> QED BY <2>1, <1>7, <1>8 DEF PartnersMeet, PopsRemoved, PushesRemovedAck
<1>36. LatestFollows(r2, q2, z, s)
  <2>1. LatestFollows(r, q2, z, s)
    BY <1>6, ShortenedKeeps
  <2> QED BY <2>1, <1>15 DEF LatestFollows
<1>37. MappingsFollow(r2, q2, z, s)
  <2>1. MappingsFollow(r, q2, z, s)
    BY <1>6, ShortenedKeeps
  <2> QED BY <2>1, <1>15 DEF MappingsFollow
<1>38. NewerDescribed(r2, q2, z, s)
  <2>1. ~is_mapped(r2[i].fsm)
    BY DEF is_mapped
  <2> QED BY <2>1, <1>7 DEF NewerDescribed, PopsRemoved
<1>39. NewerFirst(r2, q2, s)
  <2>1. \A p \in Places(q) : \A k : Describes(q, s, p, k)
            => p \in Places(q2) /\ Describes(q2, s, p, k)
    BY DEF PopsRemoved, Shortened
  <2>2. \A p \in Places(q2) : p \in Places(q) /\ q2[p] = q[p]
    BY <1>6 DEF Shortened
  <2> QED BY <2>1, <2>2, <1>7 DEF NewerFirst
<1>40. RepliesInOrder(r2, q2, w2, s, t)
  <2>1. \A p \in Places(q2), m \in Places(q) : p < m => m \in Places(q2)
    BY <1>6, ShortenedAfter
  <2>2. \A p \in Places(q2) : \A k : p \in Places(q)
           /\ (Replies(q2, s, p, k) <=> Replies(q, s, p, k))
    BY <1>6 DEF Shortened
  <2>3. \A k : HasDescription(w2, t, k) <=> HasDescription(w, t, k)
    BY DEF PushesRemovedAck
  <2> QED BY <2>1, <2>2, <2>3, <1>7 DEF RepliesInOrder
<1>41. RemovalsInOrder(r2, q2, z, w2, s, t)
  <2>1. \A k, l : HasMapping(w2, t, k, l) <=> HasMapping(w, t, k, l)
    BY DEF PushesRemovedAck
  <2>2. \A p \in Places(q2) : \A k :
            /\ p \in Places(q)
            /\ Replies(q2, s, p, k) <=> Replies(q, s, p, k)
            /\ Removes(q2, s, p, k) <=> Removes(q, s, p, k)
    BY <1>6 DEF Shortened
  <2> QED BY <2>1, <2>2, <1>6, <1>7, <1>8, <1>9 DEF RemovalsInOrder
<1>42. Typed(z)
  OBVIOUS
<1>43. Queue(w2)
  BY <1>6 DEF Extended
<1>44. Fit(z)
  OBVIOUS
<1>45. OneVisible(z)
  OBVIOUS
<1>46. DescriptionsPending(z, w2, q2, t, s)
  BY <1>6 DEF DescriptionsPending, PushesRemovedAck, Shortened
<1>47. RepliesPending(z, w2, t)
  BY <1>6, ExtendedKeeps
<1>48. ReplyComing(z, w2, q2, t, s)
  BY DEF ReplyComing, PopsRemoved, PushesRemovedAck
<1>49. Once(z, w2, q2, t, s)
  <2>1. Once(z, w, q2, t, s)
    BY <1>6, ShortenedKeeps
  <2> QED BY <2>1, <1>6, ExtendedKeeps
<1>50. Unknown(z, w2, r2, q2, t, s)
  <2>1. \A k, p : p \in Places(q2) /\ Describes(q2, s, p, k)
            => k # j /\ p \in Places(q) /\ Describes(q, s, p, k)
    BY <1>3, <1>6 DEF HasDescription, Shortened
  <2>2. \A k, p : p \in Places(w2) /\ Speaks(w2, t, p, k)
            => k = j \/ (p \in Places(w) /\ Speaks(w, t, p, k))
    BY DEF PushesRemovedAck, Extended
  <2>3. \A p, k, l : p \in Places(q2) /\ Maps(q2, s, p, k, l)
            => p \in Places(q) /\ Maps(q, s, p, k, l)
    BY <1>6 DEF Shortened
  <2>4. \A k \in DOMAIN z : k # NoId
    BY DEF Typed
  <2> QED BY <2>1, <2>2, <2>3, <2>4, <1>6, <1>7 DEF Unknown
<1>51. RepliesFirst(z, w2, t)
  BY <1>6, ExtendedKeeps
<1>52. AddresseesLive(z, w2, t)
  BY <1>1 DEF AddresseesLive, PushesRemovedAck, Extended
<1>53. PartnersLive(z, r2, q2, s)
  BY <1>7, <1>8 DEF PartnersLive
<1>54. Mutual(z, w2, r2, q2, t, s)
  <2>1. \A l : Holds(z, w, t, j, l) => l = i /\ Acker(z, w, t, j, i)
    BY <1>1, <1>3, <1>4 DEF Holds, Acker
  <2> QED BY <2>1, <1>1, <1>6, <1>7, <1>8, <1>9 DEF Mutual
<1>55. Counted(z, w2, r2, q2, t, s)
  <2>1. ASSUME NEW k \in DOMAIN z, k # j
        PROVE  /\ Acked(w2, t, k) <=> Acked(w, t, k)
               /\ Removals(w2, t, k) = Removals(w, t, k)
               /\ Owing(r2, q2, s, k) = Owing(r, q, s, k)
               /\ Holdings(z, w2, t, k) = Holdings(z, w, t, k)
               /\ \A p \in Places(w2) : Acks(w2, t, p, k) \/ Speaks(w2, t, p, k) => p \in Places(w)
    BY <2>1, <1>9, <1>10 DEF PushesRemovedAck, Extended
  <2>2. \A p, k \in Places(w2) : Acks(w2, t, p, j) /\ Speaks(w2, t, k, j) => k <= p
    BY <1>1 DEF Acked, PushesRemovedAck, Extended
  <2>3. Acked(w2, t, j) /\ z[j].fsm.state \in {"AWAIT_CONFIRMATION", "AWAIT_ACK"}
    BY <1>1 DEF PushesRemovedAck, Retired
  <2> QED BY <2>1, <2>2, <2>3, <1>6, <1>10, <1>11, <1>13, <1>14 DEF Counted, Extended
<1>56. CrossedOnce(z, w2, r2, q2, t, s)
  <2>1. ASSUME NEW k \in DOMAIN z, k # j, Acked(w, t, k), AckedLate(z, w, r, q, t, s, k),
               z[k].fsm.mapped = z[j].fsm.mapped, z[j].fsm.mapped # NoId
        PROVE  FALSE
    <3>1. z[k].fsm.mapped = i
      BY <2>1, <1>4
    <3> QED BY <2>1, <3>1, <1>1 DEF AckedLate, Crossed
  <2> QED BY <2>1, <1>6, <1>13 DEF CrossedOnce
<1>57. CrossedKnown(z, w2, r2, q2, t, s)
  <2>1. ASSUME NEW k \in DOMAIN r, Retired(r2[k]), r2[k].fsm.mapped = NoId, ~Acked(q2, s, k)
        PROVE  \E l \in DOMAIN z : Acked(w2, t, l) /\ z[l].fsm.mapped = k
                  /\ AckedLate(z, w2, r2, q2, t, s, l)
    <3>1. CASE k = i
      <4>1. Retired(r[i]) /\ z[j].fsm.mapped = i
        BY <2>1, <3>1, <1>4, <1>6, <1>7
      <4> QED BY <3>1, <4>1, <1>1, <1>6, <1>14
    <3>2. CASE k # i
      <4>1. Retired(r[k]) /\ r[k].fsm.mapped = NoId /\ ~Acked(q, s, k)
        BY <2>1, <3>2, <1>6, <1>7
      <4>2. PICK l \in DOMAIN z : Acked(w, t, l) /\ z[l].fsm.mapped = k
               /\ AckedLate(z, w, r, q, t, s, l)
        BY <4>1 DEF CrossedKnown
      <4>3. l # j
        BY <4>2, <1>1
      <4> QED BY <4>2, <4>3, <1>6, <1>13
    <3> QED BY <3>1, <3>2
  <2> QED BY <2>1 DEF CrossedKnown
<1>58. OneCandidate(z)
  OBVIOUS
<1>59. NoticedUnacked(w2, t)
  <2>1. \A p \in Places(w) : ~(w[p].type = "Noticed" /\ w[p].to = t /\ w[p].id = j)
    BY <1>3 DEF HasReply, Replies
  <2> QED BY <2>1, <1>6 DEF NoticedUnacked, Extended
<1>60. CandidatesTold(z, r2, q2, s)
  BY <1>7 DEF CandidatesTold, PopsRemoved
<1>61. PartnersMeet(z, w2, r2, q2, t, s)
  BY <1>7, <1>9 DEF PartnersMeet, PopsRemoved, PushesRemovedAck
<1>62. LatestFollows(z, w2, r2, t)
  <2>1. LatestFollows(z, w2, r, t)
    BY <1>6, ExtendedKeeps
  <2> QED BY <2>1, <1>7 DEF LatestFollows
<1>63. MappingsFollow(z, w2, r2, t)
  <2>1. MappingsFollow(z, w2, r, t)
    BY <1>6, ExtendedKeeps
  <2> QED BY <2>1, <1>7 DEF MappingsFollow
<1>64. NewerDescribed(z, w2, r2, t)
  BY <1>7 DEF NewerDescribed, PushesRemovedAck
<1>65. NewerFirst(z, w2, t)
  BY <1>6, ExtendedKeeps
<1>66. RepliesInOrder(z, w2, q2, t, s)
  <2>1. \A p \in Places(w2) : \A k : Replies(w2, t, p, k) => p \in Places(w) /\ Replies(w, t, p, k)
    BY DEF PushesRemovedAck, Extended
  <2>2. \A p \in Places(w) : \A k : Replies(w, t, p, k) => p \in Places(w2) /\ Replies(w2, t, p, k)
    BY DEF PushesRemovedAck, Extended
  <2>3. \A k : HasDescription(q, s, k) => HasDescription(q2, s, k)
    BY DEF PopsRemoved
  <2> QED BY <2>1, <2>2, <2>3 DEF RepliesInOrder
<1>67. RemovalsInOrder(z, w2, r2, q2, t, s)
  <2>1. ASSUME NEW a \in DOMAIN z, NEW k \in DOMAIN z, NEW l \in DOMAIN r,
               NEW p \in Places(w2), NEW m \in Places(w2),
               a # k, Holds(r2, q2, s, l, a), Unconfirmed(z[k]),
               \/ Acked(w2, t, k) /\ Acker(z, w2, t, k, l)
               \/ Holds(z, w2, t, k, l) /\ r2[l].fsm.mapped = k /\ HasMapping(q2, s, l, a),
               Removes(w2, t, p, a), Replies(w2, t, m, k)
        PROVE  m < p
    <3>1. m \in Places(w) /\ Replies(w, t, m, k) /\ p \in Places(w) /\ Removes(w, t, p, a)
      BY <2>1 DEF PushesRemovedAck, Extended
    <3>2. Holds(r, q, s, l, a) /\ k # j /\ l # i
      BY <2>1, <1>1, <1>8
    <3>3. HasMapping(q2, s, l, a) <=> HasMapping(q, s, l, a)
      BY DEF PopsRemoved
    <3>4. \/ Acked(w, t, k) /\ Acker(z, w, t, k, l)
          \/ Holds(z, w, t, k, l) /\ r[l].fsm.mapped = k /\ HasMapping(q, s, l, a)
      BY <2>1, <3>2, <3>3, <1>6, <1>7, <1>9
    <3> QED BY <2>1, <3>1, <3>2, <3>4 DEF RemovalsInOrder
  <2> QED BY <2>1 DEF RemovalsInOrder
<1> QED BY <1>16, <1>17, <1>18, <1>19, <1>20, <1>21, <1>22, <1>23, <1>24, <1>25, <1>26, <1>27,
           <1>28, <1>29, <1>30, <1>31, <1>32, <1>33, <1>34, <1>35, <1>36, <1>37, <1>38, <1>39,
           <1>40, <1>41, <1>42, <1>43, <1>44, <1>45, <1>46, <1>47, <1>48, <1>49, <1>50, <1>51,
           <1>52, <1>53, <1>54, <1>55, <1>56, <1>57, <1>58, <1>59, <1>60, <1>61, <1>62, <1>63,
           <1>64, <1>65, <1>66, <1>67

\* The acknowledgement is received: the element has only to be erased.
LEMMA AckKeeps ==
    ASSUME NEW r, NEW q, NEW z, NEW w, NEW s, NEW t, Pair(r, q, z, w, s, t),
           NEW r2, NEW q2, NEW h, NEW i,
           SkipsFit(r),
           PopsRemovedAck(q, q2, h, s, i),
           DOMAIN r2 = DOMAIN r,
           \A k \in DOMAIN r \ {i} : r2[k] = r[k],
           r2[i].identifier = r[i].identifier,
           r2[i].hidden <=> r[i].hidden,
           r2[i].fsm.state = "AWAIT_REMOVALS",
           r2[i].fsm.skip = 0,
           r2[i].fsm.mapped = NoId
    PROVE  Pair(r2, q2, z, w, s, t)
<1> USE DEF Pair, End, Replied, Linked, Ordered, NoId
<1>1. i \in DOMAIN r /\ i # NoId /\ r[i].fsm.state = "AWAIT_ACK" /\ Acked(q, s, i)
  BY AckReceived DEF Typed
<1>2. \A p \in Places(q2) : ~Speaks(q2, s, p, i)
  BY AckReceived
<1>3. Removals(q, s, i) = 0 /\ Owing(z, w, t, i) = {}
  BY AckReceived
<1>4. ~HasReply(q, s, i) /\ \A l : ~HasMapping(q, s, i, l)
  BY AckReceived
<1>5. /\ r[i].fsm.mapped # NoId => ~AckedLate(r, q, z, w, s, t, i)
      /\ \A k : Holds(z, w, t, k, i) => Acked(w, t, k) /\ Acker(z, w, t, k, i)
  BY AckReceived
<1>6. /\ Shortened(q, q2, h, s)
      /\ \A k : Acked(q2, s, k) <=> Acked(q, s, k) /\ k # i
      /\ \A k, l : HasMapping(q2, s, k, l) <=> HasMapping(q, s, k, l)
      /\ \A k : HasReply(q2, s, k) <=> HasReply(q, s, k)
      /\ \A k : HasDescription(q2, s, k) <=> HasDescription(q, s, k)
      /\ \A k : Removals(q2, s, k) = Removals(q, s, k)
  <2>1. ~Acked(q2, s, i)
    BY <1>2 DEF Acked, Speaks
  <2> QED BY <2>1 DEF PopsRemovedAck
<1>7. /\ \A k \in DOMAIN r : k # i => r2[k] = r[k]
      /\ \A k \in DOMAIN r : r2[k].identifier = r[k].identifier /\ (~r2[k].hidden <=> ~r[k].hidden)
      /\ \A k \in DOMAIN r : Unconfirmed(r2[k]) <=> Unconfirmed(r[k])
      /\ ~Unconfirmed(r[i]) /\ Retired(r[i]) /\ ~Retired(r2[i]) /\ r[i].hidden
  BY <1>1 DEF Retired, Unconfirmed, Fit, destroyed
<1>8. /\ \A k, l : Holds(r2, q2, s, k, l) <=> Holds(r, q, s, k, l) /\ k # i
      /\ \A k \in DOMAIN r : \A l : k # i => (Acker(r2, q2, s, k, l) <=> Acker(r, q, s, k, l))
      /\ \A k \in DOMAIN r : k # i => Holdings(r2, q2, s, k) = Holdings(r, q, s, k)
      /\ Holdings(r2, q2, s, i) = 0
  BY <1>1, <1>4, <1>6, <1>7 DEF Holds, Acker, Holdings
<1>9. \A k : Owing(r2, q2, s, k) = Owing(r, q, s, k)
  BY <1>7, <1>8 DEF Owing
<1>10. /\ \A k \in DOMAIN r : k # i => (AckedEarly(r2, q2, s, k) <=> AckedEarly(r, q, s, k))
       /\ \A k \in DOMAIN r : k # i
              => (AckedLate(r2, q2, z, w, s, t, k) <=> AckedLate(r, q, z, w, s, t, k))
       /\ \A k \in DOMAIN z : AckedLate(z, w, r2, q2, t, s, k) <=> AckedLate(z, w, r, q, t, s, k)
  <2>1. \A k \in DOMAIN r : k # i
            => (Crossed(r2, q2, z, w, s, t, k) <=> Crossed(r, q, z, w, s, t, k))
    BY <1>7 DEF Crossed
  <2>2. \A k \in DOMAIN z : Crossed(z, w, r2, q2, t, s, k) <=> Crossed(z, w, r, q, t, s, k)
    BY <1>1, <1>6, <1>7 DEF Crossed
  <2> QED BY <2>1, <2>2, <1>6, <1>7, <1>8 DEF AckedEarly, AckedLate
<1>11. \A p \in Places(q2) : \A x, l : Marks(r2, q2, s, p, x, l) <=> Marks(r, q2, s, p, x, l)
  BY <1>6, <1>7 DEF Marks, AddresseesLive, Shortened
<1>12. Typed(r2)
  BY <1>1, <1>7 DEF Typed, States
<1>13. Queue(q2)
  BY <1>6 DEF Shortened
<1>14. Fit(r2)
  BY <1>1, <1>7 DEF Fit, is_mapped, destroyed
<1>15. OneVisible(r2)
  BY <1>7 DEF OneVisible
<1>16. DescriptionsPending(r2, q2, w, s, t)
  BY <1>6, <1>7 DEF DescriptionsPending
<1>17. RepliesPending(r2, q2, s)
  <2>1. RepliesPending(r, q2, s)
    BY <1>6, ShortenedKeeps
  <2> QED BY <2>1, <1>7 DEF RepliesPending
<1>18. ReplyComing(r2, q2, w, s, t)
  BY <1>6, <1>7 DEF ReplyComing
<1>19. Once(r2, q2, w, s, t)
  <2>1. Once(r, q2, w, s, t)
    BY <1>6, ShortenedKeeps
  <2> QED BY <2>1 DEF Once
<1>20. Unknown(r2, q2, z, w, s, t)
  <2>1. Unknown(r, q2, z, w, s, t)
    BY <1>6, ShortenedKeeps
  <2> QED BY <2>1 DEF Unknown
<1>21. RepliesFirst(r2, q2, s)
  <2>1. RepliesFirst(r, q2, s)
    BY <1>6, ShortenedKeeps
  <2> QED BY <2>1 DEF RepliesFirst
<1>22. AddresseesLive(r2, q2, s)
  BY <1>6 DEF AddresseesLive, Shortened
<1>23. PartnersLive(r2, z, w, t)
  BY <1>7 DEF PartnersLive
<1>24. Mutual(r2, q2, z, w, s, t)
  BY <1>6, <1>7, <1>8 DEF Mutual
<1>25. Counted(r2, q2, z, w, s, t)
  <2>1. Removals(q2, s, i) + Cardinality(Owing(z, w, t, i))
            = r2[i].fsm.skip + Holdings(r2, q2, s, i)
    BY <1>3, <1>6, <1>8, FS_EmptySet
  <2>2. \A p, m \in Places(q2) : \A k : p \in Places(q) /\ m \in Places(q)
            /\ (Acks(q2, s, p, k) <=> Acks(q, s, p, k))
                  /\ (Speaks(q2, s, m, k) <=> Speaks(q, s, m, k))
    BY <1>6 DEF Shortened
  <2>3. ASSUME NEW k \in DOMAIN r, k # i, ~Acked(q, s, k)
        PROVE  Removals(q2, s, k) + Cardinality(Owing(z, w, t, k))
                   = r2[k].fsm.skip + Holdings(r2, q2, s, k)
    BY <2>3, <1>6, <1>7, <1>8 DEF Counted
  <2>4. ASSUME NEW k \in DOMAIN r, k # i, Acked(q, s, k)
        PROVE  /\ r2[k].fsm.state \in {"AWAIT_CONFIRMATION", "AWAIT_ACK"}
               /\ AckedEarly(r2, q2, s, k) \/ AckedLate(r2, q2, z, w, s, t, k)
               /\ \A p, m \in Places(q2) : Acks(q2, s, p, k) /\ Speaks(q2, s, m, k) => m <= p
               /\ Owing(z, w, t, k) = {}
    BY <2>2, <2>4, <1>7, <1>10 DEF Counted
  <2> QED BY <2>1, <2>3, <2>4, <1>6 DEF Counted
<1>26. CrossedOnce(r2, q2, z, w, s, t)
  BY <1>6, <1>7, <1>10 DEF CrossedOnce
<1>27. CrossedKnown(r2, q2, z, w, s, t)
  <2>1. ASSUME NEW k \in DOMAIN z, Retired(z[k]), z[k].fsm.mapped = NoId, ~Acked(w, t, k)
        PROVE  \E l \in DOMAIN r2 : Acked(q2, s, l) /\ r2[l].fsm.mapped = k
                  /\ AckedLate(r2, q2, z, w, s, t, l)
    <3>1. PICK l \in DOMAIN r : Acked(q, s, l) /\ r[l].fsm.mapped = k
             /\ AckedLate(r, q, z, w, s, t, l)
      BY <2>1 DEF CrossedKnown
    <3>2. l # i
      BY <3>1, <1>5 DEF Typed
    <3> QED BY <3>1, <3>2, <1>6, <1>7, <1>10
  <2> QED BY <2>1 DEF CrossedKnown
<1>28. OneCandidate(r2)
  BY <1>7 DEF OneCandidate
<1>29. NoticedUnacked(q2, s)
  BY <1>6, ShortenedKeeps
<1>30. CandidatesTold(r2, z, w, t)
  BY <1>7 DEF CandidatesTold
<1>31. PartnersMeet(r2, q2, z, w, s, t)
  BY <1>6, <1>7, <1>8 DEF PartnersMeet
<1>32. LatestFollows(r2, q2, z, s)
  <2>1. LatestFollows(r, q2, z, s)
    BY <1>6, ShortenedKeeps
  <2> QED BY <2>1, <1>11 DEF LatestFollows
<1>33. MappingsFollow(r2, q2, z, s)
  <2>1. MappingsFollow(r, q2, z, s)
    BY <1>6, ShortenedKeeps
  <2> QED BY <2>1, <1>11 DEF MappingsFollow
<1>34. NewerDescribed(r2, q2, z, s)
  <2>1. ~is_mapped(r2[i].fsm)
    BY DEF is_mapped
  <2> QED BY <2>1, <1>6, <1>7 DEF NewerDescribed
<1>35. NewerFirst(r2, q2, s)
  <2>1. \A p \in Places(q) : \A k : Describes(q, s, p, k)
            => p \in Places(q2) /\ Describes(q2, s, p, k)
    BY DEF PopsRemovedAck, Shortened
  <2>2. \A p \in Places(q2) : p \in Places(q) /\ q2[p] = q[p]
    BY <1>6 DEF Shortened
  <2> QED BY <2>1, <2>2, <1>7 DEF NewerFirst
<1>36. RepliesInOrder(r2, q2, w, s, t)
  <2>1. \A p \in Places(q2), m \in Places(q) : p < m => m \in Places(q2)
    BY <1>6, ShortenedAfter
  <2>2. \A p \in Places(q2) : \A k : p \in Places(q)
           /\ (Replies(q2, s, p, k) <=> Replies(q, s, p, k))
    BY <1>6 DEF Shortened
  <2> QED BY <2>1, <2>2, <1>7 DEF RepliesInOrder
<1>37. RemovalsInOrder(r2, q2, z, w, s, t)
  <2>1. \A p \in Places(q2) : \A k :
            /\ p \in Places(q)
            /\ Replies(q2, s, p, k) <=> Replies(q, s, p, k)
            /\ Removes(q2, s, p, k) <=> Removes(q, s, p, k)
    BY <1>6 DEF Shortened
  <2> QED BY <2>1, <1>6, <1>7, <1>8 DEF RemovalsInOrder
<1>38. Typed(z)
  OBVIOUS
<1>39. Queue(w)
  OBVIOUS
<1>40. Fit(z)
  OBVIOUS
<1>41. OneVisible(z)
  OBVIOUS
<1>42. DescriptionsPending(z, w, q2, t, s)
  BY <1>6 DEF DescriptionsPending, Shortened
<1>43. RepliesPending(z, w, t)
  OBVIOUS
<1>44. ReplyComing(z, w, q2, t, s)
  BY <1>6 DEF ReplyComing
<1>45. Once(z, w, q2, t, s)
  BY <1>6, ShortenedKeeps
<1>46. Unknown(z, w, r2, q2, t, s)
  <2>1. \A k, p : p \in Places(q2) /\ Describes(q2, s, p, k)
            => p \in Places(q) /\ Describes(q, s, p, k)
    BY <1>6 DEF Shortened
  <2>2. \A p, k, l : p \in Places(q2) /\ Maps(q2, s, p, k, l)
            => p \in Places(q) /\ Maps(q, s, p, k, l)
    BY <1>6 DEF Shortened
  <2>3. \A k \in DOMAIN z : k # NoId
    BY DEF Typed
  <2> QED BY <2>1, <2>2, <2>3, <1>6, <1>7 DEF Unknown
<1>47. RepliesFirst(z, w, t)
  OBVIOUS
<1>48. AddresseesLive(z, w, t)
  OBVIOUS
<1>49. PartnersLive(z, r2, q2, s)
  BY <1>7, <1>8 DEF PartnersLive
<1>50. Mutual(z, w, r2, q2, t, s)
  BY <1>5, <1>7, <1>8 DEF Mutual
<1>51. Counted(z, w, r2, q2, t, s)
  BY <1>9, <1>10 DEF Counted
<1>52. CrossedOnce(z, w, r2, q2, t, s)
  BY <1>10 DEF CrossedOnce
<1>53. CrossedKnown(z, w, r2, q2, t, s)
  <2>1. ASSUME NEW k \in DOMAIN r, Retired(r2[k]), r2[k].fsm.mapped = NoId, ~Acked(q2, s, k)
        PROVE  \E l \in DOMAIN z : Acked(w, t, l) /\ z[l].fsm.mapped = k
                  /\ AckedLate(z, w, r2, q2, t, s, l)
    <3>1. Retired(r[k]) /\ r[k].fsm.mapped = NoId /\ ~Acked(q, s, k)
      BY <2>1, <1>6, <1>7
    <3> QED BY <3>1, <1>10 DEF CrossedKnown
  <2> QED BY <2>1 DEF CrossedKnown
<1>54. OneCandidate(z)
  OBVIOUS
<1>55. NoticedUnacked(w, t)
  OBVIOUS
<1>56. CandidatesTold(z, r2, q2, s)
  BY <1>6, <1>7 DEF CandidatesTold
<1>57. PartnersMeet(z, w, r2, q2, t, s)
  BY <1>6, <1>7 DEF PartnersMeet
<1>58. LatestFollows(z, w, r2, t)
  BY <1>7 DEF LatestFollows
<1>59. MappingsFollow(z, w, r2, t)
  BY <1>7 DEF MappingsFollow
<1>60. NewerDescribed(z, w, r2, t)
  BY <1>7 DEF NewerDescribed
<1>61. NewerFirst(z, w, t)
  OBVIOUS
<1>62. RepliesInOrder(z, w, q2, t, s)
  BY <1>6 DEF RepliesInOrder
<1>63. RemovalsInOrder(z, w, r2, q2, t, s)
  <2>1. \A k \in DOMAIN z : k # NoId
    BY DEF Typed
  <2> QED BY <2>1, <1>6, <1>7, <1>8 DEF RemovalsInOrder
<1> QED BY <1>12, <1>13, <1>14, <1>15, <1>16, <1>17, <1>18, <1>19, <1>20, <1>21, <1>22, <1>23,
           <1>24, <1>25, <1>26, <1>27, <1>28, <1>29, <1>30, <1>31, <1>32, <1>33, <1>34, <1>35,
           <1>36, <1>37, <1>38, <1>39, <1>40, <1>41, <1>42, <1>43, <1>44, <1>45, <1>46, <1>47,
           <1>48, <1>49, <1>50, <1>51, <1>52, <1>53, <1>54, <1>55, <1>56, <1>57, <1>58, <1>59,
           <1>60, <1>61, <1>62, <1>63

\* An element that nobody refers to is erased.
LEMMA EraseKeeps ==
    ASSUME NEW r, NEW q, NEW z, NEW w, NEW s, NEW t, Pair(r, q, z, w, s, t),
           NEW r2, NEW i,
           i \in DOMAIN r,
           r[i].fsm.state \in {"UNUSED_CONFIRMED", "AWAIT_REMOVALS"},
           r[i].fsm.skip = 0,
           DOMAIN r2 = DOMAIN r \ {i},
           \A k \in DOMAIN r2 : r2[k] = r[k]
    PROVE  Pair(r2, q, z, w, s, t)
<1> USE DEF Pair, End, Replied, Linked, Ordered, NoId
<1>1. /\ r[i].fsm.mapped = NoId /\ ~Acked(q, s, i) /\ Owing(z, w, t, i) = {}
      /\ ~HasDescription(w, t, i) /\ \A l : ~Holds(r, q, s, i, l)
  BY Unreferred
<1>2. \A p \in Places(q) : ~Speaks(q, s, p, i)
  BY Unreferred
<1>3. \A k : Holds(z, w, t, k, i) => Acked(w, t, k) /\ Acker(z, w, t, k, i)
  BY Unreferred
<1>4. /\ \A k \in DOMAIN r2 : k \in DOMAIN r /\ k # i /\ r2[k] = r[k]
      /\ \A k \in DOMAIN r : k \in DOMAIN r2 \/ k = i
      /\ i \notin DOMAIN r2
      /\ ~Unconfirmed(r[i]) /\ ~Retired(r[i])
  BY DEF Unconfirmed, Retired
<1>5. /\ \A k, l : Holds(r2, q, s, k, l) <=> Holds(r, q, s, k, l)
      /\ \A k \in DOMAIN r2 : \A l : Acker(r2, q, s, k, l) <=> Acker(r, q, s, k, l)
      /\ \A k \in DOMAIN r2 : Holdings(r2, q, s, k) = Holdings(r, q, s, k)
  BY <1>1, <1>4 DEF Holds, Acker, Holdings
<1>6. \A k : Owing(r2, q, s, k) = Owing(r, q, s, k)
  BY <1>1, <1>4, <1>5 DEF Owing
<1>7. /\ \A k \in DOMAIN r2 : AckedEarly(r2, q, s, k) <=> AckedEarly(r, q, s, k)
      /\ \A k \in DOMAIN r2 : AckedLate(r2, q, z, w, s, t, k) <=> AckedLate(r, q, z, w, s, t, k)
      /\ \A k \in DOMAIN z : AckedLate(z, w, r2, q, t, s, k) <=> AckedLate(z, w, r, q, t, s, k)
  <2>1. \A k \in DOMAIN r2 : Crossed(r2, q, z, w, s, t, k) <=> Crossed(r, q, z, w, s, t, k)
    BY <1>4 DEF Crossed
  <2>2. \A k \in DOMAIN z : Crossed(z, w, r2, q, t, s, k) <=> Crossed(z, w, r, q, t, s, k)
    BY <1>4 DEF Crossed
  <2> QED BY <2>1, <2>2, <1>4, <1>5 DEF AckedEarly, AckedLate
<1>8. \A p \in Places(q) : \A x, l : Marks(r2, q, s, p, x, l) <=> Marks(r, q, s, p, x, l)
  <2>1. \A p \in Places(q) : q[p].type \in {"Mapping", "Noticed"} /\ q[p].to = s
            => q[p].id \in DOMAIN r2
    BY <1>2, <1>4 DEF Speaks, Replies, AddresseesLive
  <2> QED BY <2>1, <1>4 DEF Marks
<1>9. Typed(r2)
  <2>1. IsFiniteSet(DOMAIN r2)
    BY FS_Subset DEF Typed
  <2> QED BY <2>1, <1>4 DEF Typed
<1>10. Queue(q)
  OBVIOUS
<1>11. Fit(r2)
  BY <1>4 DEF Fit
<1>12. OneVisible(r2)
  BY <1>4 DEF OneVisible
<1>13. DescriptionsPending(r2, q, w, s, t)
  BY <1>4 DEF DescriptionsPending
<1>14. RepliesPending(r2, q, s)
  BY <1>4 DEF RepliesPending
<1>15. ReplyComing(r2, q, w, s, t)
  BY <1>4 DEF ReplyComing
<1>16. Once(r2, q, w, s, t)
  BY <1>4 DEF Once
<1>17. Unknown(r2, q, z, w, s, t)
  BY <1>4 DEF Unknown
<1>18. RepliesFirst(r2, q, s)
  BY <1>4 DEF RepliesFirst
<1>19. AddresseesLive(r2, q, s)
  BY <1>2, <1>4 DEF AddresseesLive, Speaks, Replies, Removes, Acks
<1>20. PartnersLive(r2, z, w, t)
  BY <1>1, <1>4 DEF PartnersLive, Owing
<1>21. Mutual(r2, q, z, w, s, t)
  BY <1>4, <1>5 DEF Mutual
<1>22. Counted(r2, q, z, w, s, t)
  BY <1>4, <1>5, <1>7 DEF Counted
<1>23. CrossedOnce(r2, q, z, w, s, t)
  BY <1>4, <1>7 DEF CrossedOnce
<1>24. CrossedKnown(r2, q, z, w, s, t)
  <2>1. ASSUME NEW k \in DOMAIN z, Retired(z[k]), z[k].fsm.mapped = NoId, ~Acked(w, t, k)
        PROVE  \E l \in DOMAIN r2 : Acked(q, s, l) /\ r2[l].fsm.mapped = k
                  /\ AckedLate(r2, q, z, w, s, t, l)
    <3>1. PICK l \in DOMAIN r : Acked(q, s, l) /\ r[l].fsm.mapped = k
             /\ AckedLate(r, q, z, w, s, t, l)
      BY <2>1 DEF CrossedKnown
    <3>2. l # i
      BY <3>1, <1>1
    <3> QED BY <3>1, <3>2, <1>4, <1>7
  <2> QED BY <2>1 DEF CrossedKnown
<1>25. OneCandidate(r2)
  BY <1>4 DEF OneCandidate
<1>26. NoticedUnacked(q, s)
  OBVIOUS
<1>27. CandidatesTold(r2, z, w, t)
  BY <1>4 DEF CandidatesTold
<1>28. PartnersMeet(r2, q, z, w, s, t)
  BY <1>4, <1>5 DEF PartnersMeet
<1>29. LatestFollows(r2, q, z, s)
  BY <1>8 DEF LatestFollows
<1>30. MappingsFollow(r2, q, z, s)
  BY <1>8 DEF MappingsFollow
<1>31. NewerDescribed(r2, q, z, s)
  BY <1>4 DEF NewerDescribed
<1>32. NewerFirst(r2, q, s)
  BY <1>4 DEF NewerFirst
<1>33. RepliesInOrder(r2, q, w, s, t)
  BY <1>4 DEF RepliesInOrder
<1>34. RemovalsInOrder(r2, q, z, w, s, t)
  BY <1>4, <1>5 DEF RemovalsInOrder
<1>35. Typed(z)
  OBVIOUS
<1>36. Queue(w)
  OBVIOUS
<1>37. Fit(z)
  OBVIOUS
<1>38. OneVisible(z)
  OBVIOUS
<1>39. DescriptionsPending(z, w, q, t, s)
  OBVIOUS
<1>40. RepliesPending(z, w, t)
  OBVIOUS
<1>41. ReplyComing(z, w, q, t, s)
  OBVIOUS
<1>42. Once(z, w, q, t, s)
  OBVIOUS
<1>43. Unknown(z, w, r2, q, t, s)
  BY <1>4 DEF Unknown
<1>44. RepliesFirst(z, w, t)
  OBVIOUS
<1>45. AddresseesLive(z, w, t)
  OBVIOUS
<1>46. PartnersLive(z, r2, q, s)
  BY <1>4, <1>5 DEF PartnersLive
<1>47. Mutual(z, w, r2, q, t, s)
  BY <1>3, <1>4, <1>5 DEF Mutual
<1>48. Counted(z, w, r2, q, t, s)
  BY <1>6, <1>7 DEF Counted
<1>49. CrossedOnce(z, w, r2, q, t, s)
  BY <1>7 DEF CrossedOnce
<1>50. CrossedKnown(z, w, r2, q, t, s)
  BY <1>4, <1>7 DEF CrossedKnown
<1>51. OneCandidate(z)
  OBVIOUS
<1>52. NoticedUnacked(w, t)
  OBVIOUS
<1>53. CandidatesTold(z, r2, q, s)
  BY <1>4 DEF CandidatesTold
<1>54. PartnersMeet(z, w, r2, q, t, s)
  BY <1>4 DEF PartnersMeet
<1>55. LatestFollows(z, w, r2, t)
  BY <1>4 DEF LatestFollows
<1>56. MappingsFollow(z, w, r2, t)
  BY <1>4 DEF MappingsFollow
<1>57. NewerDescribed(z, w, r2, t)
  BY <1>4 DEF NewerDescribed
<1>58. NewerFirst(z, w, t)
  OBVIOUS
<1>59. RepliesInOrder(z, w, q, t, s)
  OBVIOUS
<1>60. RemovalsInOrder(z, w, r2, q, t, s)
  <2>1. \A k \in DOMAIN z : k # NoId
    BY DEF Typed
  <2>2. \A k \in DOMAIN r2 : r2[k].fsm.mapped = r[k].fsm.mapped
    BY <1>4
  <2> QED BY <2>1, <2>2, <1>4, <1>5 DEF RemovalsInOrder
<1> QED BY <1>9, <1>10, <1>11, <1>12, <1>13, <1>14, <1>15, <1>16, <1>17, <1>18, <1>19, <1>20,
           <1>21, <1>22, <1>23, <1>24, <1>25, <1>26, <1>27, <1>28, <1>29, <1>30, <1>31, <1>32,
           <1>33, <1>34, <1>35, <1>36, <1>37, <1>38, <1>39, <1>40, <1>41, <1>42, <1>43, <1>44,
           <1>45, <1>46, <1>47, <1>48, <1>49, <1>50, <1>51, <1>52, <1>53, <1>54, <1>55, <1>56,
           <1>57, <1>58, <1>59, <1>60

----------------------------------------------------------------------------
(* What the machines of the elements do with a message.                    *)

\* Element i is the same object with machine f.
Becomes(r, r2, i, f) ==
    /\ DOMAIN r2 = DOMAIN r /\ \A k \in DOMAIN r \ {i} : r2[k] = r[k]
    /\ r2[i].identifier = r[i].identifier /\ r2[i].hidden = r[i].hidden /\ r2[i].fsm = f

\* Element i is destroyed but waits, with machine f.
Hides(r, r2, i, f) ==
    /\ DOMAIN r2 = DOMAIN r /\ \A k \in DOMAIN r \ {i} : r2[k] = r[k]
    /\ r2[i].identifier = r[i].identifier /\ r2[i].hidden = TRUE /\ r2[i].fsm = f

\* Element i is no more.
Erases(r, r2, i) ==
    DOMAIN r2 = DOMAIN r \ {i} /\ \A k \in DOMAIN r2 : r2[k] = r[k]

\* The machine of i has sent o.
SendsOne(w, w2, n, t, i, o) ==
    /\ o.type = "Mapping" => PushesMapping(w, w2, n, t, o.id, i)
    /\ o.type = "Removed" => PushesRemoved(w, w2, n, t, o.id)
    /\ o.type = "RemovedAck" => PushesRemovedAck(w, w2, n, t, o.id)

\* It has sent what it has sent in one step.
Sends(w, w2, t, i, out) ==
    \/ out = <<>> /\ w2 = w
    \/ \E n : Len(out) = 1 /\ SendsOne(w, w2, n, t, i, out[1])
    \/ \E w1, n, m : /\ Len(out) = 2 /\ SendsOne(w, w1, n, t, i, out[1])
                     /\ SendsOne(w1, w2, m, t, i, out[2])

\* What is sent, by the length of it.
LEMMA SendsParts ==
    ASSUME NEW w, NEW w2, NEW t, NEW i, NEW out, Sends(w, w2, t, i, out)
    PROVE  /\ out = <<>> => w2 = w
           /\ \A o : out = <<o>> => \E n : SendsOne(w, w2, n, t, i, o)
           /\ \A o, p : out = <<o, p>> =>
                 \E w1, n, m : SendsOne(w, w1, n, t, i, o) /\ SendsOne(w1, w2, m, t, i, p)
BY DEF Sends

\* There is a register that differs in one machine.
LEMMA BecomesSome ==
    ASSUME NEW r, NEW i \in DOMAIN r, NEW f
    PROVE  \E r1 : Becomes(r, r1, i, f)
<1> DEFINE r1 == [k \in DOMAIN r |->
                    IF k = i THEN [identifier |-> r[i].identifier, hidden |-> r[i].hidden,
                        fsm |-> f]
                             ELSE r[k]]
<1>1. Becomes(r, r1, i, f)
  BY DEF Becomes
<1> QED BY <1>1

\* Two changes of one element.
LEMMA BecomesTwice ==
    ASSUME NEW r, NEW r1, NEW r2, NEW i \in DOMAIN r, NEW f1, NEW f2, Becomes(r, r1, i, f1)
    PROVE  /\ Becomes(r, r2, i, f2) => Becomes(r1, r2, i, f2)
           /\ Erases(r, r2, i) => Erases(r1, r2, i)
BY DEF Becomes, Erases

\* The skips of the others stay as they are.
LEMMA SkipsKept ==
    ASSUME NEW r, NEW r2, NEW i, SkipsFit(r)
    PROVE  /\ \A f : /\ Becomes(r, r2, i, f) \/ Hides(r, r2, i, f)
                     /\ f.state = "UNUSED_UNCONFIRMED" => f.skip = 0
                     /\ f.state \in {"AWAIT_CONFIRMATION", "AWAIT_ACK"} /\ f.mapped = NoId
                            => f.skip = 0
                     /\ f.state = "AWAIT_REMOVALS" => f.skip # 0
                     => SkipsFit(r2)
           /\ Erases(r, r2, i) => SkipsFit(r2)
<1>1. ASSUME NEW f, Becomes(r, r2, i, f) \/ Hides(r, r2, i, f),
             f.state = "UNUSED_UNCONFIRMED" => f.skip = 0,
             f.state \in {"AWAIT_CONFIRMATION", "AWAIT_ACK"} /\ f.mapped = NoId => f.skip = 0,
             f.state = "AWAIT_REMOVALS" => f.skip # 0
      PROVE  SkipsFit(r2)
  <2>1. DOMAIN r2 = DOMAIN r /\ (\A k \in DOMAIN r : k # i => r2[k] = r[k]) /\ r2[i].fsm = f
    BY <1>1 DEF Becomes, Hides
  <2> QED BY <1>1, <2>1 DEF SkipsFit
<1>2. Erases(r, r2, i) => SkipsFit(r2)
  BY DEF Erases, SkipsFit
<1> QED BY <1>1, <1>2

\* A machine after it has released what it was mapped to.
Released(f, state) == [state |-> state, skip |-> f.skip + 1, mapped |-> NoId]

\* An element releases what it is mapped to on the first message, which shows
\* that the remote object is another one now.
LEMMA ReleaseHandled ==
    ASSUME NEW r, NEW q, NEW z, NEW w, NEW s, NEW t, Pair(r, q, z, w, s, t),
           NEW i \in DOMAIN r, NEW r1, NEW w1, NEW h, NEW n, NEW state,
           r[i].fsm.mapped # NoId, ~Retired(r[i]),
           \/ r[i].fsm.state = "MAPPED_UNCONFIRMED" /\ state = "UNUSED_UNCONFIRMED"
           \/ r[i].fsm.state = "MAPPED_CONFIRMED" /\ state = "UNUSED_CONFIRMED"
           \/ r[i].fsm.state = "AWAIT_CONFIRMATION" /\ state = "AWAIT_CONFIRMATION",
           h \in Places(q), \A p \in Places(q) : h <= p,
           Marks(r, q, s, h, r[i].identifier, r[i].fsm.mapped),
           Becomes(r, r1, i, Released(r[i].fsm, state)),
           PushesRemovedAck(w, w1, n, t, r[i].fsm.mapped)
    PROVE  Pair(r1, q, z, w1, s, t)
<1>1. /\ r1[i].fsm.skip = r[i].fsm.skip + 1 /\ r1[i].fsm.mapped = NoId /\ r1[i].fsm.state = state
      /\ r1[i].identifier = r[i].identifier /\ (r1[i].hidden <=> r[i].hidden)
      /\ DOMAIN r1 = DOMAIN r /\ \A k \in DOMAIN r \ {i} : r1[k] = r[k]
  BY DEF Becomes, Released
<1>2. PICK j : j = r[i].fsm.mapped
  OBVIOUS
<1> QED BY <1>1, <1>2, ReleaseKeeps

\* The parts of a step.
LEMMA StepParts ==
    ASSUME NEW f, NEW out, NEW c, NEW st, st = Step(f, out, c)
    PROVE  st.fsm = f /\ st.out = out /\ st.alive /\ st.ok
BY DEF Step

\* The last one.
LEMMA DeadParts ==
    ASSUME NEW f, NEW st, st = Dead(f)
    PROVE  ~st.alive /\ st.ok /\ st.out = <<>>
BY DEF Dead

\* The machines that the steps lead to.
LEMMA MachineParts ==
    ASSUME NEW f \in Fsm, NEW state \in States, NEW id \in Nat, NEW g
    PROVE  /\ g = To(f, state) => g.state = state /\ g.skip = f.skip /\ g.mapped = f.mapped
           /\ g = MapTo(f, state, id) => g.state = state /\ g.skip = f.skip /\ g.mapped = id
           /\ g = SkipOneMore(MapTo(f, state, id))
                => g.state = state /\ g.skip = f.skip + 1 /\ g.mapped = id
           /\ g = SkipOne(f) => g.state = f.state /\ g.skip = f.skip - 1 /\ g.mapped = f.mapped
<1>1. g = To(f, state) => g.state = state /\ g.skip = f.skip /\ g.mapped = f.mapped
  BY DEF To, Fsm
<1>2. MapTo(f, state, id) \in Fsm
  BY DEF MapTo, Fsm
<1>3. /\ MapTo(f, state, id).state = state /\ MapTo(f, state, id).skip = f.skip
      /\ MapTo(f, state, id).mapped = id
  BY DEF MapTo, Fsm
<1>4. ASSUME NEW m \in Fsm, g = SkipOneMore(m)
      PROVE  g.state = m.state /\ g.skip = m.skip + 1 /\ g.mapped = m.mapped
  BY <1>4 DEF SkipOneMore, Fsm
<1>5. g = SkipOne(f) => g.state = f.state /\ g.skip = f.skip - 1 /\ g.mapped = f.mapped
  BY DEF SkipOne, Fsm
<1> QED BY <1>1, <1>2, <1>3, <1>4, <1>5

\* An object of the identifier is described: the element that has it is mapped.
LEMMA DescriptionHandled ==
    ASSUME NEW r, NEW q, NEW z, NEW w, NEW s, NEW t, Pair(r, q, z, w, s, t), SkipsFit(r),
           NEW q2, NEW h, NEW j \in Nat, PopsDescription(q, q2, h, s, j),
           NEW i \in DOMAIN r, ~r[i].hidden, r[i].identifier = q[h].identifier, r[i].fsm \in Fsm,
           NEW st, st = process_rcvd_description(r[i].fsm, j),
           NEW r2, Becomes(r, r2, i, st.fsm), NEW w2, Sends(w, w2, t, i, st.out)
    PROVE  st.ok /\ st.alive /\ Pair(r2, q2, z, w2, s, t) /\ SkipsFit(r2)
<1>1. PICK f \in Fsm : f = r[i].fsm
  OBVIOUS
<1>2. f.state \in {"UNUSED_UNCONFIRMED", "UNUSED_CONFIRMED", "MAPPED_UNCONFIRMED",
          "MAPPED_CONFIRMED"}
  BY <1>1 DEF Pair, End, Fit, destroyed, Fsm, States
<1>3. DOMAIN r2 = DOMAIN r /\ (\A k \in DOMAIN r \ {i} : r2[k] = r[k]) /\ ~r2[i].hidden
      /\ r2[i].identifier = r[i].identifier /\ r2[i].fsm = st.fsm
  BY DEF Becomes
<1>4. ASSUME NEW to \in States, st = Step(MapTo(f, to, j), <<Out("Mapping", j)>>, <<TRUE>>),
             \/ f.state = "UNUSED_UNCONFIRMED" /\ to = "MAPPED_UNCONFIRMED"
             \/ f.state = "UNUSED_CONFIRMED" /\ to = "MAPPED_CONFIRMED"
      PROVE  st.ok /\ st.alive /\ Pair(r2, q2, z, w2, s, t) /\ SkipsFit(r2)
  <2>1. st.ok /\ st.alive /\ st.out = <<Out("Mapping", j)>> /\ st.fsm = MapTo(f, to, j)
    BY <1>4, StepParts
  <2>2. st.fsm.state = to /\ st.fsm.skip = f.skip /\ st.fsm.mapped = j
    BY <2>1, <1>1, <1>4, MachineParts
  <2>3. PICK n : PushesMapping(w, w2, n, t, j, i)
    <3>1. PICK n : SendsOne(w, w2, n, t, i, Out("Mapping", j))
      BY <2>1, SendsParts
    <3> QED BY <3>1 DEF SendsOne, Out
  <2>4. Pair(r2, q2, z, w2, s, t)
    BY <1>1, <1>3, <1>4, <2>2, <2>3, MapKeeps
  <2>5. SkipsFit(r2)
    BY <1>4, <2>2, SkipsKept
  <2> QED BY <2>1, <2>4, <2>5
<1>5. ASSUME st = Step(SkipOneMore(MapTo(f, f.state, j)),
                        <<Out("RemovedAck", f.mapped), Out("Mapping", j)>>, <<FALSE, TRUE>>),
             NEW to, \/ f.state = "MAPPED_UNCONFIRMED" /\ to = "UNUSED_UNCONFIRMED"
                     \/ f.state = "MAPPED_CONFIRMED" /\ to = "UNUSED_CONFIRMED"
      PROVE  st.ok /\ st.alive /\ Pair(r2, q2, z, w2, s, t) /\ SkipsFit(r2)
  <2>1. /\ st.ok /\ st.alive /\ st.out = <<Out("RemovedAck", f.mapped), Out("Mapping", j)>>
        /\ st.fsm = SkipOneMore(MapTo(f, f.state, j))
    BY <1>5, StepParts
  <2>2. st.fsm.state = f.state /\ st.fsm.skip = f.skip + 1 /\ st.fsm.mapped = j
    BY <2>1, <1>1, MachineParts DEF Fsm
  <2>3. PICK w1, n, m : PushesRemovedAck(w, w1, n, t, f.mapped) /\ PushesMapping(w1, w2, m, t, j, i)
    <3>1. PICK w1, n, m : SendsOne(w, w1, n, t, i, Out("RemovedAck", f.mapped))
             /\ SendsOne(w1, w2, m, t, i, Out("Mapping", j))
      BY <2>1, SendsParts
    <3> QED BY <3>1 DEF SendsOne, Out
  <2>4. PICK r1 : Becomes(r, r1, i, Released(f, to))
    BY BecomesSome
  <2>5. f.mapped # NoId /\ ~Retired(r[i])
    BY <1>1, <1>5 DEF Pair, End, Fit, is_mapped, Retired
  <2>6. /\ h \in Places(q) /\ \A p \in Places(q) : h <= p
        /\ Marks(r, q, s, h, r[i].identifier, f.mapped)
    <3>1. ~HasDescription(q, s, f.mapped)
      BY <1>1, <2>5, MappedExists
    <3>2. j # f.mapped
      BY <3>1 DEF PopsDescription
    <3> QED BY <3>2 DEF PopsDescription, Shortened, Marks
  <2>7. Pair(r1, q, z, w1, s, t)
    BY <1>1, <1>5, <2>3, <2>4, <2>5, <2>6, ReleaseHandled
  <2>8. /\ r1[i].fsm.state = to /\ r1[i].fsm.skip = f.skip + 1 /\ ~r1[i].hidden
        /\ r1[i].identifier = r[i].identifier /\ DOMAIN r2 = DOMAIN r1 /\ i \in DOMAIN r1
        /\ \A k \in DOMAIN r1 \ {i} : r2[k] = r1[k]
    BY <1>3, <2>4 DEF Becomes, Released
  <2>9. Pair(r2, q2, z, w2, s, t)
    BY <1>3, <1>5, <2>2, <2>3, <2>7, <2>8, MapKeeps
  <2>10. SkipsFit(r2)
    BY <1>5, <2>2, SkipsKept
  <2> QED BY <2>1, <2>9, <2>10
<1>6. CASE f.state = "UNUSED_UNCONFIRMED"
  <2>1. st = Step(MapTo(f, "MAPPED_UNCONFIRMED", j), <<Out("Mapping", j)>>, <<TRUE>>)
    BY <1>1, <1>6 DEF process_rcvd_description, is_mapped
  <2> QED BY <1>4, <1>6, <2>1 DEF States
<1>7. CASE f.state = "UNUSED_CONFIRMED"
  <2>1. st = Step(MapTo(f, "MAPPED_CONFIRMED", j), <<Out("Mapping", j)>>, <<TRUE>>)
    BY <1>1, <1>7 DEF process_rcvd_description, is_mapped
  <2> QED BY <1>4, <1>7, <2>1 DEF States
<1>8. CASE f.state \in {"MAPPED_UNCONFIRMED", "MAPPED_CONFIRMED"}
  <2>1. st = Step(SkipOneMore(MapTo(f, f.state, j)),
                  <<Out("RemovedAck", f.mapped), Out("Mapping", j)>>, <<FALSE, TRUE>>)
    BY <1>1, <1>8 DEF process_rcvd_description, is_mapped
  <2> QED BY <1>5, <1>8, <2>1
<1> QED BY <1>2, <1>6, <1>7, <1>8

\* The reply is a mapping.
LEMMA MappingHandled ==
    ASSUME NEW r, NEW q, NEW z, NEW w, NEW s, NEW t, Pair(r, q, z, w, s, t), SkipsFit(r),
           NEW q2, NEW h, NEW i, NEW j \in Nat, PopsMapping(q, q2, h, s, i, j), r[i].fsm \in Fsm,
           NEW st, st = process_rcvd_mapping(r[i].fsm, j),
           NEW r2, Becomes(r, r2, i, st.fsm), NEW w2, Sends(w, w2, t, i, st.out)
    PROVE  st.ok /\ st.alive /\ Pair(r2, q2, z, w2, s, t) /\ SkipsFit(r2)
<1>1. PICK f \in Fsm : f = r[i].fsm
  OBVIOUS
<1>2. /\ i \in DOMAIN r /\ j # NoId
      /\ f.state \in {"UNUSED_UNCONFIRMED", "MAPPED_UNCONFIRMED", "AWAIT_CONFIRMATION"}
  BY <1>1 DEF Pair, End, Replied, RepliesPending, PopsMapping, Shortened, Unconfirmed
<1>3. /\ DOMAIN r2 = DOMAIN r /\ \A k \in DOMAIN r \ {i} : r2[k] = r[k]
      /\ r2[i].identifier = r[i].identifier /\ r2[i].fsm = st.fsm /\ (r2[i].hidden <=> r[i].hidden)
      /\ r[i].hidden <=> f.state = "AWAIT_CONFIRMATION"
  BY <1>1, <1>2 DEF Becomes, Pair, End, Fit, destroyed
<1>4. ASSUME st.out = <<>>, st.fsm.state = "MAPPED_CONFIRMED", st.fsm.skip = f.skip,
             st.fsm.mapped = j,
             \/ f.state = "UNUSED_UNCONFIRMED"
             \/ f.state = "MAPPED_UNCONFIRMED" /\ f.mapped = j
      PROVE  Pair(r2, q2, z, w2, s, t) /\ SkipsFit(r2)
  <2>1. w2 = w
    BY <1>4, SendsParts
  <2>2. ~r2[i].hidden
    BY <1>3, <1>4
  <2>3. Pair(r2, q2, z, w, s, t)
    BY <1>1, <1>3, <1>4, <2>2, ConfirmMappingKeeps
  <2>4. SkipsFit(r2)
    BY <1>4, SkipsKept
  <2> QED BY <2>1, <2>3, <2>4
<1>5. CASE f.state = "UNUSED_UNCONFIRMED"
  <2>1. st = Step(MapTo(f, "MAPPED_CONFIRMED", j), <<>>, <<TRUE>>)
    BY <1>1, <1>5 DEF process_rcvd_mapping
  <2>2. st.ok /\ st.alive /\ st.out = <<>> /\ st.fsm = MapTo(f, "MAPPED_CONFIRMED", j)
    BY <2>1, StepParts
  <2>3. st.fsm.state = "MAPPED_CONFIRMED" /\ st.fsm.skip = f.skip /\ st.fsm.mapped = j
    BY <2>2, MachineParts DEF States
  <2> QED BY <1>4, <1>5, <2>2, <2>3
<1>6. CASE f.state = "MAPPED_UNCONFIRMED"
  <2>1. j = f.mapped
    <3>1. h \in Places(q) /\ q[h].type = "Mapping" /\ q[h].to = s /\ q[h].id = i /\ q[h].own = j
      BY DEF PopsMapping, Shortened
    <3>2. \A p \in Places(q) : ~(p < h)
      BY DEF PopsMapping, Shortened
    <3> QED BY <1>1, <1>2, <1>6, <3>1, <3>2 DEF Pair, End, Ordered, NewerFirst
  <2>2. st = Step(To(f, "MAPPED_CONFIRMED"), <<>>, <<>>)
    BY <1>1, <1>6, <2>1 DEF process_rcvd_mapping, Asserting
  <2>3. st.ok /\ st.alive /\ st.out = <<>> /\ st.fsm = To(f, "MAPPED_CONFIRMED")
    BY <2>2, StepParts
  <2>4. st.fsm.state = "MAPPED_CONFIRMED" /\ st.fsm.skip = f.skip /\ st.fsm.mapped = j
    BY <2>1, <2>3, MachineParts DEF States
  <2> QED BY <1>4, <1>6, <2>1, <2>3, <2>4
<1>7. CASE f.state = "AWAIT_CONFIRMATION" /\ f.mapped \in {NoId, j}
  <2>1. st = Step(MapTo(f, "AWAIT_ACK", j), <<Out("Removed", j)>>, <<>>)
    BY <1>1, <1>7 DEF process_rcvd_mapping
  <2>2. st.ok /\ st.alive /\ st.out = <<Out("Removed", j)>> /\ st.fsm = MapTo(f, "AWAIT_ACK", j)
    BY <2>1, StepParts
  <2>3. st.fsm.state = "AWAIT_ACK" /\ st.fsm.skip = f.skip /\ st.fsm.mapped = j
    BY <2>2, MachineParts DEF States
  <2>4. PICK n : PushesRemoved(w, w2, n, t, j)
    <3>1. PICK n : SendsOne(w, w2, n, t, i, Out("Removed", j))
      BY <2>2, SendsParts
    <3> QED BY <3>1 DEF SendsOne, Out
  <2>5. r2[i].hidden
    BY <1>3, <1>7
  <2>6. Pair(r2, q2, z, w2, s, t)
    BY <1>1, <1>3, <1>7, <2>3, <2>4, <2>5, RetireOnMappingKeeps
  <2>7. SkipsFit(r2)
    BY <1>2, <2>3, SkipsKept
  <2> QED BY <2>2, <2>6, <2>7
<1>8. CASE f.state = "AWAIT_CONFIRMATION" /\ f.mapped \notin {NoId, j}
  <2>1. st = Step(SkipOneMore(MapTo(f, "AWAIT_ACK", j)),
            <<Out("RemovedAck", f.mapped), Out("Removed", j)>>, <<>>)
    BY <1>1, <1>8 DEF process_rcvd_mapping
  <2>2. /\ st.ok /\ st.alive /\ st.out = <<Out("RemovedAck", f.mapped), Out("Removed", j)>>
        /\ st.fsm = SkipOneMore(MapTo(f, "AWAIT_ACK", j))
    BY <2>1, StepParts
  <2>3. st.fsm.state = "AWAIT_ACK" /\ st.fsm.skip = f.skip + 1 /\ st.fsm.mapped = j
    BY <2>2, MachineParts DEF States
  <2>4. PICK w1, n, m : PushesRemovedAck(w, w1, n, t, f.mapped) /\ PushesRemoved(w1, w2, m, t, j)
    <3>1. PICK w1, n, m : SendsOne(w, w1, n, t, i, Out("RemovedAck", f.mapped))
             /\ SendsOne(w1, w2, m, t, i, Out("Removed", j))
      BY <2>2, SendsParts
    <3> QED BY <3>1 DEF SendsOne, Out
  <2>5. PICK r1 : Becomes(r, r1, i, Released(f, "AWAIT_CONFIRMATION"))
    BY <1>2, BecomesSome
  <2>6. /\ h \in Places(q) /\ \A p \in Places(q) : h <= p
        /\ Marks(r, q, s, h, r[i].identifier, f.mapped) /\ ~Retired(r[i])
    BY <1>1, <1>8 DEF PopsMapping, Shortened, Marks, Retired
  <2>7. Pair(r1, q, z, w1, s, t)
    BY <1>1, <1>2, <1>8, <2>4, <2>5, <2>6, ReleaseHandled
  <2>8. /\ r1[i].fsm.state = "AWAIT_CONFIRMATION" /\ r1[i].fsm.skip = f.skip + 1
        /\ r1[i].fsm.mapped = NoId /\ r2[i].hidden
        /\ r1[i].identifier = r[i].identifier /\ DOMAIN r2 = DOMAIN r1
        /\ \A k \in DOMAIN r1 \ {i} : r2[k] = r1[k]
    BY <1>3, <1>8, <2>5 DEF Becomes, Released
  <2>9. Pair(r2, q2, z, w2, s, t)
    BY <1>3, <2>3, <2>4, <2>7, <2>8, RetireOnMappingKeeps
  <2>10. SkipsFit(r2)
    BY <1>2, <2>3, SkipsKept
  <2> QED BY <2>2, <2>9, <2>10
<1> QED BY <1>2, <1>5, <1>6, <1>7, <1>8

\* The reply is that nothing has the identifier.
LEMMA NoticedHandled ==
    ASSUME NEW r, NEW q, NEW z, NEW w, NEW s, NEW t, Pair(r, q, z, w, s, t), SkipsFit(r),
           NEW q2, NEW h, NEW i, PopsNoticed(q, q2, h, s, i), r[i].fsm \in Fsm,
           NEW st, st = process_rcvd_noticed(r[i].fsm),
           NEW r2, IF st.alive THEN Becomes(r, r2, i, st.fsm) ELSE Erases(r, r2, i),
           NEW w2, Sends(w, w2, t, i, st.out)
    PROVE  st.ok /\ Pair(r2, q2, z, w2, s, t) /\ SkipsFit(r2)
<1>1. PICK f \in Fsm : f = r[i].fsm
  OBVIOUS
<1>2. /\ i \in DOMAIN r
      /\ f.state \in {"UNUSED_UNCONFIRMED", "MAPPED_UNCONFIRMED", "AWAIT_CONFIRMATION"}
  BY <1>1 DEF Pair, End, Replied, RepliesPending, PopsNoticed, Shortened, Unconfirmed
<1>3. CASE f.state = "UNUSED_UNCONFIRMED"
  <2>1. st = Step(To(f, "UNUSED_CONFIRMED"), <<>>, <<>>)
    BY <1>1, <1>3 DEF process_rcvd_noticed
  <2>2. st.ok /\ st.alive /\ st.out = <<>> /\ st.fsm = To(f, "UNUSED_CONFIRMED")
    BY <2>1, StepParts
  <2>3. f.mapped = NoId
    BY <1>1, <1>2, <1>3 DEF Pair, End, Fit
  <2>4. st.fsm.state = "UNUSED_CONFIRMED" /\ st.fsm.skip = f.skip /\ st.fsm.mapped = NoId
    BY <2>2, <2>3, MachineParts DEF States, NoId
  <2>5. w2 = w /\ Becomes(r, r2, i, st.fsm)
    BY <2>2, SendsParts
  <2>6. Pair(r2, q2, z, w, s, t)
    BY <1>1, <1>3, <2>3, <2>4, <2>5, ConfirmNoticedKeeps DEF Becomes
  <2>7. SkipsFit(r2)
    BY <2>4, <2>5, SkipsKept
  <2> QED BY <2>2, <2>5, <2>6, <2>7
<1>4. ASSUME NEW to, NEW via, st.alive, st.out = <<Out("RemovedAck", f.mapped)>>,
             st.fsm.state = to, st.fsm.skip = f.skip + 1, st.fsm.mapped = NoId, f.mapped # NoId,
             \/ f.state = "MAPPED_UNCONFIRMED" /\ via = "UNUSED_UNCONFIRMED"
                   /\ to = "UNUSED_CONFIRMED"
             \/ f.state = "AWAIT_CONFIRMATION" /\ via = "AWAIT_CONFIRMATION"
                   /\ to = "AWAIT_REMOVALS"
      PROVE  Pair(r2, q2, z, w2, s, t) /\ SkipsFit(r2)
  <2>1. PICK n : PushesRemovedAck(w, w2, n, t, f.mapped)
    <3>1. PICK n : SendsOne(w, w2, n, t, i, Out("RemovedAck", f.mapped))
      BY <1>4, SendsParts
    <3> QED BY <3>1 DEF SendsOne, Out
  <2>2. PICK r1 : Becomes(r, r1, i, Released(f, via))
    BY <1>2, BecomesSome
  <2>3. /\ h \in Places(q) /\ \A p \in Places(q) : h <= p
        /\ Marks(r, q, s, h, r[i].identifier, f.mapped) /\ ~Retired(r[i])
    BY <1>1, <1>4 DEF PopsNoticed, Shortened, Marks, Retired
  <2>4. Pair(r1, q, z, w2, s, t)
    BY <1>1, <1>2, <1>4, <2>1, <2>2, <2>3, ReleaseHandled
  <2>5. Becomes(r, r2, i, st.fsm)
    BY <1>4
  <2>6. Becomes(r1, r2, i, st.fsm) /\ r1[i].fsm = Released(f, via)
    BY <1>2, <2>2, <2>5, BecomesTwice DEF Becomes
  <2>7. r1[i].fsm.state = via /\ r1[i].fsm.skip = f.skip + 1 /\ r1[i].fsm.mapped = NoId
    BY <2>6 DEF Released
  <2>8. Pair(r2, q2, z, w2, s, t)
    BY <1>4, <2>4, <2>6, <2>7, ConfirmNoticedKeeps DEF Becomes
  <2>9. st.fsm.skip # 0
    BY <1>4 DEF Fsm
  <2>10. SkipsFit(r2)
    BY <1>4, <2>5, <2>9, SkipsKept
  <2> QED BY <2>8, <2>10
<1>5. CASE f.state = "MAPPED_UNCONFIRMED"
  <2>1. st = Step(SkipOneMore(MapTo(f, "UNUSED_CONFIRMED", NoId)),
            <<Out("RemovedAck", f.mapped)>>, <<FALSE>>)
    BY <1>1, <1>5 DEF process_rcvd_noticed
  <2>2. /\ st.ok /\ st.alive /\ st.out = <<Out("RemovedAck", f.mapped)>>
        /\ st.fsm = SkipOneMore(MapTo(f, "UNUSED_CONFIRMED", NoId))
    BY <2>1, StepParts
  <2>3. st.fsm.state = "UNUSED_CONFIRMED" /\ st.fsm.skip = f.skip + 1 /\ st.fsm.mapped = NoId
    BY <2>2, MachineParts DEF States, NoId
  <2>4. f.mapped # NoId
    BY <1>1, <1>2, <1>5 DEF Pair, End, Fit, is_mapped
  <2> QED BY <1>4, <1>5, <2>2, <2>3, <2>4
<1>6. CASE f.state = "AWAIT_CONFIRMATION" /\ f.mapped # NoId
  <2>1. st = Step(SkipOneMore(MapTo(f, "AWAIT_REMOVALS", NoId)), <<Out("RemovedAck", f.mapped)>>,
            <<>>)
    BY <1>1, <1>6 DEF process_rcvd_noticed
  <2>2. /\ st.ok /\ st.alive /\ st.out = <<Out("RemovedAck", f.mapped)>>
        /\ st.fsm = SkipOneMore(MapTo(f, "AWAIT_REMOVALS", NoId))
    BY <2>1, StepParts
  <2>3. st.fsm.state = "AWAIT_REMOVALS" /\ st.fsm.skip = f.skip + 1 /\ st.fsm.mapped = NoId
    BY <2>2, MachineParts DEF States, NoId
  <2> QED BY <1>4, <1>6, <2>2, <2>3
<1>7. CASE f.state = "AWAIT_CONFIRMATION" /\ f.mapped = NoId
  <2>1. st = Dead(f)
    BY <1>1, <1>7 DEF process_rcvd_noticed
  <2>2. ~st.alive /\ st.ok /\ st.out = <<>>
    BY <2>1, DeadParts
  <2>3. w2 = w /\ Erases(r, r2, i)
    BY <2>2, SendsParts
  <2>4. f.skip = 0
    BY <1>1, <1>2, <1>7 DEF SkipsFit
  <2>5. PICK r1 : Becomes(r, r1, i, [state |-> "AWAIT_REMOVALS", skip |-> 0, mapped |-> NoId])
    BY <1>2, BecomesSome
  <2>6. r1[i].fsm.state = "AWAIT_REMOVALS" /\ r1[i].fsm.skip = 0 /\ r1[i].fsm.mapped = NoId
    BY <2>5 DEF Becomes
  <2>7. Pair(r1, q2, z, w, s, t)
    BY <1>1, <1>7, <2>4, <2>5, <2>6, ConfirmNoticedKeeps DEF Becomes
  <2>8. Erases(r1, r2, i) /\ i \in DOMAIN r1
    BY <1>2, <2>3, <2>5, BecomesTwice DEF Becomes
  <2>9. Pair(r2, q2, z, w, s, t)
    BY <2>6, <2>7, <2>8, EraseKeeps DEF Erases
  <2>10. SkipsFit(r2)
    BY <2>3, SkipsKept
  <2> QED BY <2>2, <2>3, <2>9, <2>10
<1> QED BY <1>2, <1>3, <1>5, <1>6, <1>7

\* A removal: the element is one that waits for it.
LEMMA RemovalExpected ==
    ASSUME NEW r, NEW q, NEW z, NEW w, NEW s, NEW t, Pair(r, q, z, w, s, t), SkipsFit(r),
           NEW q2, NEW h, NEW i, PopsRemoved(q, q2, h, s, i)
    PROVE  /\ i \in DOMAIN r
           /\ r[i].fsm.state \in {"UNUSED_CONFIRMED", "MAPPED_CONFIRMED", "AWAIT_ACK",
                  "AWAIT_REMOVALS"}
           /\ r[i].fsm.mapped = NoId => r[i].fsm.skip > 0
<1>1. /\ h \in Places(q) /\ Removes(q, s, h, i) /\ \A p \in Places(q) : ~(p < h)
      /\ q[h].type = "Removed" /\ q[h].to = s /\ q[h].id = i
  BY DEF PopsRemoved, Shortened, Removes
<1>2. i \in DOMAIN r
  BY <1>1 DEF Pair, End, Linked, AddresseesLive
<1>3. /\ Typed(r) /\ Queue(q) /\ ReplyComing(r, q, w, s, t) /\ RepliesFirst(r, q, s)
      /\ Unknown(r, q, z, w, s, t) /\ Counted(r, q, z, w, s, t) /\ Fit(r)
  BY DEF Pair, End, Replied, Linked
<1>4. ~HasReply(q, s, i)
  BY <1>1, <1>2, <1>3 DEF RepliesFirst, HasReply
<1>5. ~HasDescription(w, t, i)
  BY <1>1, <1>2, <1>3 DEF Unknown, HasDescription, Speaks
<1>6. ~Unconfirmed(r[i])
  BY <1>2, <1>3, <1>4, <1>5 DEF ReplyComing
<1>7. ASSUME r[i].fsm.mapped = NoId
      PROVE  r[i].fsm.skip > 0
  <2>1. Removals(q, s, i) \in Nat /\ Removals(q, s, i) # 0
    BY <1>1, <1>3, RemovalsCount
  <2>2. r[i].fsm.skip \in Nat
    BY <1>2, <1>3 DEF Typed
  <2>3. \A j : ~HasMapping(q, s, i, j)
    BY <1>4 DEF HasMapping, Maps, HasReply, Replies
  <2>4. Holdings(r, q, s, i) = 0
    BY <1>7, <2>3 DEF Holdings
  <2>5. CASE ~Acked(q, s, i)
    <3>1. Removals(q, s, i) + Cardinality(Owing(z, w, t, i)) = r[i].fsm.skip
      BY <1>2, <1>3, <2>2, <2>4, <2>5 DEF Counted
    <3>2. IsFiniteSet(Owing(z, w, t, i))
      BY FS_Subset DEF Owing, Pair, End, Typed
    <3>3. Cardinality(Owing(z, w, t, i)) \in Nat
      BY <3>2, FS_CardinalityType
    <3> QED BY <2>1, <2>2, <3>1, <3>3
  <2>6. CASE Acked(q, s, i)
    <3>1. AckedEarly(r, q, s, i) \/ AckedLate(r, q, z, w, s, t, i)
      BY <1>2, <1>3, <2>6 DEF Counted
    <3>2. Removals(q, s, i) + 1 = r[i].fsm.skip \/ Removals(q, s, i) = r[i].fsm.skip
      BY <2>2, <2>4, <3>1 DEF AckedEarly, AckedLate
    <3> QED BY <2>1, <2>2, <3>2
  <2> QED BY <2>5, <2>6
<1>8. r[i].fsm.state \in {"UNUSED_CONFIRMED", "MAPPED_CONFIRMED", "AWAIT_ACK", "AWAIT_REMOVALS"}
  BY <1>2, <1>3, <1>6 DEF Unconfirmed, Typed, States
<1> QED BY <1>2, <1>7, <1>8

\* The machine gets it.
LEMMA RemovedHandled ==
    ASSUME NEW r, NEW q, NEW z, NEW w, NEW s, NEW t, Pair(r, q, z, w, s, t), SkipsFit(r),
           SkipsFit(z),
           NEW q2, NEW h, NEW i, PopsRemoved(q, q2, h, s, i), r[i].fsm \in Fsm,
           NEW st, st = process_rcvd_removed(r[i].fsm),
           NEW r2, IF st.alive THEN Becomes(r, r2, i, st.fsm) ELSE Erases(r, r2, i),
           NEW w2, Sends(w, w2, t, i, st.out)
    PROVE  st.ok /\ Pair(r2, q2, z, w2, s, t) /\ SkipsFit(r2)
<1>1. PICK f \in Fsm : f = r[i].fsm
  OBVIOUS
<1>2. /\ i \in DOMAIN r
      /\ f.state \in {"UNUSED_CONFIRMED", "MAPPED_CONFIRMED", "AWAIT_ACK", "AWAIT_REMOVALS"}
      /\ f.mapped = NoId => f.skip > 0
  BY <1>1, RemovalExpected
<1>3. /\ f.state \in {"UNUSED_CONFIRMED", "AWAIT_REMOVALS"} => f.mapped = NoId
      /\ f.state = "MAPPED_CONFIRMED" => f.mapped # NoId
      /\ f.state = "AWAIT_ACK" => f.mapped # NoId
  BY <1>1, <1>2 DEF Pair, End, Fit, is_mapped, SkipsFit
<1>4. f.skip \in Nat /\ f.mapped \in Nat
  BY DEF Fsm
<1>5. ASSUME f.skip > 0, st = Step(SkipOne(f), <<>>, <<>>), f.state = "AWAIT_REMOVALS" => f.skip > 1
      PROVE  st.ok /\ Pair(r2, q2, z, w2, s, t) /\ SkipsFit(r2)
  <2>1. st.ok /\ st.alive /\ st.out = <<>> /\ st.fsm = SkipOne(f)
    BY <1>5, StepParts
  <2>2. st.fsm.state = f.state /\ st.fsm.skip = f.skip - 1 /\ st.fsm.mapped = f.mapped
    BY <2>1 DEF SkipOne, Fsm
  <2>3. w2 = w /\ Becomes(r, r2, i, st.fsm)
    BY <2>1, SendsParts
  <2>4. Pair(r2, q2, z, w, s, t)
    BY <1>1, <1>5, <2>2, <2>3, SkipKeeps DEF Becomes
  <2>5. st.fsm.state = "AWAIT_REMOVALS" => st.fsm.skip # 0
    BY <1>4, <1>5, <2>2
  <2>6. /\ st.fsm.state # "UNUSED_UNCONFIRMED" /\ st.fsm.state # "AWAIT_CONFIRMATION"
        /\ st.fsm.state = "AWAIT_ACK" => st.fsm.mapped # NoId
    BY <1>2, <1>3, <2>2
  <2>7. SkipsFit(r2)
    BY <2>3, <2>5, <2>6, SkipsKept
  <2> QED BY <2>1, <2>3, <2>4, <2>7
<1>6. ASSUME f.skip = 0, NEW to \in States, NEW c,
             st = Step(MapTo(f, to, NoId), <<Out("RemovedAck", f.mapped)>>, c),
             \/ f.state = "MAPPED_CONFIRMED" /\ to = "UNUSED_CONFIRMED"
             \/ f.state = "AWAIT_ACK" /\ to = "AWAIT_ACK"
      PROVE  st.ok /\ Pair(r2, q2, z, w2, s, t) /\ SkipsFit(r2)
  <2>1. st.ok /\ st.alive /\ st.out = <<Out("RemovedAck", f.mapped)>> /\ st.fsm = MapTo(f, to, NoId)
    BY <1>6, StepParts
  <2>2. st.fsm.state = to /\ st.fsm.skip = 0 /\ st.fsm.mapped = NoId
    BY <1>6, <2>1, MachineParts DEF NoId
  <2>3. PICK n : PushesRemovedAck(w, w2, n, t, f.mapped)
    <3>1. PICK n : SendsOne(w, w2, n, t, i, Out("RemovedAck", f.mapped))
      BY <2>1, SendsParts
    <3> QED BY <3>1 DEF SendsOne, Out
  <2>4. Becomes(r, r2, i, st.fsm)
    BY <2>1
  <2>5. f.mapped # NoId
    BY <1>3, <1>6
  <2>6. Pair(r2, q2, z, w2, s, t)
    BY <1>1, <1>6, <2>2, <2>3, <2>4, <2>5, GiveKeeps DEF Becomes
  <2>7. SkipsFit(r2)
    BY <1>6, <2>2, <2>4, SkipsKept
  <2> QED BY <2>1, <2>6, <2>7
<1>7. CASE f.state = "UNUSED_CONFIRMED"
  <2>1. f.skip > 0
    BY <1>2, <1>3, <1>7
  <2>2. st = Step(SkipOne(f), <<>>, <<>>)
    BY <1>1, <1>7, <2>1 DEF process_rcvd_removed, Asserting
  <2> QED BY <1>5, <1>7, <2>1, <2>2
<1>8. CASE f.state \in {"MAPPED_CONFIRMED", "AWAIT_ACK"} /\ f.skip > 0
  <2>1. f.mapped # NoId
    BY <1>3, <1>8
  <2>2. st = Step(SkipOne(f), <<>>, <<>>)
    <3>1. CASE f.state = "MAPPED_CONFIRMED"
      BY <1>1, <1>4, <1>8, <3>1 DEF process_rcvd_removed
    <3>2. CASE f.state = "AWAIT_ACK"
      BY <1>1, <1>4, <1>8, <2>1, <3>2 DEF process_rcvd_removed, Asserting
    <3> QED BY <1>8, <3>1, <3>2
  <2> QED BY <1>5, <1>8, <2>2
<1>9. CASE f.state = "MAPPED_CONFIRMED" /\ f.skip = 0
  <2>1. st = Step(MapTo(f, "UNUSED_CONFIRMED", NoId), <<Out("RemovedAck", f.mapped)>>, <<FALSE>>)
    BY <1>1, <1>9 DEF process_rcvd_removed
  <2> QED BY <1>6, <1>9, <2>1 DEF States
<1>10. CASE f.state = "AWAIT_ACK" /\ f.skip = 0
  <2>1. f.mapped # NoId
    BY <1>3, <1>10
  <2>2. st = Step(MapTo(f, "AWAIT_ACK", NoId), <<Out("RemovedAck", f.mapped)>>, <<>>)
    BY <1>1, <1>10, <2>1 DEF process_rcvd_removed, Asserting
  <2> QED BY <1>6, <1>10, <2>2 DEF States
<1>11. CASE f.state = "AWAIT_REMOVALS" /\ f.skip > 1
  <2>1. st = Step(SkipOne(f), <<>>, <<>>)
    BY <1>1, <1>4, <1>11 DEF process_rcvd_removed
  <2>2. f.skip > 0
    BY <1>4, <1>11
  <2> QED BY <1>5, <1>11, <2>1, <2>2
<1>12. CASE f.state = "AWAIT_REMOVALS" /\ ~(f.skip > 1)
  <2>1. f.skip = 1 /\ f.mapped = NoId
    BY <1>2, <1>3, <1>4, <1>12
  <2>2. st = Dead(f)
    BY <1>1, <1>12, <2>1 DEF process_rcvd_removed, Asserting
  <2>3. ~st.alive /\ st.ok /\ st.out = <<>>
    BY <2>2, DeadParts
  <2>4. w2 = w /\ Erases(r, r2, i)
    BY <2>3, SendsParts
  <2>5. PICK r1 : Becomes(r, r1, i, [state |-> "AWAIT_REMOVALS", skip |-> 0, mapped |-> NoId])
    BY <1>2, BecomesSome
  <2>6. r1[i].fsm.state = "AWAIT_REMOVALS" /\ r1[i].fsm.skip = 0 /\ r1[i].fsm.mapped = NoId
    BY <2>5 DEF Becomes
  <2>7. r[i].fsm.skip > 0 /\ r1[i].fsm.skip = r[i].fsm.skip - 1
           /\ r1[i].fsm.mapped = r[i].fsm.mapped
        /\ r1[i].fsm.state = r[i].fsm.state
    BY <1>1, <1>12, <2>1, <2>6
  <2>8. Pair(r1, q2, z, w, s, t)
    BY <2>5, <2>7, SkipKeeps DEF Becomes
  <2>9. Erases(r1, r2, i) /\ i \in DOMAIN r1
    BY <1>2, <2>4, <2>5, BecomesTwice DEF Becomes
  <2>10. Pair(r2, q2, z, w, s, t)
    BY <2>6, <2>8, <2>9, EraseKeeps DEF Erases
  <2>11. SkipsFit(r2)
    BY <2>4, SkipsKept
  <2> QED BY <2>3, <2>4, <2>10, <2>11
<1>13. f.skip > 0 \/ f.skip = 0
  BY <1>4
<1> QED BY <1>2, <1>7, <1>8, <1>9, <1>10, <1>11, <1>12, <1>13

\* Its removal is acknowledged: the element is erased.
LEMMA RemovedAckHandled ==
    ASSUME NEW r, NEW q, NEW z, NEW w, NEW s, NEW t, Pair(r, q, z, w, s, t), SkipsFit(r),
           NEW q2, NEW h, NEW i, PopsRemovedAck(q, q2, h, s, i),
           NEW st, st = process_rcvd_removed_ack(r[i].fsm),
           NEW r2, IF st.alive THEN Becomes(r, r2, i, st.fsm) ELSE Erases(r, r2, i),
           NEW w2, Sends(w, w2, t, i, st.out)
    PROVE  i \in DOMAIN r /\ st.ok /\ Pair(r2, q2, z, w2, s, t) /\ SkipsFit(r2)
<1>1. i \in DOMAIN r /\ r[i].fsm.state = "AWAIT_ACK" /\ r[i].fsm.skip = 0
  BY AckReceived
<1>2. st = Dead(r[i].fsm)
  BY <1>1 DEF process_rcvd_removed_ack, Asserting
<1>3. ~st.alive /\ st.ok /\ st.out = <<>>
  BY <1>2, DeadParts
<1>4. w2 = w /\ Erases(r, r2, i)
  BY <1>3, SendsParts
<1>5. PICK r1 : Becomes(r, r1, i, [state |-> "AWAIT_REMOVALS", skip |-> 0, mapped |-> NoId])
  BY <1>1, BecomesSome
<1>6. r1[i].fsm.state = "AWAIT_REMOVALS" /\ r1[i].fsm.skip = 0 /\ r1[i].fsm.mapped = NoId
  BY <1>5 DEF Becomes
<1>7. Pair(r1, q2, z, w, s, t)
  BY <1>5, <1>6, AckKeeps DEF Becomes
<1>8. Erases(r1, r2, i) /\ i \in DOMAIN r1
  BY <1>1, <1>4, <1>5, BecomesTwice DEF Becomes
<1>9. Pair(r2, q2, z, w, s, t)
  BY <1>6, <1>7, <1>8, EraseKeeps DEF Erases
<1>10. SkipsFit(r2)
  BY <1>4, SkipsKept
<1> QED BY <1>1, <1>3, <1>4, <1>9, <1>10

\* A visible element is destroyed.
LEMMA DestroyedHandled ==
    ASSUME NEW r, NEW q, NEW z, NEW w, NEW s, NEW t, Pair(r, q, z, w, s, t), SkipsFit(r),
           NEW i \in DOMAIN r, ~r[i].hidden, r[i].fsm \in Fsm,
           NEW st, st = process_object_destroyed(r[i].fsm),
           NEW r2, IF st.alive THEN Hides(r, r2, i, st.fsm) ELSE Erases(r, r2, i),
           NEW w2, Sends(w, w2, t, i, st.out)
    PROVE  st.ok /\ Pair(r2, q, z, w2, s, t) /\ SkipsFit(r2)
<1>1. PICK f \in Fsm : f = r[i].fsm
  OBVIOUS
<1>2. /\ f.state \in {"UNUSED_UNCONFIRMED", "UNUSED_CONFIRMED", "MAPPED_UNCONFIRMED",
             "MAPPED_CONFIRMED"}
      /\ is_mapped(f) => f.mapped # NoId
      /\ f.state = "UNUSED_UNCONFIRMED" => f.skip = 0
      /\ f.skip \in Nat
  BY <1>1 DEF Pair, End, Fit, destroyed, Fsm, States, SkipsFit
<1>3. ASSUME NEW to \in States, st = Step(To(f, to), <<>>, <<>>),
             \/ f.state \in {"UNUSED_UNCONFIRMED", "MAPPED_UNCONFIRMED"}
                   /\ to = "AWAIT_CONFIRMATION"
             \/ f.state = "UNUSED_CONFIRMED" /\ f.skip > 0 /\ to = "AWAIT_REMOVALS"
      PROVE  st.ok /\ Pair(r2, q, z, w2, s, t) /\ SkipsFit(r2)
  <2>1. st.ok /\ st.alive /\ st.out = <<>> /\ st.fsm = To(f, to)
    BY <1>3, StepParts
  <2>2. st.fsm.state = to /\ st.fsm.skip = f.skip /\ st.fsm.mapped = f.mapped
    BY <2>1 DEF To, Fsm
  <2>3. w2 = w /\ Hides(r, r2, i, st.fsm)
    BY <2>1, SendsParts
  <2>4. Pair(r2, q, z, w, s, t)
    BY <1>1, <1>3, <2>2, <2>3, HideKeeps DEF Hides
  <2>5. /\ st.fsm.state = "AWAIT_REMOVALS" => st.fsm.skip # 0
        /\ st.fsm.state = "AWAIT_CONFIRMATION" /\ st.fsm.mapped = NoId => st.fsm.skip = 0
    BY <1>2, <1>3, <2>2 DEF is_mapped
  <2>6. SkipsFit(r2)
    BY <1>3, <2>2, <2>3, <2>5, SkipsKept
  <2> QED BY <2>1, <2>3, <2>4, <2>6
<1>4. CASE f.state = "MAPPED_CONFIRMED"
  <2>1. st = Step(To(f, "AWAIT_ACK"), <<Out("Removed", f.mapped)>>, <<>>)
    BY <1>1, <1>4 DEF process_object_destroyed
  <2>2. st.ok /\ st.alive /\ st.out = <<Out("Removed", f.mapped)>> /\ st.fsm = To(f, "AWAIT_ACK")
    BY <2>1, StepParts
  <2>3. st.fsm.state = "AWAIT_ACK" /\ st.fsm.skip = f.skip /\ st.fsm.mapped = f.mapped
    BY <2>2 DEF To, Fsm
  <2>4. PICK n : PushesRemoved(w, w2, n, t, f.mapped)
    <3>1. PICK n : SendsOne(w, w2, n, t, i, Out("Removed", f.mapped))
      BY <2>2, SendsParts
    <3> QED BY <3>1 DEF SendsOne, Out
  <2>5. Hides(r, r2, i, st.fsm)
    BY <2>2
  <2>6. Pair(r2, q, z, w2, s, t)
    BY <1>1, <1>4, <2>3, <2>4, <2>5, RetireKeeps DEF Hides
  <2>7. st.fsm.mapped # NoId
    BY <1>2, <1>4, <2>3 DEF is_mapped
  <2>8. SkipsFit(r2)
    BY <2>3, <2>5, <2>7, SkipsKept
  <2> QED BY <2>2, <2>6, <2>8
<1>5. CASE f.state = "UNUSED_CONFIRMED" /\ f.skip > 0
  <2>1. st = Step(To(f, "AWAIT_REMOVALS"), <<>>, <<>>)
    BY <1>1, <1>5 DEF process_object_destroyed
  <2> QED BY <1>3, <1>5, <2>1 DEF States
<1>6. CASE f.state = "UNUSED_CONFIRMED" /\ f.skip = 0
  <2>1. st = Dead(f)
    BY <1>1, <1>6 DEF process_object_destroyed
  <2>2. ~st.alive /\ st.ok /\ st.out = <<>>
    BY <2>1, DeadParts
  <2>3. w2 = w /\ Erases(r, r2, i)
    BY <2>2, SendsParts
  <2>4. Pair(r2, q, z, w, s, t)
    BY <1>1, <1>6, <2>3, EraseKeeps DEF Erases
  <2>5. SkipsFit(r2)
    BY <2>3, SkipsKept
  <2> QED BY <2>2, <2>3, <2>4, <2>5
<1>7. CASE f.state \in {"MAPPED_UNCONFIRMED", "UNUSED_UNCONFIRMED"}
  <2>1. st = Step(To(f, "AWAIT_CONFIRMATION"), <<>>, <<>>)
    BY <1>1, <1>7 DEF process_object_destroyed
  <2> QED BY <1>3, <1>7, <2>1 DEF States
<1>8. f.skip > 0 \/ f.skip = 0
  BY <1>2
<1> QED BY <1>2, <1>4, <1>5, <1>6, <1>7, <1>8

\* Element i of identifier x is new.
Appears(r, r2, i, x) ==
    /\ i \notin DOMAIN r /\ DOMAIN r2 = DOMAIN r \cup {i} /\ \A k \in DOMAIN r : r2[k] = r[k]
    /\ r2[i].identifier = x /\ ~r2[i].hidden
    /\ r2[i].fsm.state = "UNUSED_UNCONFIRMED" /\ r2[i].fsm.skip = 0 /\ r2[i].fsm.mapped = NoId

\* No visible element has the identifier x.
Nobody(r, x) == \A k \in DOMAIN r : r[k].identifier = x => r[k].hidden

\* An object is created and described.
LEMMA CreateHandled ==
    ASSUME NEW r, NEW q, NEW z, NEW w, NEW s, NEW t, Pair(r, q, z, w, s, t), SkipsFit(r),
           NEW i \in Nat \ {NoId}, NEW x, Nobody(r, x), NEW r2, Appears(r, r2, i, x),
           NEW w2, NEW n, PushesDescription(w, w2, n, t, i), w2[n].identifier = x
    PROVE  Pair(r2, q, z, w2, s, t) /\ SkipsFit(r2)
<1>1. Pair(r2, q, z, w2, s, t)
  <2>1. /\ i \notin DOMAIN r /\ DOMAIN r2 = DOMAIN r \cup {i} /\ \A k \in DOMAIN r : r2[k] = r[k]
        /\ r2[i].identifier = x /\ ~r2[i].hidden
        /\ r2[i].fsm.state = "UNUSED_UNCONFIRMED" /\ r2[i].fsm.skip = 0 /\ r2[i].fsm.mapped = NoId
    BY DEF Appears
  <2>2. \A k \in DOMAIN r : r[k].identifier = x => r[k].hidden
    BY DEF Nobody
  <2> QED BY <2>1, <2>2, CreateKeeps
<1>2. SkipsFit(r2)
  BY DEF SkipsFit, Appears
<1> QED BY <1>1, <1>2

\* Before an end starts nothing of the remote one refers to it.
LEMMA BeforeStart ==
    ASSUME NEW r, NEW q, NEW z, NEW w, NEW s, NEW t, Pair(r, q, z, w, s, t),
           DOMAIN r = {}, Places(w) = {}
    PROVE  /\ \A p \in Places(q) : q[p].to = s =>
                 q[p].type \notin {"Mapping", "Noticed", "Removed", "RemovedAck"}
           /\ \A j \in DOMAIN z : /\ z[j].fsm.mapped = NoId /\ z[j].fsm.skip = 0
                                  /\ ~Retired(z[j]) /\ ~is_mapped(z[j].fsm)
           /\ \A j \in DOMAIN z : Unconfirmed(z[j]) => HasDescription(q, s, j)
<1>1. /\ AddresseesLive(r, q, s) /\ PartnersLive(r, z, w, t) /\ Counted(z, w, r, q, t, s)
      /\ CrossedKnown(r, q, z, w, s, t) /\ ReplyComing(z, w, q, t, s) /\ Fit(z) /\ Typed(z)
      /\ Queue(w)
  BY DEF Pair, End, Linked, Replied
<1>2. \A p \in Places(q) : q[p].to = s =>
          q[p].type \notin {"Mapping", "Noticed", "Removed", "RemovedAck"}
  BY <1>1 DEF AddresseesLive
<1>3. \A j : ~HasReply(w, t, j) /\ ~Acked(w, t, j) /\ \A i : ~HasMapping(w, t, j, i)
  BY DEF HasReply, Acked, HasMapping
<1>4. ASSUME NEW j \in DOMAIN z
      PROVE  z[j].fsm.mapped = NoId /\ z[j].fsm.skip = 0 /\ ~Retired(z[j]) /\ ~is_mapped(z[j].fsm)
  <2>1. z[j].fsm.mapped \in Nat /\ z[j].fsm.skip \in Nat
    BY <1>1, <1>4 DEF Typed
  <2>2. Removals(w, t, j) = 0
    BY <1>1, RemovalsCount
  <2>3. Owing(r, q, s, j) = {}
    BY DEF Owing
  <2>4. Removals(w, t, j) + Cardinality(Owing(r, q, s, j)) = z[j].fsm.skip + Holdings(z, w, t, j)
    BY <1>1, <1>3, <1>4 DEF Counted
  <2>5. 0 = z[j].fsm.skip + Holdings(z, w, t, j)
    BY <2>2, <2>3, <2>4, FS_EmptySet
  <2>6. z[j].fsm.skip = 0 /\ z[j].fsm.mapped = NoId
    BY <2>1, <2>5, <1>3 DEF Holdings
  <2>7. ~Retired(z[j])
    BY <1>1, <1>3, <1>4, <2>6 DEF CrossedKnown
  <2>8. ~is_mapped(z[j].fsm)
    BY <1>1, <1>4, <2>6 DEF Fit
  <2> QED BY <2>6, <2>7, <2>8
<1>5. \A j \in DOMAIN z : Unconfirmed(z[j]) => HasDescription(q, s, j)
  BY <1>1, <1>3 DEF ReplyComing
<1> QED BY <1>2, <1>4, <1>5

\* An end starts: it describes all of its elements, or none, in which case the
\* remote ones are going to be described to it.
LEMMA StartHandled ==
    ASSUME NEW r, NEW q, NEW z, NEW w, NEW s, NEW t, Pair(r, q, z, w, s, t),
           DOMAIN r = {}, Places(w) = {},
           NEW r2, Typed(r2), OneVisible(r2), NEW w2, Queue(w2),
           \A i \in DOMAIN r2 :
               /\ ~r2[i].hidden /\ r2[i].fsm.skip = 0 /\ r2[i].fsm.mapped = NoId
               /\ r2[i].fsm.state \in {"UNUSED_CONFIRMED", "UNUSED_UNCONFIRMED"},
           \A p \in Places(w2) :
               /\ w2[p].type = "Description" /\ w2[p].to = t /\ w2[p].own \in DOMAIN r2
               /\ w2[p].identifier = r2[w2[p].own].identifier /\ Unconfirmed(r2[w2[p].own]),
           \A p, k \in Places(w2) : w2[p].own = w2[k].own => p = k,
           \A i \in DOMAIN r2 : Unconfirmed(r2[i]) => HasDescription(w2, t, i),
           \A i \in DOMAIN r2, j \in DOMAIN z : Unconfirmed(r2[i]) \/ Unconfirmed(z[j])
    PROVE  Pair(r2, q, z, w2, s, t) /\ SkipsFit(r2)
<1>1. /\ \A p \in Places(q) : q[p].to = s =>
            q[p].type \notin {"Mapping", "Noticed", "Removed", "RemovedAck"}
      /\ \A j \in DOMAIN z : /\ z[j].fsm.mapped = NoId /\ z[j].fsm.skip = 0
                             /\ ~Retired(z[j]) /\ ~is_mapped(z[j].fsm)
      /\ \A j \in DOMAIN z : Unconfirmed(z[j]) => HasDescription(q, s, j)
  BY BeforeStart
<1>2. /\ Typed(z) /\ Queue(q) /\ Fit(z) /\ OneVisible(z)
      /\ LatestFollows(r, q, z, s) /\ Once(z, w, q, t, s) /\ DescriptionsPending(z, w, q, t, s)
  BY DEF Pair, End, Linked, Replied, Ordered
<1>3. /\ \A p \in Places(q) : \A i : ~Speaks(q, s, p, i) /\ ~Replies(q, s, p, i)
            /\ ~Removes(q, s, p, i)
      /\ \A i : ~HasReply(q, s, i) /\ ~Acked(q, s, i) /\ Removals(q, s, i) = 0
      /\ \A i, j : ~HasMapping(q, s, i, j)
  <2>1. \A p \in Places(q) : \A i :
            /\ ~Replies(q, s, p, i) /\ ~Removes(q, s, p, i) /\ ~Acks(q, s, p, i)
            /\ \A j : ~Maps(q, s, p, i, j)
    BY <1>1 DEF Replies, Removes, Acks, Maps
  <2>2. \A i : Removals(q, s, i) = 0
    BY <1>2, <2>1, RemovalsCount
  <2> QED BY <2>1, <2>2 DEF Speaks, HasReply, Acked, HasMapping
<1>4. /\ \A p \in Places(w2) : \A i :
             /\ ~Speaks(w2, t, p, i) /\ ~Replies(w2, t, p, i)
             /\ ~Removes(w2, t, p, i) /\ \A j : ~Maps(w2, t, p, i, j)
      /\ \A i : ~HasReply(w2, t, i) /\ ~Acked(w2, t, i) /\ Removals(w2, t, i) = 0
      /\ \A i, j : ~HasMapping(w2, t, i, j)
  <2>1. \A p \in Places(w2) : \A i :
            /\ ~Replies(w2, t, p, i) /\ ~Removes(w2, t, p, i) /\ ~Acks(w2, t, p, i)
            /\ \A j : ~Maps(w2, t, p, i, j)
    BY DEF Replies, Removes, Acks, Maps
  <2>2. \A i : Removals(w2, t, i) = 0
    BY <2>1, RemovalsCount
  <2> QED BY <2>1, <2>2 DEF Speaks, HasReply, Acked, HasMapping
<1>5. /\ \A i, j : ~Holds(r2, q, s, i, j) /\ ~Holds(z, w2, t, j, i)
      /\ \A i : Owing(r2, q, s, i) = {} /\ Owing(z, w2, t, i) = {}
  <2>1. \A i, j : ~Holds(r2, q, s, i, j) /\ ~Holds(z, w2, t, j, i)
    BY <1>1, <1>3, <1>4 DEF Holds
  <2> QED BY <2>1 DEF Owing
<1>6. /\ \A i \in DOMAIN r2 : Holdings(r2, q, s, i) = 0
      /\ \A j \in DOMAIN z : Holdings(z, w2, t, j) = 0
  BY <1>1, <1>3, <1>4 DEF Holdings
<1>7. /\ \A i \in DOMAIN r2 : i # NoId /\ ~is_mapped(r2[i].fsm) /\ ~Retired(r2[i])
            /\ ~destroyed(r2[i].fsm)
      /\ \A j \in DOMAIN z : j # NoId
  BY <1>2 DEF Typed, is_mapped, Retired, destroyed
<1>8. Fit(r2) /\ SkipsFit(r2)
  BY <1>7 DEF Fit, SkipsFit
<1>9. Replied(r2, q, z, w2, s, t)
  <2>1. DescriptionsPending(r2, q, w2, s, t)
    BY <1>3 DEF DescriptionsPending
  <2>2. RepliesPending(r2, q, s)
    BY <1>1 DEF RepliesPending
  <2>3. ReplyComing(r2, q, w2, s, t)
    BY DEF ReplyComing
  <2>4. Once(r2, q, w2, s, t)
    BY <1>3 DEF Once, Describes
  <2>5. Unknown(r2, q, z, w2, s, t)
    BY <1>1, <1>3, <1>4, <1>7 DEF Unknown
  <2>6. RepliesFirst(r2, q, s)
    BY <1>3 DEF RepliesFirst
  <2> QED BY <2>1, <2>2, <2>3, <2>4, <2>5, <2>6 DEF Replied
<1>10. Replied(z, w2, r2, q, t, s)
  <2>1. DescriptionsPending(z, w2, q, t, s)
    BY <1>2, <1>4 DEF DescriptionsPending
  <2>2. RepliesPending(z, w2, t)
    BY DEF RepliesPending
  <2>3. ReplyComing(z, w2, q, t, s)
    BY <1>1 DEF ReplyComing
  <2>4. Once(z, w2, q, t, s)
    BY <1>2, <1>4 DEF Once
  <2>5. Unknown(z, w2, r2, q, t, s)
    <3>1. \A p \in Places(q) : \A i, j : ~Maps(q, s, p, i, j)
      BY <1>3 DEF HasMapping
    <3> QED BY <1>4, <1>7, <3>1 DEF Unknown
  <2>6. RepliesFirst(z, w2, t)
    BY <1>4 DEF RepliesFirst
  <2> QED BY <2>1, <2>2, <2>3, <2>4, <2>5, <2>6 DEF Replied
<1>11. Linked(r2, q, z, w2, s, t)
  <2>1. AddresseesLive(r2, q, s)
    BY <1>1 DEF AddresseesLive
  <2>2. PartnersLive(r2, z, w2, t) /\ Mutual(r2, q, z, w2, s, t)
    BY <1>5 DEF PartnersLive, Mutual
  <2>3. Counted(r2, q, z, w2, s, t)
    BY <1>3, <1>5, <1>6, FS_EmptySet DEF Counted
  <2>4. CrossedOnce(r2, q, z, w2, s, t) /\ CrossedKnown(r2, q, z, w2, s, t)
    BY <1>1, <1>3 DEF CrossedOnce, CrossedKnown
  <2>5. OneCandidate(r2) /\ NoticedUnacked(q, s) /\ CandidatesTold(r2, z, w2, t)
    BY <1>1, <1>7 DEF OneCandidate, NoticedUnacked, CandidatesTold
  <2>6. PartnersMeet(r2, q, z, w2, s, t)
    BY <1>1 DEF PartnersMeet
  <2> QED BY <2>1, <2>2, <2>3, <2>4, <2>5, <2>6 DEF Linked
<1>12. Linked(z, w2, r2, q, t, s)
  <2>1. AddresseesLive(z, w2, t)
    BY DEF AddresseesLive
  <2>2. PartnersLive(z, r2, q, s) /\ Mutual(z, w2, r2, q, t, s)
    BY <1>5 DEF PartnersLive, Mutual
  <2>3. Counted(z, w2, r2, q, t, s)
    BY <1>1, <1>4, <1>5, <1>6, FS_EmptySet DEF Counted
  <2>4. CrossedOnce(z, w2, r2, q, t, s) /\ CrossedKnown(z, w2, r2, q, t, s)
    BY <1>4, <1>7 DEF CrossedOnce, CrossedKnown
  <2>5. OneCandidate(z) /\ NoticedUnacked(w2, t) /\ CandidatesTold(z, r2, q, s)
    BY <1>1, <1>7 DEF OneCandidate, NoticedUnacked, CandidatesTold
  <2>6. PartnersMeet(z, w2, r2, q, t, s)
    BY <1>1 DEF PartnersMeet
  <2> QED BY <2>1, <2>2, <2>3, <2>4, <2>5, <2>6 DEF Linked
<1>13. Ordered(r2, q, z, w2, s, t)
  <2>1. LatestFollows(r2, q, z, s)
    <3>1. \A p \in Places(q) : \A x, j : Marks(r2, q, s, p, x, j) => Marks(r, q, s, p, x, j)
      BY <1>1 DEF Marks
    <3> QED BY <1>2, <3>1 DEF LatestFollows
  <2>2. MappingsFollow(r2, q, z, s) /\ NewerFirst(r2, q, s)
    BY <1>1 DEF MappingsFollow, NewerFirst
  <2>3. NewerDescribed(r2, q, z, s)
    BY <1>7 DEF NewerDescribed
  <2>4. RepliesInOrder(r2, q, w2, s, t) /\ RemovalsInOrder(r2, q, z, w2, s, t)
    BY <1>3 DEF RepliesInOrder, RemovalsInOrder
  <2> QED BY <2>1, <2>2, <2>3, <2>4 DEF Ordered
<1>14. Ordered(z, w2, r2, q, t, s)
  <2>1. LatestFollows(z, w2, r2, t)
    BY DEF LatestFollows, Marks, OneVisible
  <2>2. MappingsFollow(z, w2, r2, t) /\ NewerFirst(z, w2, t)
    BY DEF MappingsFollow, NewerFirst
  <2>3. NewerDescribed(z, w2, r2, t)
    BY <1>1 DEF NewerDescribed
  <2>4. RepliesInOrder(z, w2, q, t, s) /\ RemovalsInOrder(z, w2, r2, q, t, s)
    BY <1>4 DEF RepliesInOrder, RemovalsInOrder
  <2> QED BY <2>1, <2>2, <2>3, <2>4 DEF Ordered
<1> QED BY <1>2, <1>8, <1>9, <1>10, <1>11, <1>12, <1>13, <1>14 DEF Pair, End

\* Nothing is exchanged yet.
LEMMA NothingYet ==
    ASSUME NEW r, NEW q, NEW z, NEW w, NEW s, NEW t,
           DOMAIN r = {}, DOMAIN z = {}, Places(q) = {}, Places(w) = {}
    PROVE  Pair(r, q, z, w, s, t) /\ SkipsFit(r)
<1>1. Typed(r) /\ Typed(z) /\ Queue(q) /\ Queue(w)
  BY FS_EmptySet DEF Typed, Queue
<1>2. Fit(r) /\ Fit(z) /\ OneVisible(r) /\ OneVisible(z) /\ SkipsFit(r)
  BY DEF Fit, OneVisible, SkipsFit
<1>3. Replied(r, q, z, w, s, t) /\ Replied(z, w, r, q, t, s)
  BY DEF Replied, DescriptionsPending, RepliesPending, ReplyComing, Once, Unknown, RepliesFirst
<1>4. \A i, j : ~Holds(r, q, s, i, j) /\ ~Holds(z, w, t, j, i)
  BY DEF Holds
<1>5. Linked(r, q, z, w, s, t) /\ Linked(z, w, r, q, t, s)
  BY <1>4 DEF Linked, AddresseesLive, PartnersLive, Mutual, Counted, CrossedOnce, CrossedKnown,
              OneCandidate, NoticedUnacked, CandidatesTold, PartnersMeet
<1>6. Ordered(r, q, z, w, s, t) /\ Ordered(z, w, r, q, t, s)
  BY DEF Ordered, LatestFollows, MappingsFollow, NewerDescribed, NewerFirst, RepliesInOrder,
         RemovalsInOrder
<1> QED BY <1>1, <1>2, <1>3, <1>5, <1>6 DEF Pair, End

----------------------------------------------------------------------------
(* What the invariant is for.                                              *)

\* The id a living object is mapped to is that of a remote one of its identifier.
LEMMA MappedToItsLike ==
    ASSUME NEW r, NEW q, NEW z, NEW w, NEW s, NEW t, Pair(r, q, z, w, s, t),
           NEW i \in DOMAIN r, is_mapped(r[i].fsm)
    PROVE  r[i].fsm.mapped \in DOMAIN z /\ z[r[i].fsm.mapped].identifier = r[i].identifier
<1>1. Fit(r) /\ Typed(r) /\ PartnersLive(z, r, q, s)
  BY DEF Pair, End, Linked
<1>2. r[i].fsm.mapped # NoId /\ r[i].fsm.mapped \in Nat /\ ~Retired(r[i])
  BY <1>1 DEF Fit, Typed, Retired, is_mapped
<1>3. Holds(r, q, s, i, r[i].fsm.mapped)
  BY <1>2 DEF Holds
<1> QED BY <1>1, <1>2, <1>3 DEF PartnersLive

\* With nothing under way, what two elements hold they hold mutually.
LEMMA QuietFacts ==
    ASSUME NEW r, NEW q, NEW z, NEW w, NEW s, NEW t, Pair(r, q, z, w, s, t),
           Places(q) = {}, Places(w) = {}
    PROVE  /\ \A i : ~Acked(q, s, i)
           /\ \A i, j : HasMapping(q, s, i, j) <=> FALSE
           /\ \A i, j : Holds(r, q, s, i, j) <=> i \in DOMAIN r /\ j # NoId /\ r[i].fsm.mapped = j
           /\ \A i \in DOMAIN r, j \in Nat : Holds(r, q, s, i, j) =>
                  j \in DOMAIN z /\ Holds(z, w, t, j, i) /\ r[i].identifier = z[j].identifier
           /\ \A i \in DOMAIN r : ~Unconfirmed(r[i])
           /\ \A i \in DOMAIN r : Retired(r[i]) => r[i].fsm.mapped # NoId
           /\ \A i \in DOMAIN r : Cardinality(Owing(z, w, t, i))
                  = r[i].fsm.skip + IF r[i].fsm.mapped = NoId THEN 0 ELSE 1
<1>1. /\ Mutual(r, q, z, w, s, t) /\ ReplyComing(r, q, w, s, t) /\ Queue(q) /\ Typed(r)
      /\ CrossedKnown(z, w, r, q, t, s) /\ Counted(r, q, z, w, s, t) /\ Typed(z)
  BY DEF Pair, End, Linked, Replied
<1>2. /\ \A i : ~Acked(q, s, i) /\ ~HasReply(q, s, i) /\ ~HasDescription(w, t, i) /\ ~Acked(w, t, i)
      /\ \A i, j : HasMapping(q, s, i, j) <=> FALSE
  BY DEF Acked, HasReply, HasMapping, HasDescription
<1>3. \A i, j : Holds(r, q, s, i, j) <=> i \in DOMAIN r /\ j # NoId /\ r[i].fsm.mapped = j
  BY <1>2 DEF Holds
<1>4. \A i \in DOMAIN r, j \in Nat : Holds(r, q, s, i, j) =>
          j \in DOMAIN z /\ Holds(z, w, t, j, i) /\ r[i].identifier = z[j].identifier
  BY <1>1, <1>2 DEF Mutual
<1>5. \A i \in DOMAIN r : ~Unconfirmed(r[i])
  BY <1>1, <1>2 DEF ReplyComing
<1>6. \A i \in DOMAIN r : Retired(r[i]) => r[i].fsm.mapped # NoId
  BY <1>1, <1>2 DEF CrossedKnown
<1>7. ASSUME NEW i \in DOMAIN r
      PROVE  Cardinality(Owing(z, w, t, i)) = r[i].fsm.skip + IF r[i].fsm.mapped
                 = NoId THEN 0 ELSE 1
  <2>1. Removals(q, s, i) = 0
    BY <1>1, RemovalsCount
  <2>2. Removals(q, s, i) + Cardinality(Owing(z, w, t, i)) = r[i].fsm.skip + Holdings(r, q, s, i)
    BY <1>1, <1>2, <1>7 DEF Counted
  <2>3. Holdings(r, q, s, i) = IF r[i].fsm.mapped = NoId THEN 0 ELSE 1
    BY <1>2 DEF Holdings
  <2>4. IsFiniteSet(Owing(z, w, t, i))
    BY <1>1, FS_Subset DEF Typed, Owing
  <2>5. Cardinality(Owing(z, w, t, i)) \in Nat
    BY <2>4, FS_CardinalityType
  <2> QED BY <2>1, <2>2, <2>3, <2>5
<1> QED BY <1>2, <1>3, <1>4, <1>5, <1>6, <1>7

\* With nothing under way, nothing waits for an acknowledgement.
LEMMA QuietNoneRetired ==
    ASSUME NEW r, NEW q, NEW z, NEW w, NEW s, NEW t, Pair(r, q, z, w, s, t),
           Places(q) = {}, Places(w) = {}, NEW i \in DOMAIN r
    PROVE  ~Retired(r[i])
<1> SUFFICES ASSUME Retired(r[i]) PROVE FALSE
  OBVIOUS
<1>1. Pair(z, w, r, q, t, s) /\ Typed(r) /\ Typed(z)
  BY DEF Pair, End
<1>2. PICK j \in Nat : j = r[i].fsm.mapped /\ j # NoId
  BY <1>1, QuietFacts DEF Typed
<1>3. Holds(r, q, s, i, j)
  BY <1>2, QuietFacts
<1>4. j \in DOMAIN z /\ Holds(z, w, t, j, i)
  BY <1>3, QuietFacts
<1>5. z[j].fsm.mapped = i /\ i # NoId
  BY <1>1, <1>4, QuietFacts DEF Typed
<1>6. Cardinality(Owing(r, q, s, j)) = z[j].fsm.skip + 1 /\ z[j].fsm.skip \in Nat
  <2>1. Cardinality(Owing(r, q, s, j)) = z[j].fsm.skip + IF z[j].fsm.mapped = NoId THEN 0 ELSE 1
    BY <1>1, <1>4, QuietFacts
  <2> QED BY <1>1, <1>4, <1>5, <2>1 DEF Typed
<1>7. Owing(r, q, s, j) # {}
  BY <1>6, FS_EmptySet
<1>8. PICK k \in DOMAIN r : ~Retired(r[k]) /\ Holds(r, q, s, k, j)
  BY <1>7 DEF Owing
<1>9. Holds(z, w, t, j, k)
  BY <1>2, <1>8, QuietFacts
<1>10. z[j].fsm.mapped = k
  BY <1>1, <1>9, QuietFacts
<1> QED BY <1>5, <1>8, <1>10

\* With nothing under way the two ends agree.
LEMMA QuietAgree ==
    ASSUME NEW r, NEW q, NEW z, NEW w, NEW s, NEW t, Pair(r, q, z, w, s, t), SkipsFit(r),
           SkipsFit(z),
           Places(q) = {}, Places(w) = {}
    PROVE  \A i \in DOMAIN r :
               /\ ~r[i].hidden /\ r[i].fsm.skip = 0
               /\ r[i].fsm.state = "UNUSED_CONFIRMED" =>
                    ~ \E j \in DOMAIN z : ~z[j].hidden /\ z[j].identifier = r[i].identifier
               /\ r[i].fsm.state # "UNUSED_CONFIRMED" =>
                    /\ r[i].fsm.state = "MAPPED_CONFIRMED"
                    /\ \A j : j = r[i].fsm.mapped <=>
                          j \in DOMAIN z /\ ~z[j].hidden /\ z[j].identifier = r[i].identifier
<1>1. Pair(z, w, r, q, t, s)
  BY DEF Pair
<1>2. ASSUME NEW r1, NEW q1, NEW z1, NEW w1, NEW s1, NEW t1, Pair(r1, q1, z1, w1, s1, t1),
             SkipsFit(r1),
             Places(q1) = {}, Places(w1) = {}, NEW i \in DOMAIN r1
      PROVE  /\ r1[i].fsm.skip = 0 /\ ~r1[i].hidden
             /\ r1[i].fsm.state \in {"UNUSED_CONFIRMED", "MAPPED_CONFIRMED"}
  <2>1. Pair(z1, w1, r1, q1, t1, s1) /\ Typed(r1) /\ Typed(z1) /\ Fit(r1)
    BY <1>2 DEF Pair, End
  <2>2. ~Retired(r1[i]) /\ ~Unconfirmed(r1[i])
    BY <1>2, QuietNoneRetired, QuietFacts
  <2>3. r1[i].fsm.skip \in Nat /\ r1[i].fsm.mapped \in Nat /\ i # NoId /\ i \in Nat
    BY <1>2, <2>1 DEF Typed
  <2>4. Cardinality(Owing(z1, w1, t1, i)) = r1[i].fsm.skip + IF r1[i].fsm.mapped
            = NoId THEN 0 ELSE 1
    BY <1>2, QuietFacts
  <2>5. \A j \in Owing(z1, w1, t1, i) : j = r1[i].fsm.mapped /\ j # NoId
    <3>1. ASSUME NEW j \in DOMAIN z1, Holds(z1, w1, t1, j, i)
          PROVE  j = r1[i].fsm.mapped /\ j # NoId
      <4>1. Holds(r1, q1, s1, i, j)
        BY <1>2, <2>1, <2>3, <3>1, QuietFacts
      <4> QED BY <1>2, <4>1, QuietFacts
    <3> QED BY <3>1 DEF Owing
  <2>6. r1[i].fsm.skip = 0
    <3>1. CASE r1[i].fsm.mapped = NoId
      <4>1. Owing(z1, w1, t1, i) = {}
        BY <2>5, <3>1
      <4>2. Cardinality(Owing(z1, w1, t1, i)) = 0
        BY <4>1, FS_EmptySet
      <4> QED BY <2>3, <2>4, <3>1, <4>2
    <3>2. CASE r1[i].fsm.mapped # NoId
      <4>1. Owing(z1, w1, t1, i) \subseteq {r1[i].fsm.mapped}
        BY <2>5
      <4>2. /\ IsFiniteSet({r1[i].fsm.mapped}) /\ Cardinality({r1[i].fsm.mapped}) = 1
            /\ Cardinality(Owing(z1, w1, t1, i)) <= 1 /\ Cardinality(Owing(z1, w1, t1, i)) \in Nat
        <5>1. IsFiniteSet({r1[i].fsm.mapped}) /\ Cardinality({r1[i].fsm.mapped}) = 1
          BY FS_Singleton
        <5>2. IsFiniteSet(Owing(z1, w1, t1, i)) /\ Cardinality(Owing(z1, w1, t1, i)) <= 1
          BY <4>1, <5>1, FS_Subset
        <5> QED BY <5>1, <5>2, FS_CardinalityType
      <4> QED BY <2>3, <2>4, <3>2, <4>2
    <3> QED BY <3>1, <3>2
  <2>7. r1[i].fsm.state \in {"UNUSED_CONFIRMED", "MAPPED_CONFIRMED"}
    BY <1>2, <2>1, <2>2, <2>6 DEF Typed, States, SkipsFit, Retired, Unconfirmed
  <2>8. ~r1[i].hidden
    BY <1>2, <2>1, <2>7 DEF Fit, destroyed
  <2> QED BY <2>6, <2>7, <2>8
<1>3. \A i \in DOMAIN r : /\ r[i].fsm.skip = 0 /\ ~r[i].hidden
                          /\ r[i].fsm.state \in {"UNUSED_CONFIRMED", "MAPPED_CONFIRMED"}
  BY <1>2
<1>4. \A j \in DOMAIN z : ~z[j].hidden
  BY <1>1, <1>2
<1>5. /\ PartnersMeet(r, q, z, w, s, t) /\ Fit(r) /\ OneVisible(z) /\ Typed(z)
  BY DEF Pair, End, Linked
<1>6. \A i \in DOMAIN r, j \in DOMAIN z :
          z[j].identifier = r[i].identifier => r[i].fsm.mapped = j /\ j # NoId
  <2>1. \A i : ~HasDescription(q, s, i) /\ ~HasDescription(w, t, i)
    BY DEF HasDescription
  <2>2. \A i \in DOMAIN r, j \in DOMAIN z :
            z[j].identifier = r[i].identifier => Holds(r, q, s, i, j)
    BY <1>3, <1>4, <1>5, <2>1 DEF PartnersMeet
  <2> QED BY <2>2, QuietFacts
<1>7. ASSUME NEW i \in DOMAIN r, r[i].fsm.state = "UNUSED_CONFIRMED"
      PROVE  ~ \E j \in DOMAIN z : ~z[j].hidden /\ z[j].identifier = r[i].identifier
  <2>1. r[i].fsm.mapped = NoId
    BY <1>5, <1>7 DEF Fit
  <2> QED BY <1>6, <1>7, <2>1
<1>8. ASSUME NEW i \in DOMAIN r, r[i].fsm.state = "MAPPED_CONFIRMED", NEW j
      PROVE  j = r[i].fsm.mapped
                 <=> j \in DOMAIN z /\ ~z[j].hidden /\ z[j].identifier = r[i].identifier
  <2>1. r[i].fsm.mapped \in DOMAIN z /\ z[r[i].fsm.mapped].identifier = r[i].identifier
    BY <1>8, MappedToItsLike DEF is_mapped
  <2> QED BY <1>4, <1>6, <1>8, <2>1
<1> QED BY <1>3, <1>7, <1>8

=============================================================================
