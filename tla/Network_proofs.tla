---------------------------- MODULE Network_proofs --------------------------
(***************************************************************************)
(* Proof that the two registers of every node of a network point at each   *)
(* other (AssociationsMutual), for any number of leafs, nodes, links,      *)
(* identifiers and steps and for every kind of terminal.                   *)
(*                                                                         *)
(* The invariant is Settled, of each node on its own: nothing is assumed   *)
(* of the messages that arrive, so it does not matter what the other peers *)
(* and the connections do, and it holds after a failed assertion, too.     *)
(* Handlers are sequences of steps between which the entry that is worked  *)
(* on is out of place: it is not linked yet, or its state does not count   *)
(* its owners yet.  Fits(nd, X, Y, Z) is Settled but for these entries.    *)
(* Most handlers touch neither owners nor associations (SameLinks).  The   *)
(* others insert, link, hide, change or erase one entry, and               *)
(* connection_destroyed does so in a loop over all of them.                *)
(***************************************************************************)
EXTENDS Network, TLAPS, Integers, FiniteSetTheorems, SequenceTheorems, WellFoundedInduction

----------------------------------------------------------------------------
(* Registers.                                                              *)

\* A register whose ids are conserved: every id is used or on the stack, once.
Orderly(r) ==
    /\ r = [size |-> r.size, free |-> r.free, elem |-> r.elem]
    /\ r.size \in Nat /\ r.free \in Seq(1..r.size)
    /\ DOMAIN r.elem \subseteq 1..r.size
    /\ r.elem = [id \in DOMAIN r.elem |-> r.elem[id]]
    /\ \A i, j \in 1..Len(r.free) : r.free[i] = r.free[j] => i = j
    /\ \A i \in 1..Len(r.free) : r.free[i] \notin DOMAIN r.elem

\* A new register is orderly.
LEMMA EmptyIsOrderly == Orderly(EmptyRegister)
BY DEF Orderly, EmptyRegister

\* The ids in use are finitely many, and none of them is NoId.
LEMMA OrderlyDomain ==
    ASSUME NEW r, Orderly(r)
    PROVE  /\ IsFiniteSet(DOMAIN r.elem) /\ DOMAIN r.elem \subseteq Nat
           /\ NoId \notin DOMAIN r.elem
<1>1. r.size \in Nat /\ DOMAIN r.elem \subseteq 1..r.size
  BY DEF Orderly
<1>2. 1 \in Int /\ r.size \in Int
  BY <1>1
<1>3. IsFiniteSet(1..r.size)
  BY <1>2, FS_Interval
<1>4. IsFiniteSet(DOMAIN r.elem)
  BY <1>1, <1>3, FS_Subset
<1> QED BY <1>1, <1>4 DEF NoId

\* A register that grows.
LEMMA GrowOrderly ==
    ASSUME NEW r, Orderly(r)
    PROVE  Orderly(Grow(r)) /\ Grow(r).elem = r.elem /\ Grow(r).free # <<>>
<1>1. CASE r.free = <<>>
  <2> DEFINE n == r.size + 1
             f == <<r.size + 1>>
             g == [size |-> n, free |-> f, elem |-> r.elem]
  <2>1. Grow(r) = g
    <3>1. r = [size |-> r.size, free |-> r.free, elem |-> r.elem]
      BY DEF Orderly
    <3>2. Grow(r) = [r EXCEPT !.size = @ + 1, !.free = <<r.size + 1>>]
      BY <1>1 DEF Grow
    <3> QED BY <3>1, <3>2
  <2>2. r.size \in Nat /\ DOMAIN r.elem \subseteq 1..r.size
    BY DEF Orderly
  <2>3. n \in Nat /\ f \in Seq(1..n) /\ Len(f) = 1 /\ f[1] = n /\ n \notin DOMAIN r.elem
    BY <2>2
  <2>4. DOMAIN r.elem \subseteq 1..n
    BY <2>2
  <2>5. r.elem = [id \in DOMAIN r.elem |-> r.elem[id]]
    BY DEF Orderly
  <2>6. g.size = n /\ g.free = f /\ g.elem = r.elem /\ g = [size |-> n, free |-> f, elem |-> r.elem]
    OBVIOUS
  <2> HIDE DEF n, f, g
  <2>7. Orderly(g)
    <3>1. \A i, j \in 1..Len(f) : f[i] = f[j] => i = j
      BY <2>3
    <3>2. \A i \in 1..Len(f) : f[i] \notin DOMAIN r.elem
      BY <2>3
    <3> QED BY <2>3, <2>4, <2>5, <2>6, <3>1, <3>2 DEF Orderly
  <2>8. g.free # <<>>
    BY <2>3, <2>6
  <2> QED BY <2>1, <2>6, <2>7, <2>8
<1>2. CASE r.free # <<>>
  BY <1>2 DEF Grow
<1> QED BY <1>1, <1>2

\* An insertion takes an id that is not in use.
LEMMA InsertOrderly ==
    ASSUME NEW r, Orderly(r), NEW e
    PROVE  /\ Orderly(Insert(r, e)) /\ NextId(r) \notin DOMAIN r.elem
           /\ DOMAIN Insert(r, e).elem = DOMAIN r.elem \cup {NextId(r)}
           /\ Insert(r, e).elem[NextId(r)] = e
           /\ \A id \in DOMAIN r.elem : Insert(r, e).elem[id] = r.elem[id]
<1> DEFINE g == Grow(r)
           n == Len(g.free)
           f == SubSeq(g.free, 1, n - 1)
           new == NextId(r)
           m == [id \in DOMAIN r.elem \cup {new} |-> IF id = new THEN e ELSE r.elem[id]]
           k == [size |-> g.size, free |-> f, elem |-> m]
<1>1. Orderly(g) /\ g.elem = r.elem /\ g.free # <<>>
  BY GrowOrderly
<1>2. new = g.free[n]
  BY DEF NextId
<1>3. Insert(r, e) = k
  BY DEF Insert
<1>4. k.size = g.size /\ k.free = f /\ k.elem = m /\ k = [size |-> k.size, free |-> k.free, elem |-> k.elem]
  OBVIOUS
<1> HIDE DEF g, new, k
<1>5. /\ g.free \in Seq(1..g.size) /\ g.size \in Nat /\ DOMAIN r.elem \subseteq 1..g.size
      /\ \A i, j \in 1..n : g.free[i] = g.free[j] => i = j
      /\ \A i \in 1..n : g.free[i] \notin DOMAIN r.elem
  BY <1>1 DEF Orderly
<1>6. n \in Nat \ {0}
  BY <1>1, <1>5
<1>7. f \in Seq(1..g.size) /\ Len(f) = n - 1 /\ \A i \in 1..(n - 1) : f[i] = g.free[i]
  BY <1>5, <1>6
<1>8. new \in 1..g.size /\ new \notin DOMAIN r.elem
  BY <1>2, <1>5, <1>6
<1>9. /\ DOMAIN m = DOMAIN r.elem \cup {new} /\ m[new] = e
      /\ \A id \in DOMAIN r.elem : m[id] = r.elem[id]
  BY <1>8
<1>10. m = [id \in DOMAIN m |-> m[id]]
  OBVIOUS
<1> HIDE DEF f, m, n
<1>11. DOMAIN m \subseteq 1..g.size
  BY <1>5, <1>8, <1>9
<1>12. \A i, j \in 1..Len(f) : f[i] = f[j] => i = j
  BY <1>5, <1>6, <1>7
<1>13. \A i \in 1..Len(f) : f[i] \notin DOMAIN m
  <2>1. n \in 1..n /\ \A i \in 1..(n - 1) : i \in 1..n /\ i # n
    BY <1>6
  <2>2. \A i \in 1..(n - 1) : g.free[i] # new /\ g.free[i] \notin DOMAIN r.elem
    BY <1>2, <1>5, <2>1
  <2> QED BY <1>7, <1>9, <2>2
<1>14. Orderly(k)
  BY <1>4, <1>5, <1>7, <1>10, <1>11, <1>12, <1>13 DEF Orderly
<1> QED BY <1>3, <1>4, <1>8, <1>9, <1>14 DEF new

\* An element is replaced.
LEMMA PutOrderly ==
    ASSUME NEW r, Orderly(r), NEW id \in DOMAIN r.elem, NEW e
    PROVE  /\ Orderly(Put(r, id, e))
           /\ Put(r, id, e) = [size |-> r.size, free |-> r.free, elem |-> Put(r, id, e).elem]
           /\ DOMAIN Put(r, id, e).elem = DOMAIN r.elem
           /\ Put(r, id, e).elem[id] = e
           /\ \A i \in DOMAIN r.elem : i # id => Put(r, id, e).elem[i] = r.elem[i]
<1> DEFINE m == [r.elem EXCEPT ![id] = e]
           k == [size |-> r.size, free |-> r.free, elem |-> m]
<1>1. Put(r, id, e) = k
  <2>1. r = [size |-> r.size, free |-> r.free, elem |-> r.elem]
    BY DEF Orderly
  <2> QED BY <2>1 DEF Put
<1>2. k.size = r.size /\ k.free = r.free /\ k.elem = m /\ k = [size |-> k.size, free |-> k.free, elem |-> k.elem]
  OBVIOUS
<1>3. /\ DOMAIN m = DOMAIN r.elem /\ m[id] = e /\ m = [i \in DOMAIN m |-> m[i]]
      /\ \A i \in DOMAIN r.elem : i # id => m[i] = r.elem[i]
  OBVIOUS
<1> HIDE DEF m, k
<1>4. Orderly(k)
  BY <1>2, <1>3 DEF Orderly
<1> QED BY <1>1, <1>2, <1>3, <1>4

\* An element is erased.
LEMMA EraseOrderly ==
    ASSUME NEW r, Orderly(r), NEW id \in DOMAIN r.elem
    PROVE  /\ Orderly(Erase(r, id))
           /\ DOMAIN Erase(r, id).elem = DOMAIN r.elem \ {id}
           /\ \A i \in DOMAIN r.elem : i # id => Erase(r, id).elem[i] = r.elem[i]
<1> DEFINE m == [i \in DOMAIN r.elem \ {id} |-> r.elem[i]]
           f == Append(r.free, id)
           n == Len(r.free)
           k == [size |-> r.size, free |-> f, elem |-> m]
<1>1. Erase(r, id) = k
  BY Zenon DEF Erase
<1>2. /\ r.size \in Nat /\ r.free \in Seq(1..r.size) /\ DOMAIN r.elem \subseteq 1..r.size
      /\ \A i, j \in 1..n : r.free[i] = r.free[j] => i = j
      /\ \A i \in 1..n : r.free[i] \notin DOMAIN r.elem
  BY DEF Orderly
<1>3. k.size = r.size /\ k.free = f /\ k.elem = m /\ k = [size |-> k.size, free |-> k.free, elem |-> k.elem]
  OBVIOUS
<1>4. /\ DOMAIN m = DOMAIN r.elem \ {id} /\ m = [i \in DOMAIN m |-> m[i]]
      /\ \A i \in DOMAIN r.elem : i # id => m[i] = r.elem[i]
  OBVIOUS
<1>5. /\ f \in Seq(1..r.size) /\ Len(f) = n + 1 /\ f[n + 1] = id /\ n \in Nat
      /\ \A i \in 1..n : f[i] = r.free[i]
  BY <1>2
<1> HIDE DEF m, f, n, k
<1>6. \A i \in 1..(n + 1) : i = n + 1 \/ i \in 1..n
  BY <1>5
<1>7. \A i, j \in 1..Len(f) : f[i] = f[j] => i = j
  BY <1>2, <1>5, <1>6
<1>8. \A i \in 1..Len(f) : f[i] \notin DOMAIN m
  BY <1>2, <1>4, <1>5, <1>6
<1>9. DOMAIN m \subseteq 1..r.size
  BY <1>2, <1>4
<1>10. Orderly(k)
  BY <1>2, <1>3, <1>4, <1>5, <1>7, <1>8, <1>9 DEF Orderly
<1> QED BY <1>1, <1>3, <1>4, <1>10

----------------------------------------------------------------------------
(* Induction, and the enumeration of finite sets.                          *)

\* A set of numbers has a least one.
LEMMA Least ==
    ASSUME NEW T \in SUBSET Nat, T # {}
    PROVE  \E x \in T : \A y \in T : x <= y
<1>1. PICK x \in T : \A y \in T : ~ (<<y, x>> \in OpToRel(<, Nat))
  BY NatLessThanWellFounded, WFMin, Zenon
<1>2. \A y \in T : y < x => <<y, x>> \in OpToRel(<, Nat)
  BY DEF OpToRel
<1>3. \A y \in T : ~(y < x)
  BY <1>1, <1>2, Zenon
<1> QED BY <1>3

\* Induction over the naturals for a set, from the least number outside of it.
LEMMA Induction ==
    ASSUME NEW S, 0 \in S, \A n \in Nat : n \in S => n + 1 \in S
    PROVE  \A n \in Nat : n \in S
<1> DEFINE T == {n \in Nat : n \notin S}
<1>1. SUFFICES ASSUME T # {}
               PROVE  FALSE
  OBVIOUS
<1>2. PICK x \in T : \A y \in T : x <= y
  BY <1>1, Least
<1>3. x \in Nat /\ x # 0 /\ x - 1 \in T
  OBVIOUS
<1> QED BY <1>2, <1>3

\* A network has finitely many peers.
LEMMA FinitePeers == IsFiniteSet(Leafs) /\ IsFiniteSet(Nodes)
BY NetworkAssumption, FS_Subset DEF Peers

\* The sequence of the elements of a finite set.
LEMMA SetInSequence ==
    ASSUME NEW S, IsFiniteSet(S)
    PROVE  /\ Cardinality(S) \in Nat /\ InSomeOrder(S) \in [1..Cardinality(S) -> S]
           /\ Len(InSomeOrder(S)) = Cardinality(S)
<1> DEFINE n == Cardinality(S)
<1>1. n \in Nat
  BY FS_CardinalityType
<1>2. \E f \in [1..n -> S] : IsInjective(f)
  <2>1. ExistsBijection(1..n, S)
    <3>1. 1 \in Int /\ n \in Int
      BY <1>1
    <3>2. IsFiniteSet(1..n) /\ Cardinality(1..n) = IF 1 > n THEN 0 ELSE n - 1 + 1
      BY <3>1, FS_Interval
    <3>3. Cardinality(1..n) = n
      BY <1>1, <3>2
    <3> HIDE DEF n
    <3> QED BY <3>2, <3>3, FS_SameCardinalityBij DEF n
  <2> QED BY <2>1 DEF ExistsBijection, Bijection, Injection, IsInjective
<1>3. InSomeOrder(S) \in [1..n -> S]
  BY <1>2, Zenon DEF InSomeOrder
<1> HIDE DEF n
<1>4. Len(InSomeOrder(S)) = n
  BY <1>1, <1>3
<1> QED BY <1>1, <1>3, <1>4 DEF n

----------------------------------------------------------------------------
(* The entries of a node.                                                  *)

\* The fields of a terminal.  Its owners and users are known connections.
IsTerminal(t) ==
    /\ t = [identifier |-> t.identifier, hidden |-> t.hidden, state |-> t.state,
            leafs |-> t.leafs, nodes |-> t.nodes, users |-> t.users, binding |-> t.binding,
            subscribers |-> t.subscribers, cache |-> t.cache, active |-> t.active]
    /\ t.hidden \in BOOLEAN
    /\ DOMAIN t.leafs \subseteq Leafs /\ DOMAIN t.nodes \subseteq Nodes
    /\ DOMAIN t.users \subseteq Nodes /\ IsFiniteSet(t.active)

\* The fields of a binding.
IsBinding(e) ==
    /\ e = [identifier |-> e.identifier, hidden |-> e.hidden, leafs |-> e.leafs,
            terminal |-> e.terminal]
    /\ ~e.hidden

\* The fields of a node, whose registers are orderly.
IsNode(nd) ==
    /\ nd = [terminals |-> nd.terminals, bindings |-> nd.bindings, conns |-> nd.conns,
             known |-> nd.known, ops |-> nd.ops]
    /\ Orderly(nd.terminals) /\ Orderly(nd.bindings)
    /\ \A id \in DOMAIN nd.terminals.elem : IsTerminal(nd.terminals.elem[id])
    /\ \A b \in DOMAIN nd.bindings.elem : IsBinding(nd.bindings.elem[b])

\* Terminal u has the owners and the binding of t.
SameTerminal(t, u) ==
    /\ IsTerminal(u)
    /\ u.identifier = t.identifier /\ u.hidden = t.hidden /\ u.state = t.state
    /\ DOMAIN u.leafs = DOMAIN t.leafs /\ DOMAIN u.nodes = DOMAIN t.nodes
    /\ u.binding = t.binding

\* Binding e names the terminal that d names.
SameBinding(d, e) == e.identifier = d.identifier /\ e.terminal = d.terminal

\* Node b has the entries of node a, with the same owners and associations.
SameLinks(a, b) ==
    /\ IsNode(b)
    /\ DOMAIN b.terminals.elem = DOMAIN a.terminals.elem
    /\ \A id \in DOMAIN a.terminals.elem : SameTerminal(a.terminals.elem[id], b.terminals.elem[id])
    /\ DOMAIN b.bindings.elem = DOMAIN a.bindings.elem
    /\ \A i \in DOMAIN a.bindings.elem : SameBinding(a.bindings.elem[i], b.bindings.elem[i])

\* SameLinks is reflexive.
LEMMA SameReflexive ==
    ASSUME NEW a, IsNode(a)
    PROVE  SameLinks(a, a)
BY DEF SameLinks, SameTerminal, SameBinding, IsNode

\* SameLinks is transitive.
LEMMA SameTransitive ==
    ASSUME NEW a, NEW b, NEW c, SameLinks(a, b), SameLinks(b, c)
    PROVE  SameLinks(a, c)
BY DEF SameLinks, SameTerminal, SameBinding

\* A node with other terminals that have the same owners.
LEMMA Rebuilt ==
    ASSUME NEW a, IsNode(a), NEW r, Orderly(r), DOMAIN r.elem = DOMAIN a.terminals.elem,
           \A id \in DOMAIN r.elem : SameTerminal(a.terminals.elem[id], r.elem[id]),
           NEW c, NEW k, NEW o,
           NEW n, n = [terminals |-> r, bindings |-> a.bindings, conns |-> c, known |-> k, ops |-> o]
    PROVE  SameLinks(a, n)
<1>1. n.terminals = r /\ n.bindings = a.bindings
  OBVIOUS
<1>2. n = [terminals |-> n.terminals, bindings |-> n.bindings, conns |-> n.conns,
           known |-> n.known, ops |-> n.ops]
  OBVIOUS
<1>3. /\ Orderly(a.bindings) /\ \A b \in DOMAIN a.bindings.elem : IsBinding(a.bindings.elem[b])
  BY DEF IsNode
<1>4. \A id \in DOMAIN r.elem : IsTerminal(r.elem[id])
  BY DEF SameTerminal
<1>5. IsNode(n)
  BY <1>1, <1>2, <1>3, <1>4 DEF IsNode
<1>6. \A i \in DOMAIN a.bindings.elem : SameBinding(a.bindings.elem[i], n.bindings.elem[i])
  BY <1>1 DEF SameBinding
<1> QED BY <1>1, <1>5, <1>6 DEF SameLinks

\* One terminal is replaced by one with the same owners.
LEMMA PutSame ==
    ASSUME NEW a, IsNode(a), NEW id \in DOMAIN a.terminals.elem,
           NEW u, SameTerminal(a.terminals.elem[id], u), NEW c, NEW k, NEW o,
           NEW n, n = [terminals |-> Put(a.terminals, id, u), bindings |-> a.bindings,
                       conns |-> c, known |-> k, ops |-> o]
    PROVE  SameLinks(a, n)
<1> DEFINE r == Put(a.terminals, id, u)
<1>1. Orderly(a.terminals)
  BY DEF IsNode
<1>2. /\ Orderly(r) /\ DOMAIN r.elem = DOMAIN a.terminals.elem /\ r.elem[id] = u
      /\ \A i \in DOMAIN a.terminals.elem : i # id => r.elem[i] = a.terminals.elem[i]
  BY <1>1, PutOrderly
<1>3. n = [terminals |-> r, bindings |-> a.bindings, conns |-> c, known |-> k, ops |-> o]
  OBVIOUS
<1> HIDE DEF r
<1>4. \A i \in DOMAIN r.elem : SameTerminal(a.terminals.elem[i], r.elem[i])
  BY <1>2 DEF SameTerminal, IsNode
<1> QED BY <1>2, <1>3, <1>4, Rebuilt

\* The same for an update in the form in which the operators write it.
LEMMA PutSameNode ==
    ASSUME NEW a, IsNode(a), NEW id \in DOMAIN a.terminals.elem,
           NEW u, SameTerminal(a.terminals.elem[id], u)
    PROVE  /\ SameLinks(a, [a EXCEPT !.terminals = Put(@, id, u)])
           /\ SameLinks(a, [a EXCEPT !.terminals.elem[id] = u])
<1> DEFINE n == [a EXCEPT !.terminals = Put(@, id, u)]
<1>1. a = [terminals |-> a.terminals, bindings |-> a.bindings, conns |-> a.conns,
           known |-> a.known, ops |-> a.ops]
  BY DEF IsNode
<1>2. n = [terminals |-> Put(a.terminals, id, u), bindings |-> a.bindings, conns |-> a.conns,
           known |-> a.known, ops |-> a.ops]
  BY <1>1
<1>3. [a EXCEPT !.terminals.elem[id] = u] = n
  BY DEF Put
<1> HIDE DEF n
<1>4. SameLinks(a, n)
  BY <1>2, PutSame
<1> QED BY <1>3, <1>4 DEF n

\* Only the operations change.
LEMMA OpsSame ==
    ASSUME NEW a, IsNode(a), NEW o
    PROVE  SameLinks(a, [a EXCEPT !.ops = o])
<1> DEFINE n == [a EXCEPT !.ops = o]
<1>1. a = [terminals |-> a.terminals, bindings |-> a.bindings, conns |-> a.conns,
           known |-> a.known, ops |-> a.ops]
  BY DEF IsNode
<1>2. n = [terminals |-> a.terminals, bindings |-> a.bindings, conns |-> a.conns,
           known |-> a.known, ops |-> o]
  BY <1>1
<1>3. Orderly(a.terminals) /\ \A id \in DOMAIN a.terminals.elem : SameTerminal(a.terminals.elem[id], a.terminals.elem[id])
  BY DEF IsNode, SameTerminal
<1> HIDE DEF n
<1>4. SameLinks(a, n)
  BY <1>2, <1>3, Rebuilt
<1> QED BY <1>4 DEF n

\* The node of an outcome.
LEMMA OutcomeParts ==
    ASSUME NEW n, NEW out, NEW ok
    PROVE  Outcome(n, out, ok).node = n /\ Outcome(n, out, ok).ok = ok
BY DEF Outcome

\* ... of one without a failed assertion.
LEMMA OkOutcome ==
    ASSUME NEW n, NEW out
    PROVE  Outcome(n, out, TRUE).node = n /\ Outcome(n, out, TRUE).ok = TRUE
BY DEF Outcome

\* ... and of a failed one.
LEMMA FailureNode ==
    ASSUME NEW n
    PROVE  Failure(n).node = n
BY DEF Failure, Outcome

----------------------------------------------------------------------------
(* What leaves the owners and the associations alone.                      *)

\* The nodes told of a terminal change.
LEMMA UsersSame ==
    ASSUME NEW t, IsTerminal(t), NEW f, DOMAIN f \subseteq Nodes
    PROVE  SameTerminal(t, [t EXCEPT !.users = f])
BY DEF SameTerminal, IsTerminal

\* The subscribers of a terminal change.
LEMMA SubscribersSame ==
    ASSUME NEW t, IsTerminal(t), NEW f
    PROVE  SameTerminal(t, [t EXCEPT !.subscribers = f])
BY DEF SameTerminal, IsTerminal

\* The scatter-gather operations of a terminal change.
LEMMA ActiveSame ==
    ASSUME NEW t, IsTerminal(t), NEW S, IsFiniteSet(S)
    PROVE  SameTerminal(t, [t EXCEPT !.active = S])
BY DEF SameTerminal, IsTerminal

\* The cached data of a terminal changes.
LEMMA CacheSame ==
    ASSUME NEW t, IsTerminal(t), NEW d
    PROVE  SameTerminal(t, [t EXCEPT !.cache = d])
BY DEF SameTerminal, IsTerminal

\* The connections in a map after insertion and erasure.
LEMMA MapDomains ==
    ASSUME NEW f, NEW c, NEW x
    PROVE  /\ DOMAIN With(f, c, x) = DOMAIN f \cup {c}
           /\ DOMAIN Without(f, c) = DOMAIN f \ {c}
BY DEF With, Without

\* One terminal has other active operations, if it is there.
LEMMA ActiveNodeSame ==
    ASSUME NEW a, IsNode(a), NEW x, NEW id
    PROVE  SameLinks(a, [a EXCEPT !.terminals.elem[x].active = @ \ {id}])
<1> DEFINE t == a.terminals.elem[x]
           u == [t EXCEPT !.active = @ \ {id}]
           n == [a EXCEPT !.terminals.elem[x] = u]
<1>1. [a EXCEPT !.terminals.elem[x].active = @ \ {id}] = n
  OBVIOUS
<1>2. CASE x \in DOMAIN a.terminals.elem
  <2>1. IsTerminal(t) /\ IsFiniteSet(t.active)
    BY <1>2 DEF IsNode, IsTerminal
  <2>2. t.active \ {id} \subseteq t.active
    OBVIOUS
  <2>3. SameTerminal(t, u)
    <3> HIDE DEF t
    <3>1. IsFiniteSet(t.active \ {id})
      BY <2>1, <2>2, FS_Subset
    <3> QED BY <2>1, <3>1, ActiveSame
  <2> HIDE DEF u
  <2>4. SameLinks(a, n)
    BY <1>2, <2>3, PutSameNode
  <2> QED BY <1>1, <2>4
<1>3. CASE x \notin DOMAIN a.terminals.elem
  <2>1. /\ a.terminals = [size |-> a.terminals.size, free |-> a.terminals.free, elem |-> a.terminals.elem]
        /\ a.terminals.elem = [i \in DOMAIN a.terminals.elem |-> a.terminals.elem[i]]
        /\ a = [terminals |-> a.terminals, bindings |-> a.bindings, conns |-> a.conns,
                known |-> a.known, ops |-> a.ops]
    BY DEF IsNode, Orderly
  <2> HIDE DEF u
  <2>2. [a.terminals.elem EXCEPT ![x] = u] = a.terminals.elem
    BY <1>3, <2>1
  <2>3. [a.terminals EXCEPT !.elem[x] = u] = a.terminals
    BY <2>1, <2>2
  <2>4. n = a
    BY <2>1, <2>3
  <2> QED BY <1>1, <2>4, SameReflexive
<1> QED BY <1>2, <1>3

\* An operation waits for one answer less.
LEMMA ResolveSame ==
    ASSUME NEW a, IsNode(a), NEW id, NEW c, NEW flags
    PROVE  SameLinks(a, Resolve(a, id, c, flags).node)
<1> DEFINE x == a.ops.elem[id].terminal
           o == [a.ops EXCEPT !.elem[id].remaining = @ \ {c}]
           waiting == [a EXCEPT !.ops = o]
           ended   == [a EXCEPT !.ops = Erase(@, id)]
           resting == [ended EXCEPT !.terminals.elem[x].active = @ \ {id}]
           r == Resolve(a, id, c, flags)
<1>1. r.node = waiting \/ r.node = ended \/ r.node = resting
  <2> DEFINE last == a.ops.elem[id].remaining \ {c} = {}
             m == CASE ~last -> [a EXCEPT !.ops.elem[id].remaining = @ \ {c}]
                    [] last /\ a.ops.elem[id].source = NoId -> ended
                    [] OTHER -> resting
  <2>1. PICK out, ok : r = Outcome(m, out, ok)
    BY Zenon DEF Resolve
  <2>2. r.node = m
    <3> HIDE DEF m, r
    <3> QED BY <2>1, OutcomeParts
  <2>3. [a EXCEPT !.ops.elem[id].remaining = @ \ {c}] = waiting
    OBVIOUS
  <2> HIDE DEF waiting, ended, resting, r, last
  <2> QED BY <2>2, <2>3
<1>2. SameLinks(a, waiting)
  <2> HIDE DEF o
  <2> QED BY OpsSame
<1>3. SameLinks(a, ended)
  BY OpsSame
<1> HIDE DEF ended, x
<1>4. SameLinks(ended, resting)
  BY <1>3, ActiveNodeSame DEF SameLinks
<1>5. SameLinks(a, resting)
  BY <1>3, <1>4, SameTransitive
<1> HIDE DEF waiting, resting, r
<1>6. SameLinks(a, r.node)
  BY <1>1, <1>2, <1>3, <1>5
<1> QED BY <1>6 DEF r

----------------------------------------------------------------------------
(* Loops.                                                                  *)

\* One round of a loop of the node: i is what the round is about.
Round(loop, r, i, x, c) ==
    CASE loop = "resolve"  -> Then(r, LAMBDA n : Resolve(n, i, c, x))
      [] loop = "tell"     -> Then(r, LAMBDA n :
                                 UserStep(n, x, i, process_object_destroyed(n.terminals.elem[x].users[i])))
      [] loop = "binding"  -> Then(r, LAMBDA n : DropBindingOwner(n, i, c))
      [] loop = "terminal" -> Then(r, LAMBDA n : DropTerminalPeer(n, i, c))

\* g is the outcome of the first rounds of a loop over ids.
Rounds(g, n, loop, start, ids, x, c) ==
    g = [i \in 0..n |-> IF i = 0 THEN start ELSE Round(loop, g[i - 1], ids[i], x, c)]

\* A loop ends.
LEMMA LoopRuns ==
    ASSUME NEW loop, NEW start, NEW ids, NEW x, NEW c
    PROVE  \A n \in Nat : \E g : Rounds(g, n, loop, start, ids, x, c)
<1> DEFINE step(r, i) == Round(loop, r, ids[i], x, c)
           Runs(g, n) == g = [i \in 0..n |-> IF i = 0 THEN start ELSE step(g[i - 1], i)]
           E == {n \in Nat : \E g : Runs(g, n)}
<1>1. 0 \in E
  <2> DEFINE g == [i \in 0..0 |-> start]
  <2> HIDE DEF step
  <2>1. Runs(g, 0)
    OBVIOUS
  <2> QED BY <2>1
<1>2. ASSUME NEW n \in Nat, n \in E
      PROVE  n + 1 \in E
  <2>1. PICK g : Runs(g, n)
    BY <1>2
  <2> HIDE DEF step
  <2> DEFINE h == [i \in 0..(n + 1) |-> IF i = n + 1 THEN step(g[n], n + 1) ELSE g[i]]
  <2>2. g[0] = start /\ \A i \in 1..n : g[i] = step(g[i - 1], i)
    BY <2>1
  <2>3. ASSUME NEW i \in 0..(n + 1)
        PROVE  h[i] = IF i = 0 THEN start ELSE step(h[i - 1], i)
    <3>1. CASE i = 0
      BY <2>2, <3>1
    <3>2. CASE i \in 1..n
      <4>1. i # n + 1 /\ i # 0 /\ i - 1 # n + 1 /\ i - 1 \in 0..(n + 1)
        BY <3>2
      <4>2. h[i] = g[i] /\ h[i - 1] = g[i - 1]
        BY <4>1
      <4> QED BY <2>2, <3>2, <4>1, <4>2
    <3>3. CASE i = n + 1
      <4>1. n # n + 1 /\ n \in 0..(n + 1) /\ i - 1 = n /\ i # 0
        BY <3>3
      <4>2. h[n] = g[n] /\ h[i] = step(g[n], i)
        BY <3>3, <4>1
      <4> QED BY <4>1, <4>2
    <3> QED BY <3>1, <3>2, <3>3
  <2>4. h = [i \in 0..(n + 1) |-> h[i]]
    BY Zenon
  <2>5. Runs(h, n + 1)
    BY <2>3, <2>4
  <2> HIDE DEF Runs, h
  <2> QED BY <2>5
<1>3. \A n \in Nat : n \in E
  <2> HIDE DEF E
  <2> QED BY <1>1, <1>2, Induction
<1>4. ASSUME NEW n \in Nat
      PROVE  \E g : Rounds(g, n, loop, start, ids, x, c)
  <2>1. PICK g : Runs(g, n)
    BY <1>3, <1>4
  <2>2. Rounds(g, n, loop, start, ids, x, c)
    BY <2>1, Zenon DEF Rounds
  <2> QED BY <2>2
<1> QED BY <1>4

\* on_subscriber_removed
LEMMA SubscriberRemovedSame ==
    ASSUME NEW a, IsNode(a), NEW id \in DOMAIN a.terminals.elem, NEW c
    PROVE  SameLinks(a, on_subscriber_removed(a, id, c).node)
<1> DEFINE active == a.terminals.elem[id].active
           alive  == c \in a.conns
           owing  == {op \in active : /\ a.ops.elem[op].source # c
                                      /\ c \in a.ops.elem[op].remaining
                                      /\ ~(alive /\ c \in Nodes)}
           flag   == IF alive THEN "BINDINGDESTROYED" ELSE "CONNECTIONLOST"
           ids    == InSomeOrder(owing)
           start  == Outcome(a, Nothing, TRUE)
           Runs(g) == g = [i \in 0..Len(ids) |->
                              IF i = 0 THEN start
                              ELSE Then(g[i - 1], LAMBDA n : Resolve(n, ids[i], c, {flag}))]
           run == CHOOSE g : Runs(g)
           r   == on_subscriber_removed(a, id, c)
<1>1. r = IF \E op \in active : ~Used(a.ops, op) THEN Failure(a) ELSE run[Len(ids)]
  BY Zenon DEF on_subscriber_removed, ForAll
<1>2. Len(ids) \in Nat
  <2>1. IsFiniteSet(active)
    BY DEF IsNode, IsTerminal
  <2>2. owing \subseteq active
    OBVIOUS
  <2> HIDE DEF owing, active
  <2>3. IsFiniteSet(owing)
    BY <2>1, <2>2, FS_Subset
  <2> QED BY <2>3, SetInSequence
<1> HIDE DEF ids, start, flag
<1>3. Runs(run)
  <2>1. PICK g : Rounds(g, Len(ids), "resolve", start, ids, {flag}, c)
    BY <1>2, LoopRuns
  <2>2. Runs(g)
    BY <2>1 DEF Rounds, Round
  <2> QED BY <2>2, Zenon
<1> HIDE DEF run
<1>4. run[0] = start
  BY <1>2, <1>3
<1>5. \A i \in 1..Len(ids) : run[i] = Then(run[i - 1], LAMBDA n : Resolve(n, ids[i], c, {flag}))
  BY <1>2, <1>3
<1> DEFINE E == {k \in Nat : k <= Len(ids) => SameLinks(a, run[k].node)}
<1>6. 0 \in E
  <2>1. run[0].node = a
    BY <1>4 DEF start, Outcome
  <2> QED BY <2>1, SameReflexive
<1>7. ASSUME NEW k \in Nat, k \in E
      PROVE  k + 1 \in E
  <2> SUFFICES ASSUME k + 1 <= Len(ids)
               PROVE  SameLinks(a, run[k + 1].node)
    OBVIOUS
  <2>1. k + 1 \in 1..Len(ids) /\ (k + 1) - 1 = k /\ SameLinks(a, run[k].node)
    BY <1>2, <1>7
  <2> DEFINE q == run[k]
             s == Resolve(q.node, ids[k + 1], c, {flag})
  <2>2. run[k + 1] = Then(q, LAMBDA n : Resolve(n, ids[k + 1], c, {flag}))
    BY <1>5, <2>1
  <2>3. run[k + 1].node = q.node \/ run[k + 1].node = s.node
    <3>1. run[k + 1] = IF q.ok THEN Followed(q, s) ELSE q
      BY <2>2 DEF Then
    <3> HIDE DEF q, s
    <3> QED BY <3>1, OutcomeParts DEF Followed
  <2>4. SameLinks(q.node, s.node)
    BY <2>1, ResolveSame DEF SameLinks
  <2> HIDE DEF q, s
  <2>5. SameLinks(a, s.node)
    BY <2>1, <2>4, SameTransitive DEF q
  <2> QED BY <2>1, <2>3, <2>5 DEF q
<1>8. \A k \in Nat : k \in E
  <2> HIDE DEF E
  <2> QED BY <1>6, <1>7, Induction
<1>9. SameLinks(a, run[Len(ids)].node)
  BY <1>2, <1>8
<1>10. r = Failure(a) \/ r = run[Len(ids)]
  BY <1>1
<1> HIDE DEF r
<1>11. SameLinks(a, r.node)
  <2>1. Failure(a).node = a
    BY DEF Failure, Outcome
  <2> QED BY <1>9, <1>10, <2>1, SameReflexive
<1> QED BY <1>11 DEF r

----------------------------------------------------------------------------
(* Subscribers and users.                                                  *)

\* The outcome of two steps.
LEMMA ThenParts ==
    ASSUME NEW r, NEW s, NEW x, x = IF r.ok THEN Followed(r, s) ELSE r
    PROVE  \/ x.node = r.node /\ ~r.ok
           \/ x.node = s.node /\ r.ok /\ x.ok = s.ok
<1>1. Followed(r, s).node = s.node /\ Followed(r, s).ok = s.ok
  BY OutcomeParts DEF Followed
<1> QED BY <1>1

\* Then, with the outcome s of the second step given.
After(r, s) == IF r.ok THEN Followed(r, s) ELSE r

\* The node after two steps is that of the last one taken.
LEMMA AfterParts ==
    ASSUME NEW r, NEW s
    PROVE  \/ After(r, s).node = r.node /\ ~r.ok
           \/ After(r, s).node = s.node /\ r.ok /\ After(r, s).ok = s.ok
BY ThenParts DEF After

\* remove_subscriber_if_needed
LEMMA RemoveSubscriberSame ==
    ASSUME NEW a, IsNode(a), NEW id \in DOMAIN a.terminals.elem, NEW c
    PROVE  SameLinks(a, remove_subscriber_if_needed(a, id, c).node)
<1> DEFINE t    == a.terminals.elem[id]
           left == [t EXCEPT !.subscribers = Without(@, c)]
           n    == [a EXCEPT !.terminals = Put(@, id, left)]
           out  == unsubscribe_if_needed(n, left, c)
           ok   == only_subscriber_or_binding_owner(n, left) # {c}
           q    == Outcome(n, out, ok)
           s    == on_subscriber_removed(q.node, id, c)
           x    == remove_subscriber_if_needed(a, id, c)
<1>1. x = IF c \notin DOMAIN t.subscribers THEN Outcome(a, Nothing, TRUE)
          ELSE IF q.ok THEN Followed(q, s) ELSE q
  BY Zenon DEF remove_subscriber_if_needed, Then
<1>2. IsTerminal(t)
  BY DEF IsNode
<1>3. SameTerminal(t, left)
  <2> HIDE DEF t
  <2> QED BY <1>2, SubscribersSame
<1> HIDE DEF left
<1>4. SameLinks(a, n)
  BY <1>3, PutSameNode
<1> HIDE DEF n, out, ok
<1>5. q.node = n
  BY OutcomeParts
<1> HIDE DEF q
<1>6. SameLinks(n, s.node)
  <2>1. IsNode(n) /\ id \in DOMAIN n.terminals.elem
    BY <1>4 DEF SameLinks
  <2> QED BY <1>5, <2>1, SubscriberRemovedSame
<1>7. SameLinks(a, s.node)
  BY <1>4, <1>6, SameTransitive
<1> HIDE DEF s, x, t
<1>8. Outcome(a, Nothing, TRUE).node = a
  BY OkOutcome
<1>9. x.node = a \/ x.node = n \/ x.node = s.node
  <2>1. CASE x = IF q.ok THEN Followed(q, s) ELSE q
    BY <1>5, <2>1, ThenParts
  <2>2. CASE x = Outcome(a, Nothing, TRUE)
    BY <1>8, <2>2
  <2> QED BY <1>1, <2>1, <2>2
<1>10. SameLinks(a, x.node)
  BY <1>4, <1>7, <1>9, SameReflexive
<1> QED BY <1>10 DEF x

\* on_terminal_user_removed
LEMMA UserRemovedSame ==
    ASSUME NEW a, IsNode(a), NEW id \in DOMAIN a.terminals.elem, NEW c
    PROVE  SameLinks(a, on_terminal_user_removed(a, id, c).node)
<1> DEFINE r == remove_subscriber_if_needed(a, id, c)
           n == r.node
           x == on_terminal_user_removed(a, id, c)
<1>1. PICK out, ok : x = Outcome(n, out, ok)
  BY Zenon DEF on_terminal_user_removed, Asserted
<1>2. SameLinks(a, n)
  BY RemoveSubscriberSame
<1> HIDE DEF n, x
<1>3. x.node = n
  BY <1>1, OutcomeParts
<1> QED BY <1>2, <1>3 DEF x

\* The machine of a user makes a step.
LEMMA UserStepSame ==
    ASSUME NEW a, IsNode(a), NEW id \in DOMAIN a.terminals.elem, NEW c \in Nodes, NEW r
    PROVE  SameLinks(a, UserStep(a, id, c, r).node)
<1> DEFINE t == a.terminals.elem[id]
           f == IF r.alive THEN With(t.users, c, r.fsm) ELSE Without(t.users, c)
           u == [t EXCEPT !.users = IF r.alive THEN With(@, c, r.fsm) ELSE Without(@, c)]
           n == [a EXCEPT !.terminals = Put(@, id, u)]
           out == SendTo(c, Messages("Terminal", id, t, r.out))
           q == Outcome(n, out, r.ok)
           s == on_terminal_user_removed(q.node, id, c)
           x == UserStep(a, id, c, r)
<1>1. x = IF r.alive THEN q ELSE IF q.ok THEN Followed(q, s) ELSE q
  BY Zenon DEF UserStep, Then
<1>2. SameTerminal(t, u)
  <2>1. IsTerminal(t)
    BY DEF IsNode
  <2> HIDE DEF t
  <2>2. DOMAIN f \subseteq Nodes
    <3>1. DOMAIN t.users \subseteq Nodes
      BY <2>1 DEF IsTerminal
    <3> QED BY <3>1 DEF With, Without
  <2>3. u = [t EXCEPT !.users = f]
    OBVIOUS
  <2> HIDE DEF f, u
  <2> QED BY <2>1, <2>2, <2>3, UsersSame
<1> HIDE DEF u
<1>3. SameLinks(a, n)
  BY <1>2, PutSameNode
<1> HIDE DEF n, out
<1>4. q.node = n
  BY OutcomeParts
<1> HIDE DEF q
<1>5. SameLinks(n, s.node)
  <2>1. IsNode(n) /\ id \in DOMAIN n.terminals.elem
    BY <1>3 DEF SameLinks
  <2> QED BY <1>4, <2>1, UserRemovedSame
<1>6. SameLinks(a, s.node)
  BY <1>3, <1>5, SameTransitive
<1> HIDE DEF s, x
<1>7. x.node = n \/ x.node = s.node
  <2>1. CASE x = IF q.ok THEN Followed(q, s) ELSE q
    BY <1>4, <2>1, ThenParts
  <2> QED BY <1>1, <1>4, <2>1
<1>8. SameLinks(a, x.node)
  BY <1>3, <1>6, <1>7
<1> QED BY <1>8 DEF x

\* update_users_for_abandoned_terminal
LEMMA UsersToldSame ==
    ASSUME NEW a, IsNode(a), NEW id \in DOMAIN a.terminals.elem, NEW e
    PROVE  SameLinks(a, update_users_for_abandoned_terminal(a, id, e).node)
<1> DEFINE users == a.terminals.elem[id].users
           told  == {c \in DOMAIN users \ {e} : ~destroyed(users[c])}
           ids   == InSomeOrder(told)
           start == Outcome(a, Nothing, TRUE)
           next(q, c) == UserStep(q.node, id, c,
                                  process_object_destroyed(q.node.terminals.elem[id].users[c]))
           step(q, c) == IF q.ok THEN Followed(q, next(q, c)) ELSE q
           Runs(g) == g = [i \in 0..Len(ids) |-> IF i = 0 THEN start ELSE step(g[i - 1], ids[i])]
           run == CHOOSE g : Runs(g)
           r   == update_users_for_abandoned_terminal(a, id, e)
<1>1. r = run[Len(ids)]
  BY Zenon DEF update_users_for_abandoned_terminal, ForAll, Then
<1>2. Len(ids) \in Nat /\ \A i \in 1..Len(ids) : ids[i] \in Nodes
  <2>1. told \subseteq Nodes
    BY DEF IsNode, IsTerminal
  <2> HIDE DEF told
  <2>2. IsFiniteSet(told)
    BY <2>1, FinitePeers, FS_Subset
  <2>3. Len(ids) \in Nat /\ ids \in [1..Len(ids) -> told]
    BY <2>2, SetInSequence
  <2> HIDE DEF ids
  <2> QED BY <2>1, <2>3
<1> HIDE DEF ids, start
<1>3. Runs(run)
  <2>1. PICK g : Rounds(g, Len(ids), "tell", start, ids, id, e)
    BY <1>2, LoopRuns
  <2>2. Runs(g)
    BY <2>1 DEF Rounds, Round, Then
  <2> QED BY <2>2, Zenon
<1> HIDE DEF run, step
<1>4. run[0] = start
  BY <1>2, <1>3
<1>5. \A i \in 1..Len(ids) : run[i] = step(run[i - 1], ids[i])
  BY <1>2, <1>3
<1> DEFINE E == {k \in Nat : k <= Len(ids) => SameLinks(a, run[k].node)}
<1>6. 0 \in E
  <2>1. run[0].node = a
    BY <1>4 DEF start, Outcome
  <2> QED BY <2>1, SameReflexive
<1>7. ASSUME NEW k \in Nat, k \in E
      PROVE  k + 1 \in E
  <2> SUFFICES ASSUME k + 1 <= Len(ids)
               PROVE  SameLinks(a, run[k + 1].node)
    OBVIOUS
  <2>1. k + 1 \in 1..Len(ids) /\ (k + 1) - 1 = k /\ SameLinks(a, run[k].node)
    BY <1>2, <1>7
  <2> DEFINE q == run[k]
             s == next(q, ids[k + 1])
  <2>2. run[k + 1] = IF q.ok THEN Followed(q, s) ELSE q
    BY <1>5, <2>1 DEF step
  <2>3. run[k + 1].node = q.node \/ run[k + 1].node = s.node
    <3> HIDE DEF q, s
    <3> QED BY <2>2, ThenParts
  <2>4. SameLinks(q.node, s.node)
    <3>1. IsNode(q.node) /\ id \in DOMAIN q.node.terminals.elem
      BY <2>1 DEF SameLinks
    <3>2. ids[k + 1] \in Nodes
      BY <1>2, <2>1
    <3> HIDE DEF q
    <3> QED BY <3>1, <3>2, UserStepSame
  <2> HIDE DEF q, s
  <2>5. SameLinks(a, s.node)
    BY <2>1, <2>4, SameTransitive DEF q
  <2> QED BY <2>1, <2>3, <2>5 DEF q
<1>8. \A k \in Nat : k \in E
  <2> HIDE DEF E
  <2> QED BY <1>6, <1>7, Induction
<1>9. SameLinks(a, run[Len(ids)].node)
  BY <1>2, <1>8
<1> QED BY <1>1, <1>9

\* The last node that owns a terminal is told.
LEMMA LastOwnerSame ==
    ASSUME NEW a, IsNode(a), NEW id \in DOMAIN a.terminals.elem
    PROVE  SameLinks(a, TellLastOwner(a, id).node)
<1> DEFINE t == a.terminals.elem[id]
           u == CHOOSE c \in DOMAIN t.nodes : TRUE
           r == process_object_destroyed(t.users[u])
           s == UserStep(a, id, u, [r EXCEPT !.ok = @ /\ r.alive])
           x == TellLastOwner(a, id)
<1>1. x = CASE t.state # "0_LEAFS_1_NODES" -> Outcome(a, Nothing, TRUE)
            [] t.state = "0_LEAFS_1_NODES" /\ u \notin DOMAIN t.users -> Failure(a)
            [] t.state = "0_LEAFS_1_NODES" /\ u \in DOMAIN t.users /\ destroyed(t.users[u]) ->
                Outcome(a, Nothing, TRUE)
            [] OTHER -> s
  BY Zenon DEF TellLastOwner
<1>2. ASSUME u \in DOMAIN t.users
      PROVE  SameLinks(a, s.node)
  <2>1. u \in Nodes
    BY <1>2 DEF IsNode, IsTerminal
  <2> HIDE DEF t, u
  <2> QED BY <2>1, UserStepSame
<1>3. Outcome(a, Nothing, TRUE).node = a /\ Failure(a).node = a
  BY FailureNode, OkOutcome
<1> HIDE DEF s, x, u, t
<1>4. x = Outcome(a, Nothing, TRUE) \/ x = Failure(a) \/ (x = s /\ u \in DOMAIN t.users)
  BY <1>1
<1>5. SameLinks(a, x.node)
  BY <1>2, <1>3, <1>4, SameReflexive
<1> QED BY <1>5 DEF x

\* The nodes in S are told of a terminal.
LEMMA DescribeToAllSame ==
    ASSUME NEW a, IsNode(a), NEW id \in DOMAIN a.terminals.elem, NEW S \in SUBSET Nodes
    PROVE  SameLinks(a, DescribeToAll(a, id, S).node) /\ DescribeToAll(a, id, S).ok = TRUE
<1> DEFINE t     == a.terminals.elem[id]
           r     == reset(InitialFsm, FALSE)
           users == [c \in DOMAIN t.users \cup S |-> IF c \in S THEN r.fsm ELSE t.users[c]]
           n     == [a EXCEPT !.terminals.elem[id].users = users]
           u     == [t EXCEPT !.users = users]
           x     == DescribeToAll(a, id, S)
<1>1. PICK out : x = Outcome(n, out, TRUE)
  BY Zenon DEF DescribeToAll
<1>2. n = [a EXCEPT !.terminals.elem[id] = u]
  OBVIOUS
<1>3. DOMAIN users = DOMAIN t.users \cup S
  OBVIOUS
<1>4. SameTerminal(t, u)
  <2>1. IsTerminal(t)
    BY DEF IsNode
  <2> HIDE DEF t, users
  <2>2. DOMAIN users \subseteq Nodes
    BY <1>3, <2>1 DEF IsTerminal
  <2> QED BY <2>1, <2>2, UsersSame
<1> HIDE DEF u
<1>5. SameLinks(a, n)
  BY <1>2, <1>4, PutSameNode
<1> HIDE DEF n, x
<1>6. x.node = n /\ x.ok = TRUE
  BY <1>1 DEF Outcome
<1> QED BY <1>5, <1>6 DEF x

\* The operations of an owner that is gone.
LEMMA ForgetSourceSame ==
    ASSUME NEW a, IsNode(a), NEW id \in DOMAIN a.terminals.elem, NEW c
    PROVE  SameLinks(a, ForgetSource(a, id, c))
<1> DEFINE t    == a.terminals.elem[id]
           mine == {op \in t.active : a.ops.elem[op].source = c}
           S    == t.active \ mine
           u    == [t EXCEPT !.active = S]
           e    == [op \in DOMAIN a.ops.elem |->
                       IF op \in mine THEN [a.ops.elem[op] EXCEPT !.source = NoId]
                       ELSE a.ops.elem[op]]
           o    == [a.ops EXCEPT !.elem = e]
           n    == [a EXCEPT !.terminals.elem[id].active = S, !.ops.elem = e]
<1>1. ForgetSource(a, id, c) = n
  BY Zenon DEF ForgetSource
<1>2. IsTerminal(t) /\ IsFiniteSet(t.active)
  BY DEF IsNode, IsTerminal
<1>3. SameTerminal(t, u)
  <2>1. S \subseteq t.active
    OBVIOUS
  <2> HIDE DEF t, S
  <2>2. IsFiniteSet(S)
    BY <1>2, <2>1, FS_Subset
  <2> QED BY <1>2, <2>2, ActiveSame
<1> HIDE DEF S, e
<1>4. a = [terminals |-> a.terminals, bindings |-> a.bindings, conns |-> a.conns,
           known |-> a.known, ops |-> a.ops]
  BY DEF IsNode
<1>5. n = [terminals |-> Put(a.terminals, id, u), bindings |-> a.bindings, conns |-> a.conns,
           known |-> a.known, ops |-> o]
  <2> DEFINE p == Put(a.terminals, id, u)
  <2>1. p = [a.terminals EXCEPT !.elem[id].active = S]
    BY DEF Put
  <2>2. n = [a EXCEPT !.terminals = p, !.ops = o]
    BY <2>1
  <2> HIDE DEF p, o, n
  <2>3. n = [terminals |-> p, bindings |-> a.bindings, conns |-> a.conns,
             known |-> a.known, ops |-> o]
    BY <1>4, <2>2
  <2> QED BY <2>3 DEF p
<1> HIDE DEF n, u, o
<1>6. SameLinks(a, n)
  BY <1>3, <1>5, PutSame
<1> QED BY <1>1, <1>6

\* on_terminal_owner_removed
LEMMA OwnerRemovedSame ==
    ASSUME NEW a, IsNode(a), NEW id \in DOMAIN a.terminals.elem, NEW c
    PROVE  SameLinks(a, on_terminal_owner_removed(a, id, c))
<1> DEFINE t    == a.terminals.elem[id]
           subs == CASE DOMAIN t.leafs # {} \/ Cardinality(DOMAIN t.nodes) > 1 -> DOMAIN t.subscribers
                     [] DOMAIN t.leafs = {} /\ DOMAIN t.nodes = {} -> {}
                     [] OTHER -> DOMAIN t.subscribers \ DOMAIN t.nodes
           f    == [p \in subs |-> t.subscribers[p]]
           u    == [t EXCEPT !.subscribers = f]
           n    == [a EXCEPT !.terminals.elem[id].subscribers = f]
<1>1. on_terminal_owner_removed(a, id, c) = ForgetSource(n, id, c)
  BY Zenon DEF on_terminal_owner_removed
<1> HIDE DEF f
<1>2. SameTerminal(t, u)
  <2>1. IsTerminal(t)
    BY DEF IsNode
  <2> HIDE DEF t
  <2> QED BY <2>1, SubscribersSame
<1>3. n = [a EXCEPT !.terminals.elem[id] = u]
  OBVIOUS
<1> HIDE DEF u
<1>4. SameLinks(a, n)
  BY <1>2, <1>3, PutSameNode
<1> HIDE DEF n
<1>5. SameLinks(n, ForgetSource(n, id, c))
  BY <1>4, ForgetSourceSame DEF SameLinks
<1> QED BY <1>1, <1>4, <1>5, SameTransitive

\* on_connection_started
LEMMA StartedSame ==
    ASSUME NEW a, IsNode(a), NEW c
    PROVE  SameLinks(a, connection_started(a, c).node)
<1> DEFINE elem  == a.terminals.elem
           shown == IF c \in Nodes THEN {id \in DOMAIN elem : ~elem[id].hidden} ELSE {}
           fsm   == reset(InitialFsm, FALSE).fsm
           f(id) == With(elem[id].users, c, fsm)
           told  == [id \in DOMAIN elem |->
                        IF id \in shown THEN [elem[id] EXCEPT !.users = f(id)] ELSE elem[id]]
           n     == [a EXCEPT !.terminals.elem = told, !.conns = @ \cup {c}]
           r     == [a.terminals EXCEPT !.elem = told]
           x     == connection_started(a, c)
<1>1. PICK out, ok : x = Outcome(n, out, ok)
  BY Zenon DEF connection_started
<1>2. \A id \in DOMAIN elem : SameTerminal(elem[id], told[id])
  <2> SUFFICES ASSUME NEW id \in DOMAIN elem
               PROVE  SameTerminal(elem[id], told[id])
    OBVIOUS
  <2>1. IsTerminal(elem[id])
    BY DEF IsNode
  <2>2. CASE id \in shown
    <3>1. c \in Nodes
      BY <2>2
    <3>2. DOMAIN elem[id].users \subseteq Nodes
      BY <2>1 DEF IsTerminal
    <3>3. DOMAIN f(id) \subseteq Nodes
      BY <3>1, <3>2 DEF With
    <3>4. told[id] = [elem[id] EXCEPT !.users = f(id)]
      BY <2>2
    <3> HIDE DEF f, told, elem
    <3> QED BY <2>1, <3>3, <3>4, UsersSame
  <2>3. CASE id \notin shown
    <3>1. told[id] = elem[id]
      BY <2>3
    <3> HIDE DEF told
    <3> QED BY <2>1, <3>1 DEF SameTerminal
  <2> QED BY <2>2, <2>3
<1>3. DOMAIN told = DOMAIN elem /\ told = [id \in DOMAIN told |-> told[id]]
  OBVIOUS
<1> HIDE DEF told
<1>4. Orderly(a.terminals)
  BY DEF IsNode
<1>5. /\ r = [size |-> a.terminals.size, free |-> a.terminals.free, elem |-> told]
      /\ a = [terminals |-> a.terminals, bindings |-> a.bindings, conns |-> a.conns,
              known |-> a.known, ops |-> a.ops]
  BY <1>4 DEF IsNode, Orderly
<1>6. n = [terminals |-> r, bindings |-> a.bindings, conns |-> a.conns \cup {c},
           known |-> a.known, ops |-> a.ops]
  <2>1. n = [a EXCEPT !.terminals = r, !.conns = a.conns \cup {c}]
    OBVIOUS
  <2> HIDE DEF r, n
  <2> QED BY <1>5, <2>1
<1> HIDE DEF r, n, x
<1>7. r.size = a.terminals.size /\ r.free = a.terminals.free /\ r.elem = told
  BY <1>5
<1>8. Orderly(r)
  BY <1>3, <1>4, <1>5, <1>7 DEF Orderly
<1>9. SameLinks(a, n)
  BY <1>2, <1>3, <1>6, <1>7, <1>8, Rebuilt
<1>10. x.node = n
  BY <1>1, OutcomeParts
<1> QED BY <1>9, <1>10 DEF x

\* on_binding_owner_removed, of a binding whose terminal is there
LEMMA BindingOwnerRemovedSame ==
    ASSUME NEW a, IsNode(a), NEW b \in DOMAIN a.bindings.elem, NEW c,
           a.bindings.elem[b].terminal # NoId =>
               a.bindings.elem[b].terminal \in DOMAIN a.terminals.elem
    PROVE  SameLinks(a, on_binding_owner_removed(a, b, c).node)
<1> DEFINE id  == a.bindings.elem[b].terminal
           t   == a.terminals.elem[id]
           out == unsubscribe_if_needed(a, t, c)
           ok  == c \in Leafs /\ only_subscriber_or_binding_owner(a, t) # {c}
           q   == Outcome(a, out, ok)
           s   == on_subscriber_removed(q.node, id, c)
           x   == on_binding_owner_removed(a, b, c)
<1>1. x = IF ~Subscribable \/ id = NoId THEN Outcome(a, Nothing, TRUE)
          ELSE IF q.ok THEN Followed(q, s) ELSE q
  BY Zenon DEF on_binding_owner_removed, Then
<1> HIDE DEF out, ok
<1>2. q.node = a
  BY OutcomeParts
<1> HIDE DEF q
<1>3. ASSUME id # NoId
      PROVE  SameLinks(a, s.node)
  <2>1. id \in DOMAIN a.terminals.elem
    BY <1>3
  <2> HIDE DEF id
  <2> QED BY <1>2, <2>1, SubscriberRemovedSame
<1> HIDE DEF s, x, id
<1>4. Outcome(a, Nothing, TRUE).node = a
  BY OkOutcome
<1>5. x.node = a \/ (x.node = s.node /\ id # NoId)
  <2>1. CASE id # NoId /\ x = IF q.ok THEN Followed(q, s) ELSE q
    BY <1>2, <2>1, ThenParts
  <2>2. CASE x = Outcome(a, Nothing, TRUE)
    BY <1>4, <2>2
  <2> QED BY <1>1, <2>1, <2>2
<1>6. SameLinks(a, x.node)
  BY <1>3, <1>5, SameReflexive
<1> QED BY <1>6 DEF x

----------------------------------------------------------------------------
(* The entries of a node fit together.                                     *)

\* At most one of the terminals T is found under an identifier.
OneTerminal(T) ==
    \A i, j \in DOMAIN T :
        ~T[i].hidden /\ ~T[j].hidden /\ T[i].identifier = T[j].identifier => i = j

\* At most one of the bindings B is found under an identifier.
OneBinding(B) == \A b, d \in DOMAIN B : B[b].identifier = B[d].identifier => b = d

\* A terminal that names a binding is found and is named by the binding.
TerminalsLinked(T, B) ==
    \A i \in DOMAIN T : T[i].binding # NoId =>
        /\ ~T[i].hidden /\ T[i].binding \in DOMAIN B
        /\ B[T[i].binding].terminal = i /\ B[T[i].binding].identifier = T[i].identifier

\* A binding that names a terminal is named by it.
BindingsLinked(T, B) ==
    \A b \in DOMAIN B : B[b].terminal # NoId =>
        B[b].terminal \in DOMAIN T /\ T[B[b].terminal].binding = b

\* A terminal and a binding that are found under the same identifier are linked,
\* except for the terminals in X and the bindings in Y, which have yet to be.
AllLinked(T, B, X, Y) ==
    \A i \in DOMAIN T \ X : \A b \in DOMAIN B \ Y :
        ~T[i].hidden /\ T[i].identifier = B[b].identifier => T[i].binding = b

\* All of this for the terminals T and the bindings B.
LinksFit(T, B, X, Y) ==
    /\ OneTerminal(T) /\ OneBinding(B)
    /\ TerminalsLinked(T, B) /\ BindingsLinked(T, B) /\ AllLinked(T, B, X, Y)

\* A terminal is found under its identifier as long as it has owners, and its
\* state says how many.
OwnedWell(t) ==
    /\ t.hidden <=> DOMAIN t.leafs = {} /\ DOMAIN t.nodes = {}
    /\ ~t.hidden => t.state = OwnerState(t)

\* Node nd, but for the links of X and Y and the owners of the terminals in Z.
Fits(nd, X, Y, Z) ==
    /\ IsNode(nd)
    /\ LinksFit(nd.terminals.elem, nd.bindings.elem, X, Y)
    /\ \A i \in DOMAIN nd.terminals.elem \ Z : OwnedWell(nd.terminals.elem[i])

\* Everything in its place.
Settled(nd) == Fits(nd, {}, {}, {})

\* No id is NoId.
LEMMA NodeDomains ==
    ASSUME NEW a, IsNode(a)
    PROVE  /\ NoId \notin DOMAIN a.terminals.elem /\ NoId \notin DOMAIN a.bindings.elem
           /\ DOMAIN a.terminals.elem \subseteq Nat /\ DOMAIN a.bindings.elem \subseteq Nat
           /\ IsFiniteSet(DOMAIN a.terminals.elem) /\ IsFiniteSet(DOMAIN a.bindings.elem)
<1>1. Orderly(a.terminals) /\ Orderly(a.bindings)
  BY DEF IsNode
<1> QED BY <1>1, OrderlyDomain

\* What leaves the owners and the associations alone keeps the node fit.
LEMMA SameFits ==
    ASSUME NEW a, NEW n, NEW X, NEW Y, NEW Z, Fits(a, X, Y, Z), SameLinks(a, n)
    PROVE  Fits(n, X, Y, Z)
<1> DEFINE T == a.terminals.elem
           B == a.bindings.elem
           U == n.terminals.elem
           C == n.bindings.elem
<1>1. /\ DOMAIN U = DOMAIN T /\ DOMAIN C = DOMAIN B /\ IsNode(n)
      /\ \A i \in DOMAIN T : SameTerminal(T[i], U[i])
      /\ \A b \in DOMAIN B : SameBinding(B[b], C[b])
  BY DEF SameLinks
<1>2. LinksFit(T, B, X, Y) /\ \A i \in DOMAIN T \ Z : OwnedWell(T[i])
  BY DEF Fits
<1> HIDE DEF T, B, U, C
<1>3. \A i \in DOMAIN T : /\ U[i].identifier = T[i].identifier /\ U[i].hidden = T[i].hidden
                          /\ U[i].binding = T[i].binding
  BY <1>1 DEF SameTerminal
<1>4. \A b \in DOMAIN B : C[b].identifier = B[b].identifier /\ C[b].terminal = B[b].terminal
  BY <1>1 DEF SameBinding
<1>5. LinksFit(U, C, X, Y)
  BY <1>1, <1>2, <1>3, <1>4
     DEF LinksFit, OneTerminal, OneBinding, TerminalsLinked, BindingsLinked, AllLinked
<1>6. ASSUME NEW i \in DOMAIN U \ Z
      PROVE  OwnedWell(U[i])
  <2>1. OwnedWell(T[i]) /\ SameTerminal(T[i], U[i])
    BY <1>1, <1>2
  <2> QED BY <2>1 DEF OwnedWell, SameTerminal, OwnerState
<1> QED BY <1>1, <1>5, <1>6 DEF Fits, U, C

\* What may be missing need not be.
LEMMA FitsWeaker ==
    ASSUME NEW a, NEW X, NEW Y, NEW Z, Settled(a)
    PROVE  Fits(a, X, Y, Z)
BY DEF Settled, Fits, LinksFit, AllLinked

\* Node n is node a but for the links of terminal id and binding b.
Relinked(a, n, id, b, v, w) ==
    /\ IsNode(n)
    /\ DOMAIN n.terminals.elem = DOMAIN a.terminals.elem
    /\ DOMAIN n.bindings.elem = DOMAIN a.bindings.elem
    /\ n.terminals.elem[id] = [a.terminals.elem[id] EXCEPT !.binding = v]
    /\ n.bindings.elem[b] = [a.bindings.elem[b] EXCEPT !.terminal = w]
    /\ \A i \in DOMAIN a.terminals.elem : i # id => n.terminals.elem[i] = a.terminals.elem[i]
    /\ \A i \in DOMAIN a.bindings.elem : i # b => n.bindings.elem[i] = a.bindings.elem[i]

\* The two registers are changed at once, in either order.
LEMMA Relink ==
    ASSUME NEW a, IsNode(a), NEW id \in DOMAIN a.terminals.elem, NEW b \in DOMAIN a.bindings.elem,
           NEW v, NEW w, NEW n,
           \/ n = [a EXCEPT !.terminals.elem[id].binding = v, !.bindings.elem[b].terminal = w]
           \/ n = [a EXCEPT !.bindings.elem[b].terminal = w, !.terminals.elem[id].binding = v]
    PROVE  Relinked(a, n, id, b, v, w)
<1> DEFINE t == a.terminals.elem[id]
           e == a.bindings.elem[b]
           u == [t EXCEPT !.binding = v]
           f == [e EXCEPT !.terminal = w]
           p == Put(a.terminals, id, u)
           q == Put(a.bindings, b, f)
<1>1. IsTerminal(t) /\ IsBinding(e) /\ Orderly(a.terminals) /\ Orderly(a.bindings)
  BY DEF IsNode
<1>2. IsTerminal(u) /\ IsBinding(f)
  <2> HIDE DEF t, e
  <2>1. IsTerminal(u)
    BY <1>1 DEF IsTerminal
  <2>2. IsBinding(f)
    BY <1>1 DEF IsBinding
  <2> QED BY <2>1, <2>2
<1>3. a = [terminals |-> a.terminals, bindings |-> a.bindings, conns |-> a.conns,
           known |-> a.known, ops |-> a.ops]
  BY DEF IsNode
<1>4. n = [terminals |-> p, bindings |-> q, conns |-> a.conns, known |-> a.known, ops |-> a.ops]
  <2>1. p = [a.terminals EXCEPT !.elem[id].binding = v] /\ q = [a.bindings EXCEPT !.elem[b].terminal = w]
    BY DEF Put
  <2>2. n = [a EXCEPT !.terminals = p, !.bindings = q] \/ n = [a EXCEPT !.bindings = q, !.terminals = p]
    BY <2>1
  <2> HIDE DEF p, q
  <2> QED BY <1>3, <2>2
<1> HIDE DEF u, f
<1>5. /\ Orderly(p) /\ DOMAIN p.elem = DOMAIN a.terminals.elem /\ p.elem[id] = u
      /\ \A i \in DOMAIN a.terminals.elem : i # id => p.elem[i] = a.terminals.elem[i]
  BY <1>1, PutOrderly
<1>6. /\ Orderly(q) /\ DOMAIN q.elem = DOMAIN a.bindings.elem /\ q.elem[b] = f
      /\ \A i \in DOMAIN a.bindings.elem : i # b => q.elem[i] = a.bindings.elem[i]
  BY <1>1, PutOrderly
<1> HIDE DEF p, q
<1>7. /\ n.terminals = p /\ n.bindings = q
      /\ n = [terminals |-> n.terminals, bindings |-> n.bindings, conns |-> n.conns,
              known |-> n.known, ops |-> n.ops]
  BY <1>4
<1>8. \A i \in DOMAIN p.elem : IsTerminal(p.elem[i])
  BY <1>2, <1>5 DEF IsNode
<1>9. \A i \in DOMAIN q.elem : IsBinding(q.elem[i])
  BY <1>2, <1>6 DEF IsNode
<1>10. IsNode(n)
  BY <1>5, <1>6, <1>7, <1>8, <1>9 DEF IsNode
<1> QED BY <1>5, <1>6, <1>7, <1>10 DEF Relinked, u, f

\* The fields of entries with another link.
LEMMA RelinkedFields ==
    ASSUME NEW t, IsTerminal(t), NEW e, IsBinding(e), NEW v, NEW w
    PROVE  /\ [t EXCEPT !.binding = v].binding = v
           /\ [t EXCEPT !.binding = v].identifier = t.identifier
           /\ [t EXCEPT !.binding = v].hidden = t.hidden
           /\ [t EXCEPT !.binding = v].state = t.state
           /\ [t EXCEPT !.binding = v].leafs = t.leafs
           /\ [t EXCEPT !.binding = v].nodes = t.nodes
           /\ [e EXCEPT !.terminal = w].terminal = w
           /\ [e EXCEPT !.terminal = w].identifier = e.identifier
BY DEF IsTerminal, IsBinding

----------------------------------------------------------------------------
(* Entries are linked.                                                     *)

\* Terminal id has the same owners in node n as in node a.
SameOwners(a, n, id) ==
    /\ DOMAIN n.terminals.elem = DOMAIN a.terminals.elem
    /\ n.terminals.elem[id].hidden = a.terminals.elem[id].hidden
    /\ DOMAIN n.terminals.elem[id].leafs = DOMAIN a.terminals.elem[id].leafs
    /\ DOMAIN n.terminals.elem[id].nodes = DOMAIN a.terminals.elem[id].nodes

\* Terminal id and binding b, found under the same identifier, are linked.
LEMMA LinkFits ==
    ASSUME NEW a, NEW Z, NEW id, NEW b, Fits(a, {id}, {b}, Z),
           id \in DOMAIN a.terminals.elem, b \in DOMAIN a.bindings.elem,
           ~a.terminals.elem[id].hidden,
           a.terminals.elem[id].identifier = a.bindings.elem[b].identifier,
           a.terminals.elem[id].binding = NoId, a.bindings.elem[b].terminal = NoId
    PROVE  Fits(Link(a, id, b), {}, {}, Z) /\ SameOwners(a, Link(a, id, b), id)
<1> DEFINE n == Link(a, id, b)
           T == a.terminals.elem
           B == a.bindings.elem
           U == n.terminals.elem
           C == n.bindings.elem
           t == T[id]
           e == B[b]
<1>1. n = [a EXCEPT !.terminals.elem[id].binding = b, !.bindings.elem[b].terminal = id]
  BY DEF Link
<1>2. IsNode(a) /\ LinksFit(T, B, {id}, {b}) /\ \A i \in DOMAIN T \ Z : OwnedWell(T[i])
  BY DEF Fits
<1> HIDE DEF n
<1>3. /\ IsNode(n) /\ DOMAIN U = DOMAIN T /\ DOMAIN C = DOMAIN B
      /\ U[id] = [t EXCEPT !.binding = b] /\ C[b] = [e EXCEPT !.terminal = id]
      /\ \A i \in DOMAIN T : i # id => U[i] = T[i]
      /\ \A i \in DOMAIN B : i # b => C[i] = B[i]
  <2>1. Relinked(a, n, id, b, b, id)
    BY <1>1, <1>2, Relink
  <2> QED BY <2>1 DEF Relinked
<1>4. IsTerminal(t) /\ IsBinding(e)
  BY <1>2 DEF IsNode
<1>5. NoId \notin DOMAIN T /\ NoId \notin DOMAIN B
  BY <1>2, NodeDomains
<1> HIDE DEF T, B, U, C
<1>6. /\ U[id].binding = b /\ U[id].identifier = t.identifier /\ U[id].hidden = t.hidden
      /\ U[id].state = t.state /\ U[id].leafs = t.leafs /\ U[id].nodes = t.nodes
      /\ C[b].terminal = id /\ C[b].identifier = e.identifier
  <2> HIDE DEF t, e
  <2> QED BY <1>3, <1>4, RelinkedFields
<1>7. /\ id \in DOMAIN T /\ b \in DOMAIN B /\ ~T[id].hidden /\ T[id].identifier = B[b].identifier
      /\ T[id].binding = NoId /\ B[b].terminal = NoId
  BY DEF T, B
<1>8. /\ \A i \in DOMAIN T : U[i].identifier = T[i].identifier /\ U[i].hidden = T[i].hidden
      /\ \A i \in DOMAIN B : C[i].identifier = B[i].identifier
  BY <1>3, <1>6
<1>9. LinksFit(U, C, {}, {})
  <2>1. \A i, j \in DOMAIN U :
           ~U[i].hidden /\ ~U[j].hidden /\ U[i].identifier = U[j].identifier => i = j
    BY <1>2, <1>3, <1>8 DEF LinksFit, OneTerminal
  <2>2. \A i, j \in DOMAIN C : C[i].identifier = C[j].identifier => i = j
    BY <1>2, <1>3, <1>8 DEF LinksFit, OneBinding
  <2>3. \A i \in DOMAIN U : U[i].binding # NoId =>
           /\ ~U[i].hidden /\ U[i].binding \in DOMAIN C
           /\ C[U[i].binding].terminal = i /\ C[U[i].binding].identifier = U[i].identifier
    <3> SUFFICES ASSUME NEW i \in DOMAIN U, U[i].binding # NoId
                 PROVE  /\ ~U[i].hidden /\ U[i].binding \in DOMAIN C
                        /\ C[U[i].binding].terminal = i
                        /\ C[U[i].binding].identifier = U[i].identifier
      OBVIOUS
    <3>1. CASE i = id
      BY <1>3, <1>6, <1>7, <1>8, <3>1
    <3>2. CASE i # id
      <4>1. i \in DOMAIN T /\ U[i] = T[i]
        BY <1>3, <3>2
      <4>2. PICK d \in DOMAIN B : /\ d = T[i].binding /\ ~T[i].hidden
                                  /\ B[d].terminal = i /\ B[d].identifier = T[i].identifier
        BY <1>2, <4>1 DEF LinksFit, TerminalsLinked
      <4>3. d # b
        BY <1>5, <1>7, <4>1, <4>2
      <4> QED BY <1>3, <4>1, <4>2, <4>3
    <3> QED BY <3>1, <3>2
  <2>4. \A i \in DOMAIN C : C[i].terminal # NoId =>
           C[i].terminal \in DOMAIN U /\ U[C[i].terminal].binding = i
    <3> SUFFICES ASSUME NEW i \in DOMAIN C, C[i].terminal # NoId
                 PROVE  C[i].terminal \in DOMAIN U /\ U[C[i].terminal].binding = i
      OBVIOUS
    <3>1. CASE i = b
      BY <1>3, <1>6, <1>7, <3>1
    <3>2. CASE i # b
      <4>1. i \in DOMAIN B /\ C[i] = B[i]
        BY <1>3, <3>2
      <4>2. PICK j \in DOMAIN T : j = B[i].terminal /\ T[j].binding = i
        BY <1>2, <4>1 DEF LinksFit, BindingsLinked
      <4>3. j # id
        BY <1>5, <1>7, <4>1, <4>2
      <4> QED BY <1>3, <4>1, <4>2, <4>3
    <3> QED BY <3>1, <3>2
  <2>5. \A i \in DOMAIN U : \A d \in DOMAIN C :
           ~U[i].hidden /\ U[i].identifier = C[d].identifier => U[i].binding = d
    <3> SUFFICES ASSUME NEW i \in DOMAIN U, NEW d \in DOMAIN C,
                        ~U[i].hidden, U[i].identifier = C[d].identifier
                 PROVE  U[i].binding = d
      OBVIOUS
    <3>1. ~T[i].hidden /\ T[i].identifier = B[d].identifier /\ i \in DOMAIN T /\ d \in DOMAIN B
      BY <1>3, <1>8
    <3>2. CASE i = id
      <4>1. d = b
        BY <1>2, <1>7, <3>1, <3>2 DEF LinksFit, OneBinding
      <4> QED BY <1>6, <3>2, <4>1
    <3>3. CASE i # id
      <4>1. d # b
        BY <1>2, <1>7, <3>1, <3>3 DEF LinksFit, OneTerminal
      <4>2. T[i].binding = d
        BY <1>2, <3>1, <3>3, <4>1 DEF LinksFit, AllLinked
      <4> QED BY <1>3, <3>1, <3>3, <4>2
    <3> QED BY <3>2, <3>3
  <2> QED BY <2>1, <2>2, <2>3, <2>4, <2>5
       DEF LinksFit, OneTerminal, OneBinding, TerminalsLinked, BindingsLinked, AllLinked
<1>10. ASSUME NEW i \in DOMAIN U \ Z
       PROVE  OwnedWell(U[i])
  <2>1. OwnedWell(T[i]) /\ i \in DOMAIN T
    BY <1>2, <1>3
  <2>2. CASE i = id
    BY <1>6, <2>1, <2>2 DEF OwnedWell, OwnerState
  <2>3. CASE i # id
    BY <1>3, <2>1, <2>3
  <2> QED BY <2>2, <2>3
<1>11. Fits(n, {}, {}, Z)
  BY <1>3, <1>9, <1>10 DEF Fits, U, C
<1>12. SameOwners(a, n, id)
  BY <1>3, <1>6 DEF SameOwners, T, U
<1> QED BY <1>11, <1>12 DEF n

\* What find returns.
LEMMA Found ==
    ASSUME NEW r, NEW x, Visible(r, x) # {}
    PROVE  /\ Find(r, x) \in DOMAIN r.elem /\ r.elem[Find(r, x)].identifier = x
           /\ ~r.elem[Find(r, x)].hidden
<1>1. Find(r, x) \in Visible(r, x)
  BY Zenon DEF Find
<1> HIDE DEF Find
<1> QED BY <1>1 DEF Visible

\* associate
LEMMA AssociateFits ==
    ASSUME NEW a, NEW Z, NEW id, Fits(a, {id}, {}, Z), id \in DOMAIN a.terminals.elem,
           ~a.terminals.elem[id].hidden
    PROVE  /\ Fits(associate(a, id), {}, {}, Z) /\ SameOwners(a, associate(a, id), id)
           /\ AssociationOk(a, id)
<1> DEFINE T == a.terminals.elem
           B == a.bindings.elem
           t == T[id]
           x == t.identifier
           b == Find(a.bindings, x)
           n == associate(a, id)
<1>1. n = IF t.binding # NoId \/ Visible(a.bindings, x) = {} THEN a ELSE Link(a, id, b)
  BY Zenon DEF associate
<1>2. IsNode(a) /\ LinksFit(T, B, {id}, {}) /\ \A i \in DOMAIN T \ Z : OwnedWell(T[i])
  BY DEF Fits
<1>3. \A d \in DOMAIN B : ~B[d].hidden
  BY <1>2 DEF IsNode, IsBinding
<1>4. AssociationOk(a, id)
  BY <1>2 DEF AssociationOk, LinksFit, TerminalsLinked, Used
<1>5. /\ NoId \notin DOMAIN T /\ NoId \notin DOMAIN B
      /\ id \in DOMAIN T /\ ~T[id].hidden
  BY <1>2, NodeDomains
<1>6. Visible(a.bindings, x) = {d \in DOMAIN B : B[d].identifier = x /\ ~B[d].hidden}
  BY DEF Visible
<1>7. CASE t.binding # NoId \/ Visible(a.bindings, x) = {}
  <2> HIDE DEF T, B
  <2>1. \A d \in DOMAIN B : T[id].identifier = B[d].identifier => T[id].binding = d
    <3>1. CASE t.binding # NoId
      BY <1>2, <1>5, <3>1 DEF LinksFit, TerminalsLinked, OneBinding
    <3>2. CASE Visible(a.bindings, x) = {}
      BY <1>3, <1>6, <3>2
    <3> QED BY <1>7, <3>1, <3>2
  <2>2. LinksFit(T, B, {}, {})
    BY <1>2, <2>1 DEF LinksFit, AllLinked
  <2>3. Fits(a, {}, {}, Z)
    BY <1>2, <2>2 DEF Fits, T, B
  <2>4. n = a
    BY <1>1, <1>7
  <2>5. SameOwners(a, a, id)
    BY DEF SameOwners
  <2> QED BY <1>4, <2>3, <2>4, <2>5
<1>8. CASE t.binding = NoId /\ Visible(a.bindings, x) # {}
  <2>1. n = Link(a, id, b)
    BY <1>1, <1>8
  <2>2. b \in DOMAIN B /\ B[b].identifier = x
    BY <1>8, Found
  <2> HIDE DEF b, n
  <2>3. Fits(a, {id}, {b}, Z)
    BY DEF Fits, LinksFit, AllLinked
  <2>4. B[b].terminal = NoId
    <3> HIDE DEF T, B
    <3> SUFFICES ASSUME B[b].terminal # NoId
                 PROVE  FALSE
      OBVIOUS
    <3>1. PICK j \in DOMAIN T : j = B[b].terminal /\ T[j].binding = b
      BY <1>2, <2>2 DEF LinksFit, BindingsLinked
    <3>2. T[j].binding # NoId
      BY <1>5, <2>2, <3>1
    <3>3. ~T[j].hidden /\ T[j].identifier = B[b].identifier
      BY <1>2, <3>1, <3>2 DEF LinksFit, TerminalsLinked
    <3>4. j = id
      BY <1>2, <1>5, <2>2, <3>1, <3>3 DEF LinksFit, OneTerminal
    <3> QED BY <1>8, <3>2, <3>4
  <2>5. Fits(Link(a, id, b), {}, {}, Z) /\ SameOwners(a, Link(a, id, b), id)
    BY <1>8, <2>2, <2>3, <2>4, LinkFits
  <2> QED BY <1>4, <2>1, <2>5 DEF n
<1> QED BY <1>7, <1>8

\* associate_binding
LEMMA AssociateBindingFits ==
    ASSUME NEW a, NEW b, Fits(a, {}, {b}, {}), b \in DOMAIN a.bindings.elem
    PROVE  Settled(associate_binding(a, b))
<1> DEFINE T  == a.terminals.elem
           B  == a.bindings.elem
           e  == B[b]
           x  == e.identifier
           id == Find(a.terminals, x)
           n  == associate_binding(a, b)
<1>1. n = IF e.terminal # NoId \/ Visible(a.terminals, x) = {} THEN a ELSE Link(a, id, b)
  BY Zenon DEF associate_binding
<1>2. IsNode(a) /\ LinksFit(T, B, {}, {b}) /\ \A i \in DOMAIN T : OwnedWell(T[i])
  BY DEF Fits
<1>3. NoId \notin DOMAIN T /\ NoId \notin DOMAIN B /\ b \in DOMAIN B
  BY <1>2, NodeDomains
<1>4. Visible(a.terminals, x) = {i \in DOMAIN T : T[i].identifier = x /\ ~T[i].hidden}
  BY DEF Visible
<1>5. CASE e.terminal # NoId \/ Visible(a.terminals, x) = {}
  <2> HIDE DEF T, B
  <2>1. \A i \in DOMAIN T : ~T[i].hidden /\ T[i].identifier = B[b].identifier => T[i].binding = b
    <3>1. CASE e.terminal # NoId
      <4>1. PICK j \in DOMAIN T : j = B[b].terminal /\ T[j].binding = b
        BY <1>2, <1>3, <3>1 DEF LinksFit, BindingsLinked
      <4>2. T[j].binding # NoId
        BY <1>3, <4>1
      <4>3. ~T[j].hidden /\ T[j].identifier = B[b].identifier
        BY <1>2, <4>1, <4>2 DEF LinksFit, TerminalsLinked
      <4> QED BY <1>2, <4>1, <4>3 DEF LinksFit, OneTerminal
    <3>2. CASE Visible(a.terminals, x) = {}
      BY <1>4, <3>2
    <3> QED BY <1>5, <3>1, <3>2
  <2>2. LinksFit(T, B, {}, {})
    BY <1>2, <2>1 DEF LinksFit, AllLinked
  <2>3. Fits(a, {}, {}, {})
    BY <1>2, <2>2 DEF Fits, T, B
  <2>4. n = a
    BY <1>1, <1>5
  <2> QED BY <2>3, <2>4 DEF Settled
<1>6. CASE e.terminal = NoId /\ Visible(a.terminals, x) # {}
  <2>1. n = Link(a, id, b)
    BY <1>1, <1>6
  <2>2. id \in DOMAIN T /\ T[id].identifier = x /\ ~T[id].hidden
    BY <1>6, Found
  <2> HIDE DEF id, n
  <2>3. Fits(a, {id}, {b}, {})
    BY DEF Fits, LinksFit, AllLinked
  <2>4. T[id].binding = NoId
    <3> HIDE DEF T, B
    <3> SUFFICES ASSUME T[id].binding # NoId
                 PROVE  FALSE
      OBVIOUS
    <3>1. PICK d \in DOMAIN B : B[d].terminal = id /\ B[d].identifier = T[id].identifier
      BY <1>2, <2>2 DEF LinksFit, TerminalsLinked
    <3>2. d = b
      BY <1>2, <1>3, <2>2, <3>1 DEF LinksFit, OneBinding
    <3> QED BY <1>3, <1>6, <2>2, <3>1, <3>2
  <2>5. Fits(Link(a, id, b), {}, {}, {})
    BY <1>6, <2>2, <2>3, <2>4, LinkFits
  <2> QED BY <2>1, <2>5 DEF Settled, n
<1> QED BY <1>5, <1>6

----------------------------------------------------------------------------
(* Entries are changed, hidden and erased.                                 *)

\* Node n is node a with terminal u under id.
Replaced(a, n, id, u) ==
    /\ IsNode(n) /\ n.bindings = a.bindings
    /\ DOMAIN n.terminals.elem = DOMAIN a.terminals.elem /\ n.terminals.elem[id] = u
    /\ \A i \in DOMAIN a.terminals.elem : i # id => n.terminals.elem[i] = a.terminals.elem[i]

\* Terminal id is replaced, by either of two ways of writing it.
LEMMA Replacement ==
    ASSUME NEW a, IsNode(a), NEW id \in DOMAIN a.terminals.elem, NEW u, IsTerminal(u)
    PROVE  /\ Replaced(a, [a EXCEPT !.terminals = Put(@, id, u)], id, u)
           /\ Replaced(a, [a EXCEPT !.terminals.elem[id] = u], id, u)
<1> DEFINE n == [a EXCEPT !.terminals = Put(@, id, u)]
           r == Put(a.terminals, id, u)
<1>1. /\ Orderly(a.terminals) /\ Orderly(a.bindings)
      /\ a = [terminals |-> a.terminals, bindings |-> a.bindings, conns |-> a.conns,
              known |-> a.known, ops |-> a.ops]
  BY DEF IsNode
<1>2. /\ Orderly(r) /\ DOMAIN r.elem = DOMAIN a.terminals.elem /\ r.elem[id] = u
      /\ \A i \in DOMAIN a.terminals.elem : i # id => r.elem[i] = a.terminals.elem[i]
  BY <1>1, PutOrderly
<1>3. [a EXCEPT !.terminals.elem[id] = u] = n
  BY DEF Put
<1> HIDE DEF r
<1>4. /\ n.terminals = r /\ n.bindings = a.bindings
      /\ n = [terminals |-> n.terminals, bindings |-> n.bindings, conns |-> n.conns,
              known |-> n.known, ops |-> n.ops]
  BY <1>1 DEF r
<1> HIDE DEF n
<1>5. \A i \in DOMAIN r.elem : IsTerminal(r.elem[i])
  BY <1>2 DEF IsNode
<1>6. \A b \in DOMAIN a.bindings.elem : IsBinding(a.bindings.elem[b])
  BY DEF IsNode
<1>7. IsNode(n)
  BY <1>1, <1>2, <1>4, <1>5, <1>6 DEF IsNode
<1>8. Replaced(a, n, id, u)
  BY <1>2, <1>4, <1>7 DEF Replaced
<1> QED BY <1>3, <1>8 DEF n

\* Only the known identifiers change.
LEMMA KnownSame ==
    ASSUME NEW a, IsNode(a), NEW k
    PROVE  SameLinks(a, [a EXCEPT !.known = k])
<1> DEFINE n == [a EXCEPT !.known = k]
<1>1. a = [terminals |-> a.terminals, bindings |-> a.bindings, conns |-> a.conns,
           known |-> a.known, ops |-> a.ops]
  BY DEF IsNode
<1>2. n = [terminals |-> a.terminals, bindings |-> a.bindings, conns |-> a.conns,
           known |-> k, ops |-> a.ops]
  BY <1>1
<1>3. /\ Orderly(a.terminals)
      /\ \A id \in DOMAIN a.terminals.elem : SameTerminal(a.terminals.elem[id], a.terminals.elem[id])
  BY DEF IsNode, SameTerminal
<1> HIDE DEF n
<1>4. SameLinks(a, n)
  BY <1>2, <1>3, Rebuilt
<1> QED BY <1>4 DEF n

\* Node n is node a without terminal id.
WithoutTerminal(a, n, id) ==
    /\ IsNode(n) /\ n.bindings = a.bindings
    /\ DOMAIN n.terminals.elem = DOMAIN a.terminals.elem \ {id}
    /\ \A i \in DOMAIN a.terminals.elem : i # id => n.terminals.elem[i] = a.terminals.elem[i]

\* A terminal is erased and its identifier perhaps reported as gone.
LEMMA TerminalErased ==
    ASSUME NEW a, IsNode(a), NEW id \in DOMAIN a.terminals.elem, NEW k
    PROVE  WithoutTerminal(a, [a EXCEPT !.terminals = Erase(@, id), !.known = k], id)
<1> DEFINE r == Erase(a.terminals, id)
           n == [a EXCEPT !.terminals = r, !.known = k]
<1>1. /\ Orderly(a.terminals) /\ Orderly(a.bindings)
      /\ a = [terminals |-> a.terminals, bindings |-> a.bindings, conns |-> a.conns,
              known |-> a.known, ops |-> a.ops]
  BY DEF IsNode
<1>2. /\ Orderly(r) /\ DOMAIN r.elem = DOMAIN a.terminals.elem \ {id}
      /\ \A i \in DOMAIN a.terminals.elem : i # id => r.elem[i] = a.terminals.elem[i]
  BY <1>1, EraseOrderly
<1> HIDE DEF r
<1>3. n = [terminals |-> r, bindings |-> a.bindings, conns |-> a.conns, known |-> k, ops |-> a.ops]
  <2>1. n = [a EXCEPT !.terminals = r, !.known = k]
    OBVIOUS
  <2> HIDE DEF n
  <2> QED BY <1>1, <2>1
<1> HIDE DEF n
<1>4. /\ n.terminals = r /\ n.bindings = a.bindings
      /\ n = [terminals |-> n.terminals, bindings |-> n.bindings, conns |-> n.conns,
              known |-> n.known, ops |-> n.ops]
  BY <1>3
<1>5. \A i \in DOMAIN r.elem : IsTerminal(r.elem[i])
  BY <1>2 DEF IsNode
<1>6. \A b \in DOMAIN a.bindings.elem : IsBinding(a.bindings.elem[b])
  BY DEF IsNode
<1>7. IsNode(n)
  BY <1>1, <1>2, <1>4, <1>5, <1>6 DEF IsNode
<1>8. WithoutTerminal(a, n, id)
  BY <1>2, <1>4, <1>7 DEF WithoutTerminal
<1> QED BY <1>8 DEF n, r

\* update_state, of a terminal that is found as long as it has owners
LEMMA UpdateFits ==
    ASSUME NEW a, NEW id, Fits(a, {}, {}, {id}), id \in DOMAIN a.terminals.elem,
           a.terminals.elem[id].hidden
               <=> DOMAIN a.terminals.elem[id].leafs = {} /\ DOMAIN a.terminals.elem[id].nodes = {}
    PROVE  /\ Settled(update_state(a, id))
           /\ DOMAIN a.terminals.elem \ {id} \subseteq DOMAIN update_state(a, id).terminals.elem
<1> DEFINE T == a.terminals.elem
           B == a.bindings.elem
           t == T[id]
           u == [t EXCEPT !.state = OwnerState(t)]
           n == update_state(a, id)
           U == n.terminals.elem
<1>1. n = IF Deserted(t)
          THEN [a EXCEPT !.terminals = Erase(@, id), !.known = @ \ {t.identifier}]
          ELSE [a EXCEPT !.terminals.elem[id].state = OwnerState(t)]
  BY Zenon DEF update_state
<1>2. IsNode(a) /\ LinksFit(T, B, {}, {}) /\ \A i \in DOMAIN T \ {id} : OwnedWell(T[i])
  BY DEF Fits
<1>3. /\ id \in DOMAIN T /\ NoId \notin DOMAIN B
      /\ T[id].hidden <=> DOMAIN T[id].leafs = {} /\ DOMAIN T[id].nodes = {}
  BY <1>2, NodeDomains
<1>4. CASE Deserted(t)
  <2> DEFINE k == a.known \ {t.identifier}
             m == [a EXCEPT !.terminals = Erase(@, id), !.known = k]
  <2>1. n = m
    BY <1>1, <1>4
  <2>2. WithoutTerminal(a, n, id)
    <3> HIDE DEF k, n
    <3>1. WithoutTerminal(a, m, id)
      BY <1>2, TerminalErased
    <3> HIDE DEF m
    <3> QED BY <2>1, <3>1
  <2> HIDE DEF n
  <2>3. /\ IsNode(n) /\ n.bindings.elem = B /\ DOMAIN U = DOMAIN T \ {id}
        /\ \A i \in DOMAIN T : i # id => U[i] = T[i]
    BY <2>2 DEF WithoutTerminal
  <2> HIDE DEF T, B, U
  <2>4. T[id].binding = NoId
    BY <1>2, <1>3, <1>4 DEF Deserted, LinksFit, TerminalsLinked
  <2>5. LinksFit(U, B, {}, {})
    <3>1. OneTerminal(U) /\ OneBinding(B)
      BY <1>2, <2>3 DEF LinksFit, OneTerminal
    <3>2. TerminalsLinked(U, B)
      BY <1>2, <2>3 DEF LinksFit, TerminalsLinked
    <3>3. BindingsLinked(U, B)
      <4> SUFFICES ASSUME NEW b \in DOMAIN B, B[b].terminal # NoId
                   PROVE  B[b].terminal \in DOMAIN U /\ U[B[b].terminal].binding = b
        BY DEF BindingsLinked
      <4>1. PICK j \in DOMAIN T : j = B[b].terminal /\ T[j].binding = b
        BY <1>2 DEF LinksFit, BindingsLinked
      <4>2. j # id
        BY <1>3, <2>4, <4>1
      <4> QED BY <2>3, <4>1, <4>2
    <3>4. AllLinked(U, B, {}, {})
      BY <1>2, <2>3 DEF LinksFit, AllLinked
    <3> QED BY <3>1, <3>2, <3>3, <3>4 DEF LinksFit
  <2>6. \A i \in DOMAIN U : OwnedWell(U[i])
    BY <1>2, <2>3
  <2>7. Settled(n)
    BY <2>3, <2>5, <2>6 DEF Settled, Fits, U
  <2> QED BY <2>3, <2>7 DEF n, U, T
<1>5. CASE ~Deserted(t)
  <2>1. n = [a EXCEPT !.terminals.elem[id] = u]
    <3>1. n = [a EXCEPT !.terminals.elem[id].state = OwnerState(t)]
      BY <1>1, <1>5
    <3> HIDE DEF n
    <3> QED BY <3>1
  <2>2. IsTerminal(t)
    BY <1>2 DEF IsNode
  <2>3. /\ IsTerminal(u) /\ u.identifier = t.identifier /\ u.hidden = t.hidden
        /\ u.binding = t.binding /\ u.leafs = t.leafs /\ u.nodes = t.nodes
        /\ u.state = OwnerState(t)
    <3> HIDE DEF t
    <3> QED BY <2>2 DEF IsTerminal
  <2> HIDE DEF u
  <2>4. Replaced(a, n, id, u)
    <3> DEFINE m == [a EXCEPT !.terminals.elem[id] = u]
    <3>1. Replaced(a, m, id, u)
      BY <1>2, <2>3, Replacement
    <3> HIDE DEF m, n
    <3> QED BY <2>1, <3>1 DEF m
  <2> HIDE DEF n
  <2>5. /\ IsNode(n) /\ n.bindings.elem = B /\ DOMAIN U = DOMAIN T /\ U[id] = u
        /\ \A i \in DOMAIN T : i # id => U[i] = T[i]
    BY <2>4 DEF Replaced
  <2> HIDE DEF T, B, U
  <2>6. \A i \in DOMAIN T : /\ U[i].identifier = T[i].identifier /\ U[i].hidden = T[i].hidden
                            /\ U[i].binding = T[i].binding
    BY <2>3, <2>5
  <2>7. LinksFit(U, B, {}, {})
    BY <1>2, <2>5, <2>6
       DEF LinksFit, OneTerminal, OneBinding, TerminalsLinked, BindingsLinked, AllLinked
  <2>8. OwnedWell(u)
    <3>1. OwnerState(u) = OwnerState(t)
      BY <2>3 DEF OwnerState
    <3> QED BY <1>3, <2>3, <3>1 DEF OwnedWell
  <2>9. \A i \in DOMAIN U : OwnedWell(U[i])
    BY <1>2, <2>5, <2>8
  <2>10. Settled(n)
    BY <2>5, <2>7, <2>9 DEF Settled, Fits, U
  <2> QED BY <2>5, <2>10 DEF n, U, T
<1> QED BY <1>4, <1>5

\* A terminal that is found, or not.
LEMMA HiddenFields ==
    ASSUME NEW t, IsTerminal(t), NEW v \in BOOLEAN, NEW u, u = [t EXCEPT !.hidden = v]
    PROVE  /\ IsTerminal(u) /\ u.identifier = t.identifier /\ u.hidden = v
           /\ u.binding = t.binding /\ u.leafs = t.leafs /\ u.nodes = t.nodes
BY DEF IsTerminal

\* A terminal without owners is hidden and unlinked.
LEMMA HideFits ==
    ASSUME NEW a, NEW id, Fits(a, {}, {}, {id}), id \in DOMAIN a.terminals.elem,
           DOMAIN a.terminals.elem[id].leafs = {}, DOMAIN a.terminals.elem[id].nodes = {},
           NEW n, n = disassociate([a EXCEPT !.terminals = Hide(@, id)], id)
    PROVE  /\ Settled(n) /\ DOMAIN n.terminals.elem = DOMAIN a.terminals.elem
           /\ DOMAIN n.terminals.elem[id].leafs = {} /\ DOMAIN n.terminals.elem[id].nodes = {}
           /\ n.terminals.elem[id].hidden
<1> DEFINE T == a.terminals.elem
           B == a.bindings.elem
           t == T[id]
           u == [t EXCEPT !.hidden = TRUE]
           h == [a EXCEPT !.terminals = Hide(@, id)]
           b == h.terminals.elem[id].binding
           U == n.terminals.elem
           C == n.bindings.elem
<1>1. IsNode(a) /\ LinksFit(T, B, {}, {}) /\ \A i \in DOMAIN T \ {id} : OwnedWell(T[i])
  BY DEF Fits
<1>2. /\ id \in DOMAIN T /\ NoId \notin DOMAIN B /\ NoId \notin DOMAIN T
      /\ DOMAIN T[id].leafs = {} /\ DOMAIN T[id].nodes = {}
  BY <1>1, NodeDomains
<1>3. /\ IsTerminal(u) /\ u.identifier = t.identifier /\ u.hidden = TRUE
      /\ u.binding = t.binding /\ u.leafs = t.leafs /\ u.nodes = t.nodes
  <2>1. IsTerminal(t)
    BY <1>1 DEF IsNode
  <2> HIDE DEF t, u
  <2> QED BY <2>1, HiddenFields DEF u
<1>4. h = [a EXCEPT !.terminals.elem[id] = u]
  BY DEF Hide
<1>5. n = IF b = NoId THEN h ELSE [h EXCEPT !.bindings.elem[b].terminal = NoId,
                                            !.terminals.elem[id].binding = NoId]
  BY Zenon DEF disassociate
<1>6. Replaced(a, h, id, u)
  <2> DEFINE m == [a EXCEPT !.terminals.elem[id] = u]
  <2> HIDE DEF u
  <2>1. Replaced(a, m, id, u)
    BY <1>1, <1>3, Replacement
  <2> HIDE DEF m, h
  <2> QED BY <1>4, <2>1 DEF m
<1> HIDE DEF h, u
<1>7. /\ IsNode(h) /\ h.bindings.elem = B /\ DOMAIN h.terminals.elem = DOMAIN T
      /\ h.terminals.elem[id] = u /\ \A i \in DOMAIN T : i # id => h.terminals.elem[i] = T[i]
  BY <1>6 DEF Replaced
<1>8. b = T[id].binding
  BY <1>3, <1>7
<1> HIDE DEF b
<1>9. /\ IsNode(n) /\ DOMAIN U = DOMAIN T /\ DOMAIN C = DOMAIN B
      /\ U[id].identifier = T[id].identifier /\ U[id].hidden = TRUE /\ U[id].binding = NoId
      /\ U[id].leafs = T[id].leafs /\ U[id].nodes = T[id].nodes
      /\ \A i \in DOMAIN T : i # id => U[i] = T[i]
      /\ \A d \in DOMAIN B : C[d].identifier = B[d].identifier
      /\ \A d \in DOMAIN B : C[d].terminal = IF d = b THEN NoId ELSE B[d].terminal
  <2>1. CASE b = NoId
    <3>1. n = h
      BY <1>5, <2>1
    <3> QED BY <1>2, <1>3, <1>7, <1>8, <2>1, <3>1
  <2>2. CASE b # NoId
    <3>1. n = [h EXCEPT !.bindings.elem[b].terminal = NoId, !.terminals.elem[id].binding = NoId]
      BY <1>5, <2>2
    <3>2. b \in DOMAIN B
      BY <1>1, <1>2, <1>8, <2>2 DEF LinksFit, TerminalsLinked
    <3>3. Relinked(h, n, id, b, NoId, NoId)
      BY <1>2, <1>7, <3>1, <3>2, Relink
    <3>4. /\ IsNode(n) /\ DOMAIN U = DOMAIN T /\ DOMAIN C = DOMAIN B
          /\ U[id] = [u EXCEPT !.binding = NoId] /\ C[b] = [B[b] EXCEPT !.terminal = NoId]
          /\ \A i \in DOMAIN T : i # id => U[i] = T[i]
          /\ \A d \in DOMAIN B : d # b => C[d] = B[d]
      BY <1>7, <3>3 DEF Relinked
    <3>5. IsBinding(B[b])
      BY <1>1, <3>2 DEF IsNode
    <3> HIDE DEF T, B, U, C
    <3>6. /\ U[id].identifier = u.identifier /\ U[id].hidden = u.hidden /\ U[id].binding = NoId
          /\ U[id].leafs = u.leafs /\ U[id].nodes = u.nodes
          /\ C[b].terminal = NoId /\ C[b].identifier = B[b].identifier
      BY <1>3, <3>4, <3>5, RelinkedFields
    <3> QED BY <1>3, <3>4, <3>6
  <2> QED BY <2>1, <2>2
<1> HIDE DEF T, B, U, C
<1>10. LinksFit(U, C, {}, {})
  <2>1. OneTerminal(U)
    BY <1>1, <1>9 DEF LinksFit, OneTerminal
  <2>2. OneBinding(C)
    BY <1>1, <1>9 DEF LinksFit, OneBinding
  <2>3. TerminalsLinked(U, C)
    <3> SUFFICES ASSUME NEW i \in DOMAIN U, U[i].binding # NoId
                 PROVE  /\ ~U[i].hidden /\ U[i].binding \in DOMAIN C
                        /\ C[U[i].binding].terminal = i
                        /\ C[U[i].binding].identifier = U[i].identifier
      BY DEF TerminalsLinked
    <3>1. i # id /\ i \in DOMAIN T /\ U[i] = T[i]
      BY <1>9
    <3>2. PICK d \in DOMAIN B : /\ d = T[i].binding /\ ~T[i].hidden
                                /\ B[d].terminal = i /\ B[d].identifier = T[i].identifier
      BY <1>1, <3>1 DEF LinksFit, TerminalsLinked
    <3>3. d # b
      <4> SUFFICES ASSUME d = b
                   PROVE  FALSE
        OBVIOUS
      <4>1. T[id].binding # NoId /\ T[id].binding = d
        BY <1>2, <1>8
      <4>2. B[d].terminal = id
        BY <1>1, <1>2, <4>1 DEF LinksFit, TerminalsLinked
      <4> QED BY <3>1, <3>2, <4>2
    <3> QED BY <1>9, <3>1, <3>2, <3>3
  <2>4. BindingsLinked(U, C)
    <3> SUFFICES ASSUME NEW d \in DOMAIN C, C[d].terminal # NoId
                 PROVE  C[d].terminal \in DOMAIN U /\ U[C[d].terminal].binding = d
      BY DEF BindingsLinked
    <3>1. d # b /\ d \in DOMAIN B /\ C[d].terminal = B[d].terminal
      BY <1>9
    <3>2. PICK j \in DOMAIN T : j = B[d].terminal /\ T[j].binding = d
      BY <1>1, <3>1 DEF LinksFit, BindingsLinked
    <3>3. j # id
      BY <1>8, <3>1, <3>2
    <3> QED BY <1>9, <3>1, <3>2, <3>3
  <2>5. AllLinked(U, C, {}, {})
    <3> SUFFICES ASSUME NEW i \in DOMAIN U, NEW d \in DOMAIN C,
                        ~U[i].hidden, U[i].identifier = C[d].identifier
                 PROVE  U[i].binding = d
      BY DEF AllLinked
    <3>1. i # id /\ i \in DOMAIN T /\ U[i] = T[i] /\ d \in DOMAIN B
      BY <1>9
    <3> QED BY <1>1, <1>9, <3>1 DEF LinksFit, AllLinked
  <2> QED BY <2>1, <2>2, <2>3, <2>4, <2>5 DEF LinksFit
<1>11. ASSUME NEW i \in DOMAIN U
       PROVE  OwnedWell(U[i])
  <2>1. CASE i = id
    BY <1>2, <1>9, <2>1 DEF OwnedWell
  <2>2. CASE i # id
    BY <1>1, <1>9, <2>2
  <2> QED BY <2>1, <2>2
<1>12. Settled(n)
  BY <1>9, <1>10, <1>11 DEF Settled, Fits, U, C
<1> QED BY <1>2, <1>9, <1>12 DEF T, U

\* Node n is node a without binding b.
WithoutBinding(a, n, b) ==
    /\ IsNode(n) /\ n.terminals = a.terminals
    /\ DOMAIN n.bindings.elem = DOMAIN a.bindings.elem \ {b}
    /\ \A i \in DOMAIN a.bindings.elem : i # b => n.bindings.elem[i] = a.bindings.elem[i]

\* A binding is erased.
LEMMA BindingErased ==
    ASSUME NEW a, IsNode(a), NEW b \in DOMAIN a.bindings.elem
    PROVE  WithoutBinding(a, [a EXCEPT !.bindings = Erase(@, b)], b)
<1> DEFINE r == Erase(a.bindings, b)
           n == [a EXCEPT !.bindings = Erase(@, b)]
<1>1. /\ Orderly(a.terminals) /\ Orderly(a.bindings)
      /\ a = [terminals |-> a.terminals, bindings |-> a.bindings, conns |-> a.conns,
              known |-> a.known, ops |-> a.ops]
  BY DEF IsNode
<1>2. /\ Orderly(r) /\ DOMAIN r.elem = DOMAIN a.bindings.elem \ {b}
      /\ \A i \in DOMAIN a.bindings.elem : i # b => r.elem[i] = a.bindings.elem[i]
  BY <1>1, EraseOrderly
<1>3. n = [a EXCEPT !.bindings = r]
  OBVIOUS
<1> HIDE DEF r, n
<1>4. /\ n.terminals = a.terminals /\ n.bindings = r
      /\ n = [terminals |-> n.terminals, bindings |-> n.bindings, conns |-> n.conns,
              known |-> n.known, ops |-> n.ops]
  BY <1>1, <1>3
<1>5. \A i \in DOMAIN r.elem : IsBinding(r.elem[i])
  BY <1>2 DEF IsNode
<1>6. \A i \in DOMAIN a.terminals.elem : IsTerminal(a.terminals.elem[i])
  BY DEF IsNode
<1>7. IsNode(n)
  BY <1>1, <1>2, <1>4, <1>5, <1>6 DEF IsNode
<1>8. WithoutBinding(a, n, b)
  BY <1>2, <1>4, <1>7 DEF WithoutBinding
<1> QED BY <1>8 DEF n

\* A binding is unlinked and erased.
LEMMA EraseBindingFits ==
    ASSUME NEW a, Settled(a), NEW b \in DOMAIN a.bindings.elem,
           NEW n, n = [disassociate_binding(a, b) EXCEPT !.bindings = Erase(@, b)]
    PROVE  /\ Settled(n) /\ DOMAIN n.terminals.elem = DOMAIN a.terminals.elem
           /\ DOMAIN n.bindings.elem = DOMAIN a.bindings.elem \ {b}
<1> DEFINE T == a.terminals.elem
           B == a.bindings.elem
           k == B[b].terminal
           h == disassociate_binding(a, b)
           U == n.terminals.elem
           C == n.bindings.elem
<1>1. IsNode(a) /\ LinksFit(T, B, {}, {}) /\ \A i \in DOMAIN T : OwnedWell(T[i])
  BY DEF Settled, Fits
<1>2. NoId \notin DOMAIN B /\ NoId \notin DOMAIN T /\ b \in DOMAIN B
  BY <1>1, NodeDomains
<1>3. h = IF k = NoId THEN a ELSE [a EXCEPT !.terminals.elem[k].binding = NoId,
                                            !.bindings.elem[b].terminal = NoId]
  BY Zenon DEF disassociate_binding
<1> HIDE DEF h
<1>4. /\ IsNode(h) /\ DOMAIN h.terminals.elem = DOMAIN T /\ DOMAIN h.bindings.elem = DOMAIN B
      /\ \A i \in DOMAIN T : /\ h.terminals.elem[i].identifier = T[i].identifier
                             /\ h.terminals.elem[i].hidden = T[i].hidden
                             /\ h.terminals.elem[i].state = T[i].state
                             /\ h.terminals.elem[i].leafs = T[i].leafs
                             /\ h.terminals.elem[i].nodes = T[i].nodes
                             /\ h.terminals.elem[i].binding = IF i = k THEN NoId ELSE T[i].binding
      /\ \A i \in DOMAIN B : i # b => h.bindings.elem[i] = B[i]
  <2>1. CASE k = NoId
    <3>1. h = a
      BY <1>3, <2>1
    <3> QED BY <1>1, <1>2, <2>1, <3>1
  <2>2. CASE k # NoId
    <3>1. h = [a EXCEPT !.terminals.elem[k].binding = NoId, !.bindings.elem[b].terminal = NoId]
      BY <1>3, <2>2
    <3>2. k \in DOMAIN T
      BY <1>1, <1>2, <2>2 DEF LinksFit, BindingsLinked
    <3> HIDE DEF k
    <3>3. Relinked(a, h, k, b, NoId, NoId)
      BY <1>1, <3>1, <3>2, Relink
    <3>4. /\ IsNode(h) /\ DOMAIN h.terminals.elem = DOMAIN T /\ DOMAIN h.bindings.elem = DOMAIN B
          /\ h.terminals.elem[k] = [T[k] EXCEPT !.binding = NoId]
          /\ \A i \in DOMAIN T : i # k => h.terminals.elem[i] = T[i]
          /\ \A d \in DOMAIN B : d # b => h.bindings.elem[d] = B[d]
      BY <3>3 DEF Relinked
    <3>5. IsTerminal(T[k]) /\ IsBinding(B[b])
      BY <1>1, <3>2 DEF IsNode
    <3> HIDE DEF T, B
    <3>6. /\ h.terminals.elem[k].identifier = T[k].identifier
          /\ h.terminals.elem[k].hidden = T[k].hidden /\ h.terminals.elem[k].binding = NoId
          /\ h.terminals.elem[k].leafs = T[k].leafs /\ h.terminals.elem[k].nodes = T[k].nodes
          /\ h.terminals.elem[k].state = T[k].state
      BY <3>4, <3>5, RelinkedFields
    <3> QED BY <3>4, <3>6
  <2> QED BY <2>1, <2>2
<1>5. /\ IsNode(n) /\ n.terminals = h.terminals /\ DOMAIN C = DOMAIN B \ {b}
      /\ \A i \in DOMAIN B : i # b => C[i] = B[i]
  <2>1. n = [h EXCEPT !.bindings = Erase(@, b)]
    BY DEF h
  <2>2. IsNode(h) /\ b \in DOMAIN h.bindings.elem
    BY <1>2, <1>4
  <2>3. WithoutBinding(h, n, b)
    <3> DEFINE m == [h EXCEPT !.bindings = Erase(@, b)]
    <3>1. WithoutBinding(h, m, b)
      BY <2>2, BindingErased
    <3> HIDE DEF m
    <3> QED BY <2>1, <3>1 DEF m
  <2> QED BY <1>4, <2>3 DEF WithoutBinding
<1>6. /\ DOMAIN U = DOMAIN T
      /\ \A i \in DOMAIN T : /\ U[i].identifier = T[i].identifier /\ U[i].hidden = T[i].hidden
                             /\ U[i].state = T[i].state
                             /\ U[i].leafs = T[i].leafs /\ U[i].nodes = T[i].nodes
                             /\ U[i].binding = IF i = k THEN NoId ELSE T[i].binding
  BY <1>4, <1>5
<1> HIDE DEF T, B, U, C
<1>7. LinksFit(U, C, {}, {})
  <2>1. OneTerminal(U)
    BY <1>1, <1>6 DEF LinksFit, OneTerminal
  <2>2. OneBinding(C)
    BY <1>1, <1>5 DEF LinksFit, OneBinding
  <2>3. TerminalsLinked(U, C)
    <3> SUFFICES ASSUME NEW i \in DOMAIN U, U[i].binding # NoId
                 PROVE  /\ ~U[i].hidden /\ U[i].binding \in DOMAIN C
                        /\ C[U[i].binding].terminal = i
                        /\ C[U[i].binding].identifier = U[i].identifier
      BY DEF TerminalsLinked
    <3>1. i # k /\ i \in DOMAIN T /\ U[i].binding = T[i].binding
      BY <1>6
    <3>2. PICK d \in DOMAIN B : /\ d = T[i].binding /\ ~T[i].hidden
                                /\ B[d].terminal = i /\ B[d].identifier = T[i].identifier
      BY <1>1, <3>1 DEF LinksFit, TerminalsLinked
    <3>3. d # b
      BY <3>1, <3>2
    <3> QED BY <1>5, <1>6, <3>1, <3>2, <3>3
  <2>4. BindingsLinked(U, C)
    <3> SUFFICES ASSUME NEW d \in DOMAIN C, C[d].terminal # NoId
                 PROVE  C[d].terminal \in DOMAIN U /\ U[C[d].terminal].binding = d
      BY DEF BindingsLinked
    <3>1. d # b /\ d \in DOMAIN B /\ C[d] = B[d]
      BY <1>5
    <3>2. PICK j \in DOMAIN T : j = B[d].terminal /\ T[j].binding = d
      BY <1>1, <3>1 DEF LinksFit, BindingsLinked
    <3>3. j # k
      <4> SUFFICES ASSUME j = k
                   PROVE  FALSE
        OBVIOUS
      <4>1. B[b].terminal # NoId
        BY <1>2, <3>2
      <4>2. T[k].binding = b
        BY <1>1, <1>2, <4>1 DEF LinksFit, BindingsLinked
      <4> QED BY <3>1, <3>2, <4>2
    <3> QED BY <1>6, <3>1, <3>2, <3>3
  <2>5. AllLinked(U, C, {}, {})
    <3> SUFFICES ASSUME NEW i \in DOMAIN U, NEW d \in DOMAIN C,
                        ~U[i].hidden, U[i].identifier = C[d].identifier
                 PROVE  U[i].binding = d
      BY DEF AllLinked
    <3>1. i \in DOMAIN T /\ d \in DOMAIN B /\ d # b /\ ~T[i].hidden
      BY <1>5, <1>6
    <3>2. T[i].binding = d
      BY <1>1, <1>5, <1>6, <3>1 DEF LinksFit, AllLinked
    <3>3. i # k
      <4> SUFFICES ASSUME i = k
                   PROVE  FALSE
        OBVIOUS
      <4>1. B[b].terminal # NoId
        BY <1>2, <3>1
      <4>2. T[k].binding = b
        BY <1>1, <1>2, <4>1 DEF LinksFit, BindingsLinked
      <4> QED BY <3>1, <3>2, <4>2
    <3> QED BY <1>6, <3>1, <3>2, <3>3
  <2> QED BY <2>1, <2>2, <2>3, <2>4, <2>5 DEF LinksFit
<1>8. ASSUME NEW i \in DOMAIN U
      PROVE  OwnedWell(U[i])
  BY <1>1, <1>6, <1>8 DEF OwnedWell, OwnerState
<1>9. Settled(n)
  BY <1>5, <1>7, <1>8 DEF Settled, Fits, U, C
<1> QED BY <1>5, <1>6, <1>9 DEF T, U, B, C

----------------------------------------------------------------------------
(* Owners of terminals go.                                                 *)

\* One terminal gets other owners.
LEMMA OwnersFit ==
    ASSUME NEW a, Settled(a), NEW id \in DOMAIN a.terminals.elem, NEW u, NEW n,
           Replaced(a, n, id, u),
           u.identifier = a.terminals.elem[id].identifier, u.hidden = a.terminals.elem[id].hidden,
           u.binding = a.terminals.elem[id].binding
    PROVE  Fits(n, {}, {}, {id})
<1> DEFINE T == a.terminals.elem
           B == a.bindings.elem
           U == n.terminals.elem
<1>1. IsNode(a) /\ LinksFit(T, B, {}, {}) /\ \A i \in DOMAIN T : OwnedWell(T[i])
  BY DEF Settled, Fits
<1>2. /\ IsNode(n) /\ n.bindings.elem = B /\ DOMAIN U = DOMAIN T /\ U[id] = u
      /\ \A i \in DOMAIN T : i # id => U[i] = T[i]
  BY DEF Replaced
<1>3. \A i \in DOMAIN T : /\ U[i].identifier = T[i].identifier /\ U[i].hidden = T[i].hidden
                          /\ U[i].binding = T[i].binding
  BY <1>2
<1> HIDE DEF T, B, U
<1>4. LinksFit(U, B, {}, {})
  BY <1>1, <1>2, <1>3
     DEF LinksFit, OneTerminal, OneBinding, TerminalsLinked, BindingsLinked, AllLinked
<1>5. \A i \in DOMAIN U \ {id} : OwnedWell(U[i])
  BY <1>1, <1>2
<1> QED BY <1>2, <1>4, <1>5 DEF Fits, U

\* Only the owners of one kind change.
LEMMA SetOwnersFields ==
    ASSUME NEW t, IsTerminal(t), NEW c \in Peers, NEW f,
           DOMAIN f \subseteq DOMAIN owners(t, c) \cup {c}
    PROVE  /\ IsTerminal(SetOwners(t, c, f))
           /\ SetOwners(t, c, f).identifier = t.identifier /\ SetOwners(t, c, f).hidden = t.hidden
           /\ SetOwners(t, c, f).binding = t.binding /\ SetOwners(t, c, f).state = t.state
           /\ SetOwners(t, c, f).leafs = IF c \in Nodes THEN t.leafs ELSE f
           /\ SetOwners(t, c, f).nodes = IF c \in Nodes THEN f ELSE t.nodes
<1>1. CASE c \in Nodes
  <2> DEFINE u == [t EXCEPT !.nodes = f]
  <2>1. SetOwners(t, c, f) = u /\ owners(t, c) = t.nodes
    BY <1>1 DEF SetOwners, owners
  <2>2. DOMAIN f \subseteq Nodes
    BY <1>1, <2>1 DEF IsTerminal
  <2>3. /\ IsTerminal(u) /\ u.identifier = t.identifier /\ u.hidden = t.hidden
        /\ u.binding = t.binding /\ u.state = t.state /\ u.leafs = t.leafs /\ u.nodes = f
    BY <2>2 DEF IsTerminal
  <2> QED BY <1>1, <2>1, <2>3
<1>2. CASE c \notin Nodes
  <2> DEFINE u == [t EXCEPT !.leafs = f]
  <2>1. SetOwners(t, c, f) = u /\ owners(t, c) = t.leafs /\ c \in Leafs
    BY <1>2 DEF SetOwners, owners, Peers
  <2>2. DOMAIN f \subseteq Leafs
    BY <2>1 DEF IsTerminal
  <2>3. /\ IsTerminal(u) /\ u.identifier = t.identifier /\ u.hidden = t.hidden
        /\ u.binding = t.binding /\ u.state = t.state /\ u.nodes = t.nodes /\ u.leafs = f
    BY <2>2 DEF IsTerminal
  <2> QED BY <1>2, <2>1, <2>3
<1> QED BY <1>1, <1>2

\* The state of a terminal says whether owner c is the only one.
LEMMA OnlyOwner ==
    ASSUME NEW t, IsTerminal(t), NEW c \in Peers, c \in DOMAIN owners(t, c),
           t.state = OwnerState(t), NEW u, u = SetOwners(t, c, Without(owners(t, c), c))
    PROVE  /\ t.state \in {"1_LEAFS_0_NODES", "0_LEAFS_1_NODES"} =>
                 DOMAIN u.leafs = {} /\ DOMAIN u.nodes = {}
           /\ t.state \in {"M_LEAFS_0_NODES", "0_LEAFS_M_NODES", "N_LEAFS_N_NODES"} =>
                 DOMAIN u.leafs # {} \/ DOMAIN u.nodes # {}
<1> DEFINE L == DOMAIN t.leafs
           N == DOMAIN t.nodes
           l == Cardinality(L)
           n == Cardinality(N)
<1>1. IsFiniteSet(L) /\ IsFiniteSet(N)
  BY FinitePeers, FS_Subset DEF IsTerminal
<1>2. DOMAIN u.leafs = (IF c \in Nodes THEN L ELSE L \ {c}) /\ DOMAIN u.nodes = (IF c \in Nodes THEN N \ {c} ELSE N)
  <2> DEFINE f == Without(owners(t, c), c)
  <2>1. DOMAIN f = DOMAIN owners(t, c) \ {c}
    BY MapDomains
  <2> HIDE DEF f
  <2>2. /\ u.leafs = (IF c \in Nodes THEN t.leafs ELSE f)
        /\ u.nodes = (IF c \in Nodes THEN f ELSE t.nodes)
    BY <2>1, SetOwnersFields DEF f
  <2> QED BY <2>1, <2>2 DEF owners
<1>3. IF c \in Nodes THEN c \in N ELSE c \in L
  BY DEF owners
<1>4. /\ t.state = "1_LEAFS_0_NODES" => l = 1 /\ n = 0
      /\ t.state = "0_LEAFS_1_NODES" => l = 0 /\ n = 1
      /\ t.state = "M_LEAFS_0_NODES" => l # 1 /\ n = 0
      /\ t.state = "0_LEAFS_M_NODES" => l = 0 /\ n # 1
      /\ t.state = "N_LEAFS_N_NODES" => l # 0 /\ n # 0
  <2>1. l \in Nat /\ n \in Nat
    BY <1>1, FS_CardinalityType
  <2>2. t.state = CASE l = 0 /\ n = 0 -> "AWAIT_ACKS"
                    [] l = 0 /\ n = 1 -> "0_LEAFS_1_NODES"
                    [] l = 0 /\ n > 1 -> "0_LEAFS_M_NODES"
                    [] l = 1 /\ n = 0 -> "1_LEAFS_0_NODES"
                    [] l > 1 /\ n = 0 -> "M_LEAFS_0_NODES"
                    [] OTHER          -> "N_LEAFS_N_NODES"
    BY Zenon DEF OwnerState
  <2> HIDE DEF l, n
  <2> QED BY <2>1, <2>2
<1> HIDE DEF L, N
<1>5. (l = 0 <=> L = {}) /\ (n = 0 <=> N = {})
  BY <1>1, FS_EmptySet
<1>6. (l = 1 <=> \E x : L = {x}) /\ (n = 1 <=> \E x : N = {x})
  BY <1>1, FS_Singleton
<1> HIDE DEF l, n
<1>7. CASE c \in Nodes
  <2>1. c \in N /\ DOMAIN u.leafs = L /\ DOMAIN u.nodes = N \ {c}
    BY <1>2, <1>3, <1>7
  <2>2. n # 0 /\ (n = 1 => N \ {c} = {}) /\ (n # 1 => N \ {c} # {})
    BY <1>5, <1>6, <2>1
  <2> QED BY <1>4, <1>5, <2>1, <2>2
<1>8. CASE c \notin Nodes
  <2>1. c \in L /\ DOMAIN u.leafs = L \ {c} /\ DOMAIN u.nodes = N
    BY <1>2, <1>3, <1>8
  <2>2. l # 0 /\ (l = 1 => L \ {c} = {}) /\ (l # 1 => L \ {c} # {})
    BY <1>5, <1>6, <2>1
  <2> QED BY <1>4, <1>5, <2>1, <2>2
<1> QED BY <1>7, <1>8

\* Terminal id is hidden if and only if it has no owners.
HiddenIfDeserted(n, id) ==
    n.terminals.elem[id].hidden
        <=> DOMAIN n.terminals.elem[id].leafs = {} /\ DOMAIN n.terminals.elem[id].nodes = {}

\* If nothing else takes place after r the entries fit.
StopsSettled(r) == r.ok \/ Settled(r.node)

\* The rest of remove_terminal_owner, once the owner is gone: the steps s1, s2 and
\* s3 after q, and their outcomes.
Finish(q, id, s1, s2, s3, x1, x2, x3) ==
    /\ x1 = After(q, s1) /\ s1.node = update_state(q.node, id)
    /\ x2 = After(x1, s2)
    /\ IF Used(x1.node.terminals, id) THEN s2 = TellLastOwner(x1.node, id)
       ELSE s2.node = x1.node
    /\ x3 = After(x2, s3) /\ s3.node = x2.node

\* The last steps of a removal leave the node settled, wherever they stop.
LEMMA FinishFits ==
    ASSUME NEW q, NEW id, NEW s1, NEW s2, NEW s3, NEW x1, NEW x2, NEW x3,
           Fits(q.node, {}, {}, {id}), id \in DOMAIN q.node.terminals.elem,
           HiddenIfDeserted(q.node, id), StopsSettled(q),
           Finish(q, id, s1, s2, s3, x1, x2, x3)
    PROVE  /\ Settled(x3.node)
           /\ DOMAIN q.node.terminals.elem \ {id} \subseteq DOMAIN x3.node.terminals.elem
<1> DEFINE n == q.node
           D == DOMAIN n.terminals.elem \ {id}
<1>1. Settled(s1.node) /\ D \subseteq DOMAIN s1.node.terminals.elem
  BY UpdateFits DEF HiddenIfDeserted, Finish
<1>2. Settled(x1.node) /\ D \subseteq DOMAIN x1.node.terminals.elem
  <2>1. (x1.node = n /\ ~q.ok) \/ x1.node = s1.node
    BY AfterParts DEF Finish
  <2> QED BY <1>1, <2>1 DEF StopsSettled
<1>3. Settled(x2.node) /\ D \subseteq DOMAIN x2.node.terminals.elem
  <2>1. IsNode(x1.node)
    BY <1>2 DEF Settled, Fits
  <2>2. SameLinks(x1.node, s2.node)
    <3>1. CASE id \in DOMAIN x1.node.terminals.elem
      <4>1. s2 = TellLastOwner(x1.node, id)
        BY <3>1 DEF Used, Finish
      <4> QED BY <2>1, <3>1, <4>1, LastOwnerSame
    <3>2. CASE id \notin DOMAIN x1.node.terminals.elem
      <4>1. s2.node = x1.node
        BY <3>2 DEF Used, Finish
      <4> QED BY <2>1, <4>1, SameReflexive
    <3> QED BY <3>1, <3>2
  <2>3. Settled(s2.node) /\ DOMAIN s2.node.terminals.elem = DOMAIN x1.node.terminals.elem
    BY <1>2, <2>2, SameFits DEF Settled, SameLinks
  <2>4. x2.node = x1.node \/ x2.node = s2.node
    BY AfterParts DEF Finish
  <2> QED BY <1>2, <2>3, <2>4
<1>4. x3.node = x2.node
  BY AfterParts DEF Finish
<1> QED BY <1>3, <1>4

\* remove_terminal_owner, from the point where owner c is erased
LEMMA EraseOwnerFits ==
    ASSUME NEW a, Settled(a), NEW id \in DOMAIN a.terminals.elem, NEW c \in Peers,
           c \in DOMAIN owners(a.terminals.elem[id], c)
    PROVE  /\ Settled(EraseOwner(a, id, c).node)
           /\ DOMAIN a.terminals.elem \ {id} \subseteq DOMAIN EraseOwner(a, id, c).node.terminals.elem
<1> DEFINE t    == a.terminals.elem[id]
           u    == SetOwners(t, c, Without(owners(t, c), c))
           n    == [a EXCEPT !.terminals = Put(@, id, u)]
           left == on_terminal_owner_removed(n, id, c)
           gone == disassociate([left EXCEPT !.terminals = Hide(@, id)], id)
           q1   == update_users_for_abandoned_terminal(gone, id, c)
           q2   == Outcome(left, Nothing, TRUE)
           updated(k)   == Outcome(update_state(k, id), Nothing, TRUE)
           lastOwner(k) == IF Used(k.terminals, id) THEN TellLastOwner(k, id)
                           ELSE Outcome(k, Nothing, TRUE)
           release(k)   == ReleaseBindings(k, id, c, t.binding)
           x1(q) == Then(q, updated)
           x2(q) == Then(x1(q), lastOwner)
           x3(q) == Then(x2(q), release)
           x     == EraseOwner(a, id, c)
<1>1. x = CASE t.state \in {"1_LEAFS_0_NODES", "0_LEAFS_1_NODES"} -> x3(q1)
            [] t.state \in {"M_LEAFS_0_NODES", "0_LEAFS_M_NODES", "N_LEAFS_N_NODES"} -> x3(q2)
            [] OTHER -> Failure(a)
  BY Zenon DEF EraseOwner
<1>2. IsNode(a) /\ IsTerminal(t) /\ OwnedWell(t)
  BY DEF Settled, Fits, IsNode
<1>3. t.hidden = FALSE /\ t.state = OwnerState(t)
  <2>1. ~(DOMAIN t.leafs = {} /\ DOMAIN t.nodes = {})
    BY DEF owners
  <2>2. t.hidden \in BOOLEAN
    BY <1>2 DEF IsTerminal
  <2> HIDE DEF t
  <2> QED BY <1>2, <2>1, <2>2 DEF OwnedWell
<1>4. /\ IsTerminal(u) /\ u.identifier = t.identifier /\ u.hidden = t.hidden
      /\ u.binding = t.binding
  <2> DEFINE f == Without(owners(t, c), c)
  <2>1. DOMAIN f \subseteq DOMAIN owners(t, c) \cup {c}
    BY DEF Without
  <2>2. u = SetOwners(t, c, f)
    OBVIOUS
  <2> HIDE DEF f, t, u
  <2> QED BY <1>2, <2>1, <2>2, SetOwnersFields
<1>5. /\ t.state \in {"1_LEAFS_0_NODES", "0_LEAFS_1_NODES"} =>
            DOMAIN u.leafs = {} /\ DOMAIN u.nodes = {}
      /\ t.state \in {"M_LEAFS_0_NODES", "0_LEAFS_M_NODES", "N_LEAFS_N_NODES"} =>
            DOMAIN u.leafs # {} \/ DOMAIN u.nodes # {}
  <2>1. c \in DOMAIN owners(t, c)
    OBVIOUS
  <2> HIDE DEF t
  <2> QED BY <1>2, <1>3, <2>1, OnlyOwner
<1> HIDE DEF u
<1>6. Replaced(a, n, id, u)
  BY <1>2, <1>4, Replacement
<1> HIDE DEF n
<1>7. Fits(n, {}, {}, {id})
  BY <1>4, <1>6, OwnersFit
<1>8. IsNode(n) /\ DOMAIN n.terminals.elem = DOMAIN a.terminals.elem /\ n.terminals.elem[id] = u
  BY <1>6 DEF Replaced
<1>9. SameLinks(n, left)
  BY <1>8, OwnerRemovedSame
<1> HIDE DEF left
<1>10. Fits(left, {}, {}, {id})
  BY <1>7, <1>9, SameFits
<1>11. /\ id \in DOMAIN left.terminals.elem /\ DOMAIN left.terminals.elem = DOMAIN a.terminals.elem
       /\ left.terminals.elem[id].hidden = FALSE
       /\ DOMAIN left.terminals.elem[id].leafs = DOMAIN u.leafs
       /\ DOMAIN left.terminals.elem[id].nodes = DOMAIN u.nodes
  BY <1>3, <1>4, <1>8, <1>9 DEF SameLinks, SameTerminal
<1>12. ASSUME NEW q, Fits(q.node, {}, {}, {id}), HiddenIfDeserted(q.node, id), StopsSettled(q),
              DOMAIN q.node.terminals.elem = DOMAIN a.terminals.elem
       PROVE  /\ Settled(x3(q).node)
              /\ DOMAIN a.terminals.elem \ {id} \subseteq DOMAIN x3(q).node.terminals.elem
  <2>1. PICK y1 : y1 = x1(q)
    OBVIOUS
  <2>2. PICK y2 : y2 = x2(q)
    OBVIOUS
  <2>3. PICK y3 : y3 = x3(q)
    OBVIOUS
  <2>4. y1 = After(q, updated(q.node))
    BY <2>1 DEF Then, After
  <2>5. y2 = Then(y1, lastOwner)
    BY <2>1, <2>2
  <2>6. y3 = Then(y2, release)
    BY <2>2, <2>3
  <2>7. y2 = After(y1, lastOwner(y1.node))
    BY <2>5 DEF Then, After
  <2>8. y3 = After(y2, release(y2.node))
    BY <2>6, Zenon DEF Then, After
  <2>9. updated(q.node).node = update_state(q.node, id)
    BY OkOutcome
  <2>10. IF Used(y1.node.terminals, id) THEN lastOwner(y1.node) = TellLastOwner(y1.node, id)
         ELSE lastOwner(y1.node).node = y1.node
    BY OkOutcome
  <2>11. release(y2.node).node = y2.node
    <3>1. PICK out, ok : release(y2.node) = Outcome(y2.node, out, ok)
      BY Zenon DEF ReleaseBindings
    <3> HIDE DEF release
    <3> QED BY <3>1, OutcomeParts
  <2>12. id \in DOMAIN q.node.terminals.elem
    BY <1>12
  <2> HIDE DEF updated, lastOwner, release, x1, x2, x3
  <2> DEFINE s1 == updated(q.node)
             s2 == lastOwner(y1.node)
             s3 == release(y2.node)
  <2>13. Finish(q, id, s1, s2, s3, y1, y2, y3)
    BY <2>4, <2>7, <2>8, <2>9, <2>10, <2>11 DEF Finish
  <2> HIDE DEF s1, s2, s3
  <2>14. /\ Settled(y3.node)
         /\ DOMAIN q.node.terminals.elem \ {id} \subseteq DOMAIN y3.node.terminals.elem
    BY <1>12, <2>12, <2>13, FinishFits
  <2> QED BY <1>12, <2>3, <2>14
<1> HIDE DEF x3, x
<1>13. CASE t.state \in {"1_LEAFS_0_NODES", "0_LEAFS_1_NODES"}
  <2>1. /\ Settled(gone) /\ DOMAIN gone.terminals.elem = DOMAIN left.terminals.elem
        /\ DOMAIN gone.terminals.elem[id].leafs = {} /\ DOMAIN gone.terminals.elem[id].nodes = {}
        /\ gone.terminals.elem[id].hidden
    BY <1>5, <1>10, <1>11, <1>13, HideFits
  <2> HIDE DEF gone
  <2>2. SameLinks(gone, q1.node)
    <3>1. IsNode(gone) /\ id \in DOMAIN gone.terminals.elem
      BY <1>11, <2>1 DEF Settled, Fits
    <3> QED BY <3>1, UsersToldSame
  <2> HIDE DEF q1
  <2>3. Settled(q1.node)
    BY <2>1, <2>2, SameFits DEF Settled
  <2>4. DOMAIN q1.node.terminals.elem = DOMAIN a.terminals.elem
    BY <1>11, <2>1, <2>2 DEF SameLinks
  <2>5. OwnedWell(q1.node.terminals.elem[id])
    BY <2>3, <2>4 DEF Settled, Fits
  <2>6. HiddenIfDeserted(q1.node, id)
    BY <2>5 DEF OwnedWell, HiddenIfDeserted
  <2>7. Fits(q1.node, {}, {}, {id})
    BY <2>3, FitsWeaker
  <2>8. /\ Settled(x3(q1).node)
        /\ DOMAIN a.terminals.elem \ {id} \subseteq DOMAIN x3(q1).node.terminals.elem
    BY <1>12, <2>3, <2>4, <2>6, <2>7 DEF StopsSettled
  <2>9. x = x3(q1)
    BY <1>1, <1>13
  <2> QED BY <2>8, <2>9 DEF x
<1>14. CASE t.state \in {"M_LEAFS_0_NODES", "0_LEAFS_M_NODES", "N_LEAFS_N_NODES"}
  <2>1. q2.node = left /\ StopsSettled(q2)
    BY DEF Outcome, StopsSettled
  <2> HIDE DEF q2
  <2>2. HiddenIfDeserted(left, id)
    BY <1>5, <1>11, <1>14 DEF HiddenIfDeserted
  <2>3. /\ Settled(x3(q2).node)
        /\ DOMAIN a.terminals.elem \ {id} \subseteq DOMAIN x3(q2).node.terminals.elem
    BY <1>10, <1>11, <1>12, <2>1, <2>2
  <2>4. x = x3(q2)
    BY <1>1, <1>14
  <2> QED BY <2>3, <2>4 DEF x
<1>15. CASE ~(t.state \in {"1_LEAFS_0_NODES", "0_LEAFS_1_NODES"})
            /\ ~(t.state \in {"M_LEAFS_0_NODES", "0_LEAFS_M_NODES", "N_LEAFS_N_NODES"})
  <2>1. x = Failure(a)
    BY <1>1, <1>15
  <2>2. Failure(a).node = a
    BY FailureNode, OkOutcome
  <2> QED BY <2>1, <2>2 DEF x
<1> QED BY <1>13, <1>14, <1>15

\* remove_terminal_owner
LEMMA RemoveOwnerFits ==
    ASSUME NEW a, Settled(a), NEW id \in DOMAIN a.terminals.elem, NEW c \in Peers,
           NEW broken \in BOOLEAN
    PROVE  /\ Settled(remove_terminal_owner(a, id, c, broken).node)
           /\ DOMAIN a.terminals.elem \ {id}
                 \subseteq DOMAIN remove_terminal_owner(a, id, c, broken).node.terminals.elem
<1> DEFINE t == a.terminals.elem[id]
           f == owners(t, c)
           r == process_rcvd_removed(f[c])
           g == With(f, c, r.fsm)
           u == SetOwners(t, c, g)
           n == [a EXCEPT !.terminals = Put(@, id, u)]
           step == Outcome(n, SendTo(c, Messages("Binding", id, t, r.out)), r.ok)
           erase(k) == EraseOwner(k, id, c)
           y == Then(step, erase)
           x == remove_terminal_owner(a, id, c, broken)
           D == DOMAIN a.terminals.elem \ {id}
<1>1. x = CASE broken /\ c \notin DOMAIN f  -> Outcome(a, Nothing, TRUE)
            [] broken /\ c \in DOMAIN f     -> EraseOwner(a, id, c)
            [] ~broken /\ c \notin DOMAIN f -> Failure(a)
            [] ~broken /\ c \in DOMAIN f /\ r.changes = <<>> -> step
            [] OTHER                        -> y
  BY Zenon DEF remove_terminal_owner
<1>2. IsNode(a) /\ IsTerminal(t)
  BY DEF Settled, Fits, IsNode
<1>3. Outcome(a, Nothing, TRUE).node = a /\ Failure(a).node = a
  BY FailureNode, OkOutcome
<1>4. ASSUME c \in DOMAIN f
      PROVE  /\ Settled(n) /\ DOMAIN n.terminals.elem = DOMAIN a.terminals.elem
             /\ c \in DOMAIN owners(n.terminals.elem[id], c)
  <2>1. DOMAIN g = DOMAIN f
    BY <1>4 DEF With
  <2> HIDE DEF g
  <2>2. DOMAIN g \subseteq DOMAIN owners(t, c) \cup {c}
    BY <2>1
  <2>3. /\ IsTerminal(u) /\ u.identifier = t.identifier /\ u.hidden = t.hidden
        /\ u.binding = t.binding /\ u.state = t.state
        /\ u.leafs = (IF c \in Nodes THEN t.leafs ELSE g)
        /\ u.nodes = (IF c \in Nodes THEN g ELSE t.nodes)
    <3> HIDE DEF t
    <3> QED BY <1>2, <2>2, SetOwnersFields
  <2> HIDE DEF u
  <2>4. SameTerminal(t, u) /\ c \in DOMAIN owners(u, c)
    BY <1>4, <2>1, <2>3 DEF SameTerminal, owners
  <2>5. SameLinks(a, n)
    BY <1>2, <2>4, PutSameNode
  <2>6. Replaced(a, n, id, u)
    BY <1>2, <2>3, Replacement
  <2> HIDE DEF n
  <2>7. Settled(n)
    BY <2>5, SameFits DEF Settled
  <2> QED BY <2>4, <2>6, <2>7 DEF Replaced
<1> HIDE DEF n
<1>5. step.node = n
  BY OutcomeParts
<1>6. ASSUME c \in DOMAIN f
      PROVE  Settled(y.node) /\ D \subseteq DOMAIN y.node.terminals.elem
  <2>1. y = After(step, EraseOwner(step.node, id, c))
    BY DEF Then, After
  <2> HIDE DEF y, step
  <2> DEFINE s == EraseOwner(n, id, c)
  <2>2. Settled(s.node) /\ D \subseteq DOMAIN s.node.terminals.elem
    <3>1. /\ Settled(n) /\ DOMAIN n.terminals.elem = DOMAIN a.terminals.elem
          /\ c \in DOMAIN owners(n.terminals.elem[id], c) /\ id \in DOMAIN n.terminals.elem
      BY <1>4, <1>6
    <3>2. /\ Settled(EraseOwner(n, id, c).node)
          /\ DOMAIN n.terminals.elem \ {id} \subseteq DOMAIN EraseOwner(n, id, c).node.terminals.elem
      BY <3>1, EraseOwnerFits
    <3> QED BY <3>1, <3>2
  <2>3. y = After(step, s)
    BY <1>5, <2>1
  <2> HIDE DEF s
  <2>4. y.node = n \/ y.node = s.node
    BY <1>5, <2>3, AfterParts
  <2> QED BY <1>4, <1>6, <2>2, <2>4
<1>7. ASSUME c \in DOMAIN f
      PROVE  /\ Settled(EraseOwner(a, id, c).node)
             /\ D \subseteq DOMAIN EraseOwner(a, id, c).node.terminals.elem
  BY <1>7, EraseOwnerFits
<1>8. \/ x = Outcome(a, Nothing, TRUE) \/ x = Failure(a)
      \/ c \in DOMAIN f /\ x = EraseOwner(a, id, c)
      \/ c \in DOMAIN f /\ x = step
      \/ c \in DOMAIN f /\ x = y
  <2> HIDE DEF x, y, step, r, f
  <2> QED BY <1>1
<1> HIDE DEF x, y, step, f
<1>9. Settled(x.node) /\ D \subseteq DOMAIN x.node.terminals.elem
  <2>1. CASE x = Outcome(a, Nothing, TRUE) \/ x = Failure(a)
    <3>1. x.node = a
      BY <1>3, <2>1
    <3> QED BY <3>1
  <2>2. CASE c \in DOMAIN f /\ x = EraseOwner(a, id, c)
    BY <1>7, <2>2
  <2>3. CASE c \in DOMAIN f /\ x = step
    BY <1>4, <1>5, <2>3
  <2>4. CASE c \in DOMAIN f /\ x = y
    BY <1>6, <2>4
  <2> QED BY <1>8, <2>1, <2>2, <2>3, <2>4
<1> QED BY <1>9 DEF x

\* What a connection that is gone leaves of a terminal.
LEMMA DropPeerFits ==
    ASSUME NEW a, Settled(a), NEW id \in DOMAIN a.terminals.elem, NEW c \in Peers
    PROVE  /\ Settled(DropTerminalPeer(a, id, c).node)
           /\ DOMAIN a.terminals.elem \ {id}
                 \subseteq DOMAIN DropTerminalPeer(a, id, c).node.terminals.elem
<1> DEFINE t    == a.terminals.elem[id]
           u    == [t EXCEPT !.users = Without(@, c)]
           left == [a EXCEPT !.terminals.elem[id].users = Without(@, c)]
           q    == on_terminal_user_removed(left, id, c)
           k    == update_state(q.node, id)
           s    == IF Used(k.terminals, id) THEN remove_terminal_owner(k, id, c, TRUE)
                   ELSE Outcome(k, Nothing, TRUE)
           x    == DropTerminalPeer(a, id, c)
           D    == DOMAIN a.terminals.elem \ {id}
<1>1. x = After(q, s)
  BY Zenon DEF DropTerminalPeer, Then, After
<1>2. left = [a EXCEPT !.terminals.elem[id] = u]
  OBVIOUS
<1>3. IsNode(a)
  BY DEF Settled, Fits
<1>4. SameLinks(a, left)
  <2>1. IsTerminal(t)
    BY <1>3 DEF IsNode
  <2>2. SameTerminal(t, u)
    <3> DEFINE f == Without(t.users, c)
    <3> HIDE DEF t
    <3>1. DOMAIN t.users \subseteq Nodes
      BY <2>1 DEF IsTerminal
    <3>2. DOMAIN f \subseteq Nodes
      BY <3>1 DEF Without
    <3>3. u = [t EXCEPT !.users = f]
      OBVIOUS
    <3> HIDE DEF f, u
    <3> QED BY <2>1, <3>2, <3>3, UsersSame
  <2> HIDE DEF u
  <2>3. SameLinks(a, [a EXCEPT !.terminals.elem[id] = u])
    BY <1>3, <2>2, PutSameNode
  <2> HIDE DEF left
  <2> QED BY <1>2, <2>3
<1> HIDE DEF left
<1>5. SameLinks(left, q.node)
  BY <1>4, UserRemovedSame DEF SameLinks
<1> HIDE DEF q
<1>6. SameLinks(a, q.node)
  BY <1>4, <1>5, SameTransitive
<1>7. Settled(q.node) /\ DOMAIN q.node.terminals.elem = DOMAIN a.terminals.elem
  BY <1>6, SameFits DEF Settled, SameLinks
<1>8. Settled(k) /\ D \subseteq DOMAIN k.terminals.elem
  <2>1. Fits(q.node, {}, {}, {id}) /\ id \in DOMAIN q.node.terminals.elem
    BY <1>7, FitsWeaker
  <2>2. OwnedWell(q.node.terminals.elem[id])
    BY <1>7 DEF Settled, Fits
  <2>3. q.node.terminals.elem[id].hidden <=> /\ DOMAIN q.node.terminals.elem[id].leafs = {}
                                             /\ DOMAIN q.node.terminals.elem[id].nodes = {}
    BY <2>2 DEF OwnedWell
  <2> QED BY <1>7, <2>1, <2>3, UpdateFits
<1> HIDE DEF k
<1>12. Outcome(k, Nothing, TRUE).node = k
  BY OkOutcome
<1>9. Settled(s.node) /\ D \subseteq DOMAIN s.node.terminals.elem
  <2>1. CASE Used(k.terminals, id)
    <3>1. s = remove_terminal_owner(k, id, c, TRUE)
      BY <2>1
    <3>2. id \in DOMAIN k.terminals.elem /\ TRUE \in BOOLEAN
      BY <2>1 DEF Used
    <3>3. /\ Settled(remove_terminal_owner(k, id, c, TRUE).node)
          /\ DOMAIN k.terminals.elem \ {id}
                \subseteq DOMAIN remove_terminal_owner(k, id, c, TRUE).node.terminals.elem
      BY <1>8, <3>2, RemoveOwnerFits
    <3> QED BY <1>8, <3>1, <3>3
  <2>2. CASE ~Used(k.terminals, id)
    <3>1. s = Outcome(k, Nothing, TRUE)
      BY <2>2
    <3> HIDE DEF s
    <3>2. s.node = k
      BY <1>12, <3>1
    <3> QED BY <1>8, <3>2
  <2> QED BY <2>1, <2>2
<1> HIDE DEF s, x
<1>10. x.node = q.node \/ x.node = s.node
  BY <1>1, AfterParts
<1>11. Settled(x.node) /\ D \subseteq DOMAIN x.node.terminals.elem
  BY <1>7, <1>9, <1>10
<1> QED BY <1>11 DEF x

----------------------------------------------------------------------------
(* A connection is destroyed.                                              *)

\* A binding has other owners.
LEMMA BindingPutSame ==
    ASSUME NEW a, IsNode(a), NEW b \in DOMAIN a.bindings.elem,
           NEW e, IsBinding(e), SameBinding(a.bindings.elem[b], e)
    PROVE  /\ SameLinks(a, [a EXCEPT !.bindings = Put(@, b, e)])
           /\ SameLinks(a, [a EXCEPT !.bindings.elem[b] = e])
<1> DEFINE r == Put(a.bindings, b, e)
           n == [terminals |-> a.terminals, bindings |-> r, conns |-> a.conns,
                 known |-> a.known, ops |-> a.ops]
<1>1. a = [terminals |-> a.terminals, bindings |-> a.bindings, conns |-> a.conns,
           known |-> a.known, ops |-> a.ops]
  BY DEF IsNode
<1>2. r = [a.bindings EXCEPT !.elem[b] = e]
  BY DEF Put
<1>3. [a EXCEPT !.bindings = Put(@, b, e)] = n /\ [a EXCEPT !.bindings.elem[b] = e] = n
  <2>1. [a EXCEPT !.bindings = Put(@, b, e)] = [a EXCEPT !.bindings = r]
    OBVIOUS
  <2>2. [a EXCEPT !.bindings.elem[b] = e] = [a EXCEPT !.bindings = r]
    BY <1>2
  <2> HIDE DEF r
  <2>3. [a EXCEPT !.bindings = r] = n
    BY <1>1
  <2> HIDE DEF n
  <2> QED BY <2>1, <2>2, <2>3, Zenon
<1>4. Orderly(a.bindings)
  BY DEF IsNode
<1>5. /\ Orderly(r) /\ DOMAIN r.elem = DOMAIN a.bindings.elem /\ r.elem[b] = e
      /\ \A i \in DOMAIN a.bindings.elem : i # b => r.elem[i] = a.bindings.elem[i]
  BY <1>4, PutOrderly
<1> HIDE DEF r
<1>6. /\ n.terminals = a.terminals /\ n.bindings = r
      /\ n = [terminals |-> n.terminals, bindings |-> n.bindings, conns |-> n.conns,
              known |-> n.known, ops |-> n.ops]
  OBVIOUS
<1> HIDE DEF n
<1>7. \A i \in DOMAIN r.elem : IsBinding(r.elem[i])
  BY <1>5 DEF IsNode
<1>8. IsNode(n)
  BY <1>5, <1>6, <1>7 DEF IsNode
<1>9. \A i \in DOMAIN a.bindings.elem : SameBinding(a.bindings.elem[i], r.elem[i])
  BY <1>5 DEF SameBinding
<1>10. \A i \in DOMAIN a.terminals.elem : SameTerminal(a.terminals.elem[i], a.terminals.elem[i])
  BY DEF SameTerminal, IsNode
<1>11. SameLinks(a, n)
  BY <1>5, <1>6, <1>8, <1>9, <1>10 DEF SameLinks
<1> QED BY <1>3, <1>11

\* The owners of a binding change.
LEMMA BindingLeafsSame ==
    ASSUME NEW e, IsBinding(e), NEW f
    PROVE  IsBinding([e EXCEPT !.leafs = f]) /\ SameBinding(e, [e EXCEPT !.leafs = f])
BY DEF IsBinding, SameBinding

\* The set of connections has nothing to do with the registers.
LEMMA ConnsSame ==
    ASSUME NEW a, IsNode(a), NEW k
    PROVE  SameLinks(a, [a EXCEPT !.conns = k])
<1> DEFINE n == [terminals |-> a.terminals, bindings |-> a.bindings, conns |-> k,
                 known |-> a.known, ops |-> a.ops]
<1>1. a = [terminals |-> a.terminals, bindings |-> a.bindings, conns |-> a.conns,
           known |-> a.known, ops |-> a.ops]
  BY DEF IsNode
<1>2. [a EXCEPT !.conns = k] = n
  BY <1>1
<1>3. /\ n.terminals = a.terminals /\ n.bindings = a.bindings
      /\ n = [terminals |-> n.terminals, bindings |-> n.bindings, conns |-> n.conns,
              known |-> n.known, ops |-> n.ops]
  OBVIOUS
<1> HIDE DEF n
<1>4. IsNode(n)
  BY <1>3 DEF IsNode
<1>5. SameLinks(a, n)
  BY <1>3, <1>4 DEF SameLinks, SameTerminal, SameBinding, IsNode
<1> QED BY <1>2, <1>5

\* The terminal of a binding is there.
LEMMA BindingsTerminal ==
    ASSUME NEW a, Settled(a), NEW b \in DOMAIN a.bindings.elem,
           a.bindings.elem[b].terminal # NoId
    PROVE  a.bindings.elem[b].terminal \in DOMAIN a.terminals.elem
<1>1. BindingsLinked(a.terminals.elem, a.bindings.elem)
  BY DEF Settled, Fits, LinksFit
<1> QED BY <1>1 DEF BindingsLinked

\* A binding loses an owner, and its entry with the last one.
LEMMA DropBindingFits ==
    ASSUME NEW a, Settled(a), NEW b \in DOMAIN a.bindings.elem, NEW c
    PROVE  /\ Settled(DropBindingOwner(a, b, c).node)
           /\ DOMAIN DropBindingOwner(a, b, c).node.terminals.elem = DOMAIN a.terminals.elem
           /\ DOMAIN a.bindings.elem \ {b}
                 \subseteq DOMAIN DropBindingOwner(a, b, c).node.bindings.elem
<1> DEFINE e    == a.bindings.elem[b]
           f    == Without(e.leafs, c)
           d    == [e EXCEPT !.leafs = f]
           left == [a EXCEPT !.bindings.elem[b].leafs = Without(@, c)]
           q    == IF c \notin DOMAIN a.bindings.elem[b].leafs THEN Outcome(left, Nothing, TRUE)
                   ELSE on_binding_owner_removed(left, b, c)
           k    == IF DOMAIN q.node.bindings.elem[b].leafs # {} THEN q.node
                   ELSE [disassociate_binding(q.node, b) EXCEPT !.bindings = Erase(@, b)]
           s    == Outcome(k, Nothing, TRUE)
           x    == DropBindingOwner(a, b, c)
           T    == DOMAIN a.terminals.elem
           D    == DOMAIN a.bindings.elem \ {b}
<1>1. x = After(q, s)
  BY Zenon DEF DropBindingOwner, Then, After
<1>2. left = [a EXCEPT !.bindings.elem[b] = d]
  OBVIOUS
<1>3. IsNode(a) /\ IsBinding(e)
  BY DEF Settled, Fits, IsNode
<1>4. SameLinks(a, left)
  <2>1. IsBinding(d) /\ SameBinding(e, d)
    <3> HIDE DEF e, f
    <3> QED BY <1>3, BindingLeafsSame
  <2> HIDE DEF d
  <2>2. SameLinks(a, [a EXCEPT !.bindings.elem[b] = d])
    BY <1>3, <2>1, BindingPutSame
  <2> HIDE DEF left
  <2> QED BY <1>2, <2>2
<1> HIDE DEF left
<1>5. Settled(left) /\ IsNode(left) /\ b \in DOMAIN left.bindings.elem
  BY <1>4, SameFits DEF Settled, SameLinks
<1>6. SameLinks(left, on_binding_owner_removed(left, b, c).node)
  BY <1>5, BindingsTerminal, BindingOwnerRemovedSame
<1>7. Outcome(left, Nothing, TRUE).node = left
  BY OkOutcome
<1>8. q = Outcome(left, Nothing, TRUE) \/ q = on_binding_owner_removed(left, b, c)
  BY Zenon
<1> HIDE DEF q
<1>9. SameLinks(left, q.node)
  BY <1>5, <1>6, <1>7, <1>8, SameReflexive
<1>10. SameLinks(a, q.node)
  BY <1>4, <1>9, SameTransitive
<1>11. /\ Settled(q.node) /\ DOMAIN q.node.terminals.elem = T
       /\ DOMAIN q.node.bindings.elem = DOMAIN a.bindings.elem
  BY <1>10, SameFits DEF Settled, SameLinks
<1>12. Settled(k) /\ DOMAIN k.terminals.elem = T /\ D \subseteq DOMAIN k.bindings.elem
  <2> DEFINE m == [disassociate_binding(q.node, b) EXCEPT !.bindings = Erase(@, b)]
  <2>1. k = q.node \/ k = m
    BY Zenon
  <2>5. m = [disassociate_binding(q.node, b) EXCEPT !.bindings = Erase(@, b)]
    OBVIOUS
  <2>6. b \in DOMAIN q.node.bindings.elem
    BY <1>11
  <2> HIDE DEF k, m, e, f, d, s, x, T, D
  <2>7. Settled(q.node)
    BY <1>11
  <2>2. /\ Settled(m) /\ DOMAIN m.terminals.elem = DOMAIN q.node.terminals.elem
        /\ DOMAIN m.bindings.elem = DOMAIN q.node.bindings.elem \ {b}
    BY <2>5, <2>6, <2>7, EraseBindingFits, Zenon
  <2>3. CASE k = q.node
    BY <1>11, <2>3 DEF D
  <2>4. CASE k = m
    BY <1>11, <2>2, <2>4 DEF D
  <2> QED BY <2>1, <2>3, <2>4
<1> HIDE DEF k
<1>13. s.node = k
  BY OkOutcome
<1> HIDE DEF s, x
<1>14. x.node = q.node \/ x.node = s.node
  BY <1>1, AfterParts
<1>15. Settled(x.node) /\ DOMAIN x.node.terminals.elem = T /\ D \subseteq DOMAIN x.node.bindings.elem
  BY <1>11, <1>12, <1>13, <1>14
<1> QED BY <1>15 DEF x

\* An interval from 1 has as many elements as its last one says.
LEMMA IntervalCount ==
    ASSUME NEW n \in Nat
    PROVE  IsFiniteSet(1..n) /\ Cardinality(1..n) = n
<1>1. 1 \in Int /\ n \in Int
  OBVIOUS
<1>2. IsFiniteSet(1..n) /\ Cardinality(1..n) = IF 1 > n THEN 0 ELSE n - 1 + 1
  BY <1>1, FS_Interval
<1> QED BY <1>2

\* The ids of a finite set in ascending order are all of them, each once.
LEMMA AscendingBijection ==
    ASSUME NEW S \in SUBSET Nat, IsFiniteSet(S)
    PROVE  /\ Ascending(S) \in [1..Cardinality(S) -> S]
           /\ \A i, j \in 1..Cardinality(S) : Ascending(S)[i] = Ascending(S)[j] => i = j
           /\ \A id \in S : \E i \in 1..Cardinality(S) : Ascending(S)[i] = id
<1> DEFINE n == Cardinality(S)
           rank == [id \in S |-> Cardinality({j \in S : j <= id})]
<1>1. n \in Nat /\ IsFiniteSet(1..n) /\ Cardinality(1..n) = n
  BY FS_CardinalityType, IntervalCount
<1>2. \A id \in S : IsFiniteSet({j \in S : j <= id}) /\ rank[id] \in 1..n
  <2> SUFFICES ASSUME NEW id \in S
               PROVE  IsFiniteSet({j \in S : j <= id}) /\ rank[id] \in 1..n
    BY Zenon
  <2> DEFINE T == {j \in S : j <= id}
  <2>1. T \in SUBSET S /\ id \in T
    OBVIOUS
  <2>2. rank[id] = Cardinality(T)
    OBVIOUS
  <2> HIDE DEF T, rank
  <2>3. IsFiniteSet(T) /\ Cardinality(T) <= n
    BY <2>1, FS_Subset
  <2>4. Cardinality(T) \in Nat /\ Cardinality(T) # 0
    BY <2>1, <2>3, FS_CardinalityType, FS_EmptySet
  <2>5. rank[id] \in 1..n
    BY <1>1, <2>2, <2>3, <2>4
  <2> QED BY <2>3, <2>5 DEF T
<1>3. \A a, b \in S : a < b => rank[a] # rank[b]
  <2> SUFFICES ASSUME NEW a \in S, NEW b \in S, a < b, rank[a] = rank[b]
               PROVE  FALSE
    BY Zenon
  <2> DEFINE A == {j \in S : j <= a}
             B == {j \in S : j <= b}
  <2>1. IsFiniteSet(B) /\ Cardinality(A) = Cardinality(B)
    BY <1>2
  <2> HIDE DEF rank
  <2>2. A \in SUBSET B /\ b \in B /\ b \notin A
    <3>1. a \in Nat /\ b \in Nat /\ \A j \in S : j \in Nat
      OBVIOUS
    <3>2. (\A j \in S : j <= a => j <= b) /\ b <= b /\ ~(b <= a)
      BY <3>1, a < b
    <3> QED BY <3>2, Zenon
  <2> HIDE DEF A, B
  <2> QED BY <2>1, <2>2, FS_Subset
<1>4. rank \in [S -> 1..n] /\ \A a, b \in S : rank[a] = rank[b] => a = b
  <2>1. rank = [id \in S |-> rank[id]]
    OBVIOUS
  <2> HIDE DEF rank, n
  <2>2. rank \in [S -> 1..n]
    BY <1>2, <2>1
  <2> QED BY <1>3, <2>2
<1>5. \A i \in 1..n : \E id \in S : rank[id] = i
  <2> SUFFICES ASSUME NEW i \in 1..n, \A id \in S : rank[id] # i
               PROVE  FALSE
    BY Zenon
  <2> DEFINE T == (1..n) \ {i}
  <2> HIDE DEF rank
  <2>1. IsFiniteSet(T) /\ Cardinality(T) = n - 1
    <3> HIDE DEF n
    <3>1. /\ IsFiniteSet((1..n) \ {i})
          /\ Cardinality((1..n) \ {i}) =
                IF i \in 1..n THEN Cardinality(1..n) - 1 ELSE Cardinality(1..n)
      BY <1>1, FS_RemoveElement
    <3> QED BY <1>1, <3>1
  <2>2. Cardinality(T) < Cardinality(S)
    <3>1. n \in Nat /\ Cardinality(T) = n - 1
      BY <1>1, <2>1
    <3> HIDE DEF T
    <3> QED BY <3>1
  <2>3. rank \in [S -> T]
    BY <1>4
  <2> HIDE DEF T
  <2>4. \E x, y \in S : x # y /\ rank[x] = rank[y]
    BY <2>1, <2>2, <2>3, FS_PigeonHole
  <2> QED BY <1>4, <2>4
<1>7. Ascending(S) = [i \in 1..n |-> CHOOSE id \in S : Cardinality({j \in S : j <= id}) = i]
  BY Zenon DEF Ascending
<1>8. \A i \in 1..n : Ascending(S)[i] \in S /\ rank[Ascending(S)[i]] = i
  <2> SUFFICES ASSUME NEW i \in 1..n
               PROVE  Ascending(S)[i] \in S /\ rank[Ascending(S)[i]] = i
    BY Zenon
  <2>1. \E id \in S : Cardinality({j \in S : j <= id}) = i
    BY <1>5
  <2> QED BY <1>7, <2>1
<1>9. Ascending(S) \in [1..n -> S]
  <2>1. Ascending(S) = [i \in 1..n |-> Ascending(S)[i]]
    BY <1>7
  <2> HIDE DEF rank, n
  <2> QED BY <1>8, <2>1
<1> HIDE DEF rank
<1>10. \A id \in S : Ascending(S)[rank[id]] = id
  BY <1>4, <1>8
<1> QED BY <1>2, <1>8, <1>9, <1>10

\* The loops over the registers: what there is after k rounds over ids.
Pending(loop, nd, ids, k) ==
    /\ Settled(nd)
    /\ \A i \in (k + 1)..Len(ids) :
          ids[i] \in DOMAIN (IF loop = "binding" THEN nd.bindings ELSE nd.terminals).elem

\* One round.
LEMMA RoundFits ==
    ASSUME NEW loop \in {"binding", "terminal"}, NEW ids, Len(ids) \in Nat,
           \A i, j \in 1..Len(ids) : ids[i] = ids[j] => i = j,
           NEW k \in Nat, k + 1 <= Len(ids), NEW r, Pending(loop, r.node, ids, k),
           NEW x, NEW c \in Peers
    PROVE  Pending(loop, Round(loop, r, ids[k + 1], x, c).node, ids, k + 1)
<1> DEFINE id == ids[k + 1]
           s  == IF loop = "binding" THEN DropBindingOwner(r.node, id, c)
                 ELSE DropTerminalPeer(r.node, id, c)
           y  == Round(loop, r, id, x, c)
           reg(nd) == (IF loop = "binding" THEN nd.bindings ELSE nd.terminals).elem
<1>1. y = After(r, s)
  <2>1. CASE loop = "binding"
    <3>1. y = Then(r, LAMBDA n : DropBindingOwner(n, id, c))
      BY <2>1 DEF Round
    <3> QED BY <2>1, <3>1 DEF Then, After
  <2>2. CASE loop = "terminal"
    <3>1. y = Then(r, LAMBDA n : DropTerminalPeer(n, id, c))
      BY <2>2 DEF Round
    <3> QED BY <2>2, <3>1 DEF Then, After
  <2> QED BY <2>1, <2>2
<1>2. Settled(r.node) /\ \A i \in (k + 1)..Len(ids) : ids[i] \in DOMAIN reg(r.node)
  BY DEF Pending
<1>3. id \in DOMAIN reg(r.node)
  BY <1>2
<1>4. Settled(s.node) /\ DOMAIN reg(r.node) \ {id} \subseteq DOMAIN reg(s.node)
  <2>1. CASE loop = "binding"
    <3>1. s = DropBindingOwner(r.node, id, c) /\ id \in DOMAIN r.node.bindings.elem
      BY <1>3, <2>1
    <3> HIDE DEF s, id
    <3>2. Settled(s.node) /\ DOMAIN r.node.bindings.elem \ {id} \subseteq DOMAIN s.node.bindings.elem
      BY <1>2, <3>1, DropBindingFits
    <3> QED BY <2>1, <3>2
  <2>2. CASE loop = "terminal"
    <3>1. s = DropTerminalPeer(r.node, id, c) /\ id \in DOMAIN r.node.terminals.elem
      BY <1>3, <2>2
    <3> HIDE DEF s, id
    <3>2. Settled(s.node) /\ DOMAIN r.node.terminals.elem \ {id} \subseteq DOMAIN s.node.terminals.elem
      BY <1>2, <3>1, DropPeerFits
    <3> QED BY <2>2, <3>2
  <2> QED BY <2>1, <2>2
<1> HIDE DEF s, y
<1>5. y.node = r.node \/ y.node = s.node
  BY <1>1, AfterParts
<1>6. Settled(y.node) /\ DOMAIN reg(r.node) \ {id} \subseteq DOMAIN reg(y.node)
  <2> HIDE DEF id
  <2> QED BY <1>2, <1>4, <1>5
<1>7. ASSUME NEW i \in (k + 1 + 1)..Len(ids)
      PROVE  ids[i] \in DOMAIN reg(y.node)
  <2>1. i \in (k + 1)..Len(ids) /\ i \in 1..Len(ids) /\ k + 1 \in 1..Len(ids) /\ i # k + 1
    OBVIOUS
  <2>2. ids[i] \in DOMAIN reg(r.node) /\ ids[i] # id
    BY <1>2, <2>1
  <2> HIDE DEF reg, id
  <2> QED BY <1>6, <2>2
<1>8. Pending(loop, y.node, ids, k + 1)
  BY <1>6, <1>7 DEF Pending
<1> QED BY <1>8 DEF y

\* All of them.
LEMMA LoopFits ==
    ASSUME NEW loop \in {"binding", "terminal"}, NEW ids, Len(ids) \in Nat,
           \A i, j \in 1..Len(ids) : ids[i] = ids[j] => i = j,
           NEW start, Pending(loop, start.node, ids, 0), NEW x, NEW c \in Peers,
           NEW g, Rounds(g, Len(ids), loop, start, ids, x, c)
    PROVE  Settled(g[Len(ids)].node)
<1> DEFINE E == {k \in Nat : k <= Len(ids) => Pending(loop, g[k].node, ids, k)}
<1>1. g[0] = start /\ \A i \in 1..Len(ids) : g[i] = Round(loop, g[i - 1], ids[i], x, c)
  BY DEF Rounds
<1>2. 0 \in E
  BY <1>1
<1>3. ASSUME NEW k \in Nat, k \in E
      PROVE  k + 1 \in E
  <2> SUFFICES ASSUME k + 1 <= Len(ids)
               PROVE  Pending(loop, g[k + 1].node, ids, k + 1)
    OBVIOUS
  <2>1. k + 1 \in 1..Len(ids) /\ (k + 1) - 1 = k /\ Pending(loop, g[k].node, ids, k)
    BY <1>3
  <2>2. g[k + 1] = Round(loop, g[k], ids[k + 1], x, c)
    BY <1>1, <2>1
  <2>3. Pending(loop, Round(loop, g[k], ids[k + 1], x, c).node, ids, k + 1)
    BY <2>1, RoundFits
  <2> QED BY <2>2, <2>3
<1>4. \A k \in Nat : k \in E
  <2> HIDE DEF E
  <2> QED BY <1>2, <1>3, Induction
<1>5. Pending(loop, g[Len(ids)].node, ids, Len(ids))
  BY <1>4
<1> QED BY <1>5 DEF Pending

\* The ids over which a loop goes.
LEMMA IdsInSequence ==
    ASSUME NEW r, Orderly(r)
    PROVE  /\ Len(Ids(r)) \in Nat
           /\ \A i \in 1..Len(Ids(r)) : Ids(r)[i] \in DOMAIN r.elem
           /\ \A i, j \in 1..Len(Ids(r)) : Ids(r)[i] = Ids(r)[j] => i = j
<1> DEFINE S == DOMAIN r.elem
           n == Cardinality(S)
<1>1. S \in SUBSET Nat /\ IsFiniteSet(S)
  BY OrderlyDomain
<1> HIDE DEF S
<1>2. n \in Nat
  BY <1>1, FS_CardinalityType
<1>3. /\ Ascending(S) \in [1..n -> S]
      /\ \A i, j \in 1..n : Ascending(S)[i] = Ascending(S)[j] => i = j
  BY <1>1, AscendingBijection
<1> HIDE DEF n
<1>4. Len(Ascending(S)) = n
  BY <1>2, <1>3
<1> QED BY <1>2, <1>3, <1>4 DEF Ids, S

\* on_connection_destroyed
LEMMA DestroyedFits ==
    ASSUME NEW a, Settled(a), NEW c \in Peers
    PROVE  Settled(connection_destroyed(a, c).node)
<1> DEFINE gone  == [a EXCEPT !.conns = @ \ {c}]
           start == Outcome(gone, Nothing, TRUE)
           ids   == Ids(a.bindings)
           step(q, b) == IF q.ok THEN Followed(q, DropBindingOwner(q.node, b, c)) ELSE q
           Runs(g) == g = [i \in 0..Len(ids) |-> IF i = 0 THEN start ELSE step(g[i - 1], ids[i])]
           run   == CHOOSE g : Runs(g)
           q     == run[Len(ids)]
           n     == q.node
           next  == Outcome(n, Nothing, TRUE)
           jds   == Ids(n.terminals)
           step2(p, b) == IF p.ok THEN Followed(p, DropTerminalPeer(p.node, b, c)) ELSE p
           Runs2(g) == g = [i \in 0..Len(jds) |-> IF i = 0 THEN next ELSE step2(g[i - 1], jds[i])]
           run2  == CHOOSE g : Runs2(g)
           s     == run2[Len(jds)]
           x     == connection_destroyed(a, c)
<1>1. x = After(q, s)
  BY Zenon DEF connection_destroyed, ForAll, Then, After
<1>2. IsNode(a)
  BY DEF Settled, Fits
<1>3. Settled(gone) /\ DOMAIN gone.bindings.elem = DOMAIN a.bindings.elem
  <2>1. SameLinks(a, gone)
    BY <1>2, ConnsSame
  <2> HIDE DEF gone
  <2> QED BY <2>1, SameFits DEF Settled, SameLinks
<1> HIDE DEF gone
<1>4. start.node = gone
  BY OkOutcome
<1>5. /\ Len(ids) \in Nat /\ \A i \in 1..Len(ids) : ids[i] \in DOMAIN a.bindings.elem
      /\ \A i, j \in 1..Len(ids) : ids[i] = ids[j] => i = j
  BY <1>2, IdsInSequence DEF IsNode
<1> HIDE DEF ids, start
<1>6. Settled(n)
  <2>1. PICK g : Rounds(g, Len(ids), "binding", start, ids, c, c)
    BY <1>5, LoopRuns
  <2>2. Runs(g)
    BY <2>1 DEF Rounds, Round, Then
  <2>3. Runs(run)
    BY <2>2, Zenon
  <2>4. Rounds(run, Len(ids), "binding", start, ids, c, c)
    <3> HIDE DEF run
    <3> QED BY <2>3 DEF Rounds, Round, Then
  <2>5. Pending("binding", start.node, ids, 0)
    BY <1>3, <1>4, <1>5 DEF Pending
  <2> HIDE DEF run
  <2> QED BY <1>5, <2>4, <2>5, LoopFits
<1> HIDE DEF n
<1>7. next.node = n
  BY OkOutcome
<1>8. /\ Len(jds) \in Nat /\ \A i \in 1..Len(jds) : jds[i] \in DOMAIN n.terminals.elem
      /\ \A i, j \in 1..Len(jds) : jds[i] = jds[j] => i = j
  <2>1. Orderly(n.terminals)
    BY <1>6 DEF Settled, Fits, IsNode
  <2> QED BY <2>1, IdsInSequence
<1> HIDE DEF jds, next, run
<1>9. Settled(s.node)
  <2>1. PICK g : Rounds(g, Len(jds), "terminal", next, jds, c, c)
    BY <1>8, LoopRuns
  <2>2. Runs2(g)
    BY <2>1 DEF Rounds, Round, Then
  <2>3. Runs2(run2)
    BY <2>2, Zenon
  <2>4. Rounds(run2, Len(jds), "terminal", next, jds, c, c)
    <3> HIDE DEF run2
    <3> QED BY <2>3 DEF Rounds, Round, Then
  <2>5. Pending("terminal", next.node, jds, 0)
    BY <1>6, <1>7, <1>8 DEF Pending
  <2> HIDE DEF run2
  <2> QED BY <1>8, <2>4, <2>5, LoopFits
<1> HIDE DEF q, s, x
<1>10. x.node = q.node \/ x.node = s.node
  BY <1>1, AfterParts
<1>11. Settled(x.node)
  BY <1>6, <1>9, <1>10 DEF n
<1> QED BY <1>11 DEF x

----------------------------------------------------------------------------
(* Messages that leave the owners and the associations alone.              *)

\* TerminalMapping
LEMMA MappingSame ==
    ASSUME NEW a, IsNode(a), NEW c, NEW m
    PROVE  SameLinks(a, OnTerminalMapping(a, c, m).node)
<1> DEFINE t == a.terminals.elem[m.id]
           r == process_rcvd_mapping(MachineOf(t.users, c), m.own)
           w == [r EXCEPT !.ok = @ /\ t.state # "JUST_CREATED" /\ Len(r.out) < 2]
           s == UserStep(a, m.id, c, w)
           x == OnTerminalMapping(a, c, m)
<1>1. x = IF c \notin Nodes \/ ~Used(a.terminals, m.id) THEN Failure(a) ELSE s
  BY Zenon DEF OnTerminalMapping
<1> HIDE DEF w
<1>2. CASE c \notin Nodes \/ ~Used(a.terminals, m.id)
  <2>1. x = Failure(a)
    BY <1>1, <1>2
  <2>2. Failure(a).node = a
    BY FailureNode, OkOutcome
  <2> HIDE DEF x
  <2>3. x.node = a
    BY <2>1, <2>2
  <2>4. SameLinks(a, x.node)
    BY <2>3, SameReflexive
  <2> QED BY <2>4 DEF x
<1>3. CASE c \in Nodes /\ Used(a.terminals, m.id)
  <2>1. m.id \in DOMAIN a.terminals.elem
    BY <1>3 DEF Used
  <2>2. SameLinks(a, s.node)
    BY <1>3, <2>1, UserStepSame
  <2> HIDE DEF s, x
  <2>3. x = s
    BY <1>1, <1>3
  <2>4. SameLinks(a, x.node)
    BY <2>2, <2>3
  <2> QED BY <2>4 DEF x
<1> QED BY <1>2, <1>3

\* Subscribe
LEMMA SubscribeSame ==
    ASSUME NEW a, IsNode(a), NEW c, NEW m
    PROVE  SameLinks(a, OnSubscribe(a, c, m).node)
<1> DEFINE id == m.id
           t  == a.terminals.elem[id]
           f  == With(t.subscribers, c, t.users[c].mapped)
           u  == [t EXCEPT !.subscribers = f]
           n  == [a EXCEPT !.terminals.elem[id].subscribers = With(@, c, t.users[c].mapped)]
           x  == OnSubscribe(a, c, m)
<1>1. PICK out : \/ x = Failure(a) \/ x = Outcome(a, Nothing, TRUE)
                 \/ Used(a.terminals, id) /\ x = Outcome(n, out, TRUE)
  <2> DEFINE o == Joined(TellTerminals(t, NewlySubscribed(a, t, c), "Subscribe"),
                         CachedDataFor(t, c, t.users[c].mapped))
             p == Outcome(a, Nothing, TRUE)
             q == Outcome(n, o, TRUE)
  <2>1. x = IF \/ c \notin Nodes \/ ~Used(a.terminals, id)
               \/ c \in DOMAIN t.subscribers \/ c \notin DOMAIN t.users THEN Failure(a)
            ELSE IF ~is_mapped(t.users[c]) THEN p ELSE q
    BY Zenon DEF OnSubscribe
  <2>2. x = Failure(a) \/ x = p \/ (Used(a.terminals, id) /\ x = q)
    <3> HIDE DEF x, p, q, t, id
    <3> QED BY <2>1
  <2> HIDE DEF x, n, o
  <2> QED BY <2>2, Zenon
<1>2. ASSUME Used(a.terminals, id)
      PROVE  SameLinks(a, n)
  <2>1. id \in DOMAIN a.terminals.elem
    BY <1>2 DEF Used
  <2>2. IsTerminal(t)
    BY <2>1 DEF IsNode
  <2>3. SameTerminal(t, u)
    <3> HIDE DEF t, f
    <3> QED BY <2>2, SubscribersSame
  <2>4. n = [a EXCEPT !.terminals.elem[id] = u]
    OBVIOUS
  <2> HIDE DEF u, n, id
  <2>5. SameLinks(a, [a EXCEPT !.terminals.elem[id] = u])
    BY <2>1, <2>3, PutSameNode
  <2> QED BY <2>4, <2>5, Zenon
<1> HIDE DEF n, x
<1>3. Failure(a).node = a /\ Outcome(a, Nothing, TRUE).node = a /\ Outcome(n, out, TRUE).node = n
  <2>1. Failure(a).node = a
    BY FailureNode, OkOutcome
  <2>2. Outcome(a, Nothing, TRUE).node = a
    BY OkOutcome
  <2>3. Outcome(n, out, TRUE).node = n
    BY OkOutcome
  <2> QED BY <2>1, <2>2, <2>3, Zenon
<1>4. x.node = a \/ (x.node = n /\ Used(a.terminals, id))
  BY <1>1, <1>3
<1>5. SameLinks(a, x.node)
  BY <1>2, <1>4, SameReflexive
<1> QED BY <1>5 DEF x

\* Unsubscribe
LEMMA UnsubscribeSame ==
    ASSUME NEW a, IsNode(a), NEW c, NEW m
    PROVE  SameLinks(a, OnUnsubscribe(a, c, m).node)
<1> DEFINE s == remove_subscriber_if_needed(a, m.id, c)
           x == OnUnsubscribe(a, c, m)
<1>1. x = IF ~Used(a.terminals, m.id) THEN Failure(a) ELSE s
  BY Zenon DEF OnUnsubscribe
<1>2. ASSUME Used(a.terminals, m.id)
      PROVE  SameLinks(a, s.node)
  <2>1. m.id \in DOMAIN a.terminals.elem
    BY <1>2 DEF Used
  <2> QED BY <2>1, RemoveSubscriberSame
<1>3. Failure(a).node = a
  BY FailureNode, OkOutcome
<1> HIDE DEF s, x
<1>4. x.node = a \/ (x.node = s.node /\ Used(a.terminals, m.id))
  BY <1>1, <1>3
<1>5. SameLinks(a, x.node)
  BY <1>2, <1>4, SameReflexive
<1> QED BY <1>5 DEF x

\* Data and CachedData
LEMMA DataSame ==
    ASSUME NEW a, IsNode(a), NEW c, NEW m
    PROVE  SameLinks(a, OnNodeData(a, c, m).node)
<1> DEFINE id == m.id
           t  == a.terminals.elem[id]
           u  == [t EXCEPT !.cache = m.data]
           k  == [a EXCEPT !.terminals.elem[id].cache = m.data]
           n  == IF Caching THEN k ELSE a
           x  == OnNodeData(a, c, m)
<1>1. PICK out, ok : x = Failure(a) \/ (Used(a.terminals, id) /\ x = Outcome(n, out, ok))
  <2> DEFINE h == n.terminals.elem[id]
             copy(p) == Datum(m.type, SubscriptionOf(n, h, p), m.data)
             o == SendAll(Interested(n, h) \ {c}, copy)
             y == ReceiversMapped(n, h, c)
  <2>1. x = IF ~Used(a.terminals, id) THEN Failure(a) ELSE Outcome(n, o, y)
    BY Zenon DEF OnNodeData, ForwardData
  <2> HIDE DEF x, n, o, y
  <2> QED BY <2>1
<1>2. ASSUME Used(a.terminals, id)
      PROVE  SameLinks(a, n)
  <2>1. id \in DOMAIN a.terminals.elem
    BY <1>2 DEF Used
  <2>2. IsTerminal(t)
    BY <2>1 DEF IsNode
  <2>3. SameTerminal(t, u)
    <3> HIDE DEF t
    <3> QED BY <2>2, CacheSame
  <2>4. k = [a EXCEPT !.terminals.elem[id] = u]
    OBVIOUS
  <2> HIDE DEF u, k, id
  <2>5. SameLinks(a, [a EXCEPT !.terminals.elem[id] = u])
    BY <2>1, <2>3, PutSameNode
  <2>6. SameLinks(a, k)
    BY <2>4, <2>5, Zenon
  <2> QED BY <2>6, SameReflexive
<1> HIDE DEF n, x
<1>3. Failure(a).node = a /\ Outcome(n, out, ok).node = n
  BY FailureNode, OkOutcome, OutcomeParts
<1>4. x.node = a \/ (x.node = n /\ Used(a.terminals, id))
  BY <1>1, <1>3
<1>5. SameLinks(a, x.node)
  BY <1>2, <1>4, SameReflexive
<1> QED BY <1>5 DEF x

\* Scatter
LEMMA ScatterSame ==
    ASSUME NEW a, IsNode(a), NEW c, NEW m
    PROVE  SameLinks(a, OnNodeScatter(a, c, m).node)
<1> DEFINE id   == m.id
           t    == a.terminals.elem[id]
           op   == NextId(a.ops)
           receivers == Interested(a, t) \ {c}
           kept == Insert(a.ops, [source |-> c, sourceOp |-> m.op, terminal |-> id,
                                  remaining |-> receivers, call |-> m.data])
           copy(p) == ScatterMessage(SubscriptionOf(a, t, p), op, m.data)
           h    == [a EXCEPT !.ops = Erase(kept, op)]
           S    == t.active \cup {op}
           u    == [t EXCEPT !.active = S]
           n    == [a EXCEPT !.ops = kept, !.terminals.elem[id].active = @ \cup {op}]
           k    == [a EXCEPT !.ops = kept]
           out  == SendAll(receivers, copy)
           ok   == ReceiversMapped(a, t, c)
           x    == OnNodeScatter(a, c, m)
<1>1. x = CASE ~Used(a.terminals, id) -> Failure(a)
            [] Used(a.terminals, id) /\ receivers = {} -> Outcome(h, Nothing, TRUE)
            [] OTHER -> Outcome(n, out, ok)
  BY Zenon DEF OnNodeScatter
<1> HIDE DEF out, ok, kept, op, receivers
<1>2. SameLinks(a, h)
  BY OpsSame
<1>3. ASSUME Used(a.terminals, id)
      PROVE  SameLinks(a, n)
  <2>1. SameLinks(a, k)
    BY OpsSame
  <2>2. a = [terminals |-> a.terminals, bindings |-> a.bindings, conns |-> a.conns,
             known |-> a.known, ops |-> a.ops]
    BY DEF IsNode
  <2>3. n = [k EXCEPT !.terminals.elem[id] = u] /\ k.terminals = a.terminals
    BY <2>2
  <2>4. id \in DOMAIN a.terminals.elem
    BY <1>3 DEF Used
  <2>5. IsTerminal(t)
    BY <2>4 DEF IsNode
  <2>6. IsFiniteSet(t.active)
    BY <2>5 DEF IsTerminal
  <2>7. IsFiniteSet(S)
    <3> HIDE DEF t
    <3> QED BY <2>6, FS_AddElement
  <2>8. SameTerminal(t, u)
    <3> HIDE DEF t, S
    <3> QED BY <2>5, <2>7, ActiveSame
  <2> HIDE DEF u, k, id, n
  <2>9. /\ IsNode(k) /\ id \in DOMAIN k.terminals.elem
        /\ SameTerminal(k.terminals.elem[id], u)
    BY <2>1, <2>3, <2>4, <2>8 DEF SameLinks
  <2>10. SameLinks(k, [k EXCEPT !.terminals.elem[id] = u])
    BY <2>9, PutSameNode
  <2>11. SameLinks(k, n)
    BY <2>3, <2>10, Zenon
  <2> QED BY <2>1, <2>11, SameTransitive
<1> HIDE DEF n, h, x
<1>4. /\ Failure(a).node = a /\ Outcome(h, Nothing, TRUE).node = h
      /\ Outcome(n, out, ok).node = n
  <2>1. Failure(a).node = a
    BY FailureNode, OkOutcome
  <2>2. Outcome(h, Nothing, TRUE).node = h
    BY OkOutcome
  <2>3. Outcome(n, out, ok).node = n
    BY OutcomeParts
  <2> QED BY <2>1, <2>2, <2>3, Zenon
<1>5. x.node = a \/ x.node = h \/ (x.node = n /\ Used(a.terminals, id))
  <2> HIDE DEF id
  <2> QED BY <1>1, <1>4
<1>6. SameLinks(a, x.node)
  BY <1>2, <1>3, <1>5, SameReflexive
<1> QED BY <1>6 DEF x

\* Gather
LEMMA GatherSame ==
    ASSUME NEW a, IsNode(a), NEW c, NEW m
    PROVE  SameLinks(a, OnNodeGather(a, c, m).node)
<1> DEFINE s   == Resolve(a, m.id, c, m.flags)
           out == Answer(a.ops.elem[m.id], m.flags)
           x   == OnNodeGather(a, c, m)
<1>1. x = IF ~Used(a.ops, m.id) \/ c \notin a.ops.elem[m.id].remaining THEN Failure(a)
          ELSE IF "FINISHED" \in m.flags THEN s ELSE Outcome(a, out, TRUE)
  BY Zenon DEF OnNodeGather
<1>2. SameLinks(a, s.node)
  BY ResolveSame
<1> HIDE DEF out, s, x
<1>3. Failure(a).node = a /\ Outcome(a, out, TRUE).node = a
  BY FailureNode, OkOutcome
<1>4. x.node = a \/ x.node = s.node
  BY <1>1, <1>3
<1>5. SameLinks(a, x.node)
  BY <1>2, <1>4, SameReflexive
<1> QED BY <1>5 DEF x

\* TerminalRemoved
LEMMA RemovedFits ==
    ASSUME NEW a, Settled(a), NEW c \in Peers, NEW m
    PROVE  Settled(OnTerminalRemoved(a, c, m).node)
<1> DEFINE s == remove_terminal_owner(a, m.id, c, FALSE)
           x == OnTerminalRemoved(a, c, m)
<1>1. x = IF ~Used(a.terminals, m.id) THEN Failure(a) ELSE s
  BY Zenon DEF OnTerminalRemoved
<1>2. ASSUME Used(a.terminals, m.id)
      PROVE  Settled(s.node)
  <2>1. m.id \in DOMAIN a.terminals.elem /\ FALSE \in BOOLEAN
    BY <1>2 DEF Used
  <2> QED BY <2>1, RemoveOwnerFits
<1>3. Failure(a).node = a
  BY FailureNode, OkOutcome
<1> HIDE DEF s, x
<1>4. x.node = a \/ (x.node = s.node /\ Used(a.terminals, m.id))
  BY <1>1, <1>3
<1>5. Settled(x.node)
  BY <1>2, <1>4
<1> QED BY <1>5 DEF x

\* TerminalRemovedAck, once the user is dealt with: a terminal that nobody has
\* left is not linked any more.
LEMMA AckUpdateFits ==
    ASSUME NEW a, Settled(a), NEW id \in DOMAIN a.terminals.elem
    PROVE  Settled(update_state(IF Deserted(a.terminals.elem[id]) THEN disassociate(a, id) ELSE a, id))
<1> DEFINE t == a.terminals.elem[id]
           k == IF Deserted(t) THEN disassociate(a, id) ELSE a
<1>1. OwnedWell(t) /\ TerminalsLinked(a.terminals.elem, a.bindings.elem)
  BY DEF Settled, Fits, LinksFit
<1>2. t.hidden <=> DOMAIN t.leafs = {} /\ DOMAIN t.nodes = {}
  BY <1>1 DEF OwnedWell
<1>3. t.binding # NoId => ~t.hidden
  BY <1>1 DEF TerminalsLinked
<1>4. k = a
  <2>1. CASE Deserted(t)
    <3>1. t.binding = NoId
      BY <1>2, <1>3, <2>1 DEF Deserted
    <3>2. disassociate(a, id) = a
      BY <3>1 DEF disassociate
    <3> QED BY <2>1, <3>2
  <2>2. CASE ~Deserted(t)
    BY <2>2
  <2> QED BY <2>1, <2>2
<1>5. Fits(a, {}, {}, {id})
  BY FitsWeaker
<1>6. Settled(update_state(a, id))
  BY <1>2, <1>5, UpdateFits
<1> HIDE DEF k
<1>7. Settled(update_state(k, id))
  BY <1>4, <1>6
<1> QED BY <1>7 DEF k

\* TerminalRemovedAck
LEMMA RemovedAckFits ==
    ASSUME NEW a, Settled(a), NEW c, NEW m
    PROVE  Settled(OnTerminalRemovedAck(a, c, m).node)
<1> DEFINE id == m.id
           t  == a.terminals.elem[id]
           p  == Describe(a, id, c)
           q  == UserStep(a, id, c, process_rcvd_removed_ack(t.users[c]))
           r  == IF Redescribed(t, c) THEN p ELSE q
           k  == update_state(IF Deserted(r.node.terminals.elem[id])
                                THEN disassociate(r.node, id) ELSE r.node, id)
           s  == Outcome(k, Nothing, TRUE)
           y  == After(r, s)
           x  == OnTerminalRemovedAck(a, c, m)
<1>1. x = IF \/ c \notin Nodes \/ ~Used(a.terminals, id)
             \/ c \notin DOMAIN t.users \/ t.state = "JUST_CREATED" THEN Failure(a)
          ELSE y
  BY Zenon DEF OnTerminalRemovedAck, Then, After
<1>2. IsNode(a)
  BY DEF Settled, Fits
<1>3. ASSUME c \in Nodes, Used(a.terminals, id)
      PROVE  Settled(y.node)
  <2>1. id \in DOMAIN a.terminals.elem
    BY <1>3 DEF Used
  <2>2. SameLinks(a, p.node)
    <3>1. p = UserStep(a, id, c, reset(InitialFsm, FALSE))
      BY DEF Describe
    <3>2. SameLinks(a, UserStep(a, id, c, reset(InitialFsm, FALSE)).node)
      BY <1>2, <1>3, <2>1, UserStepSame
    <3> QED BY <3>1, <3>2, Zenon
  <2>3. SameLinks(a, q.node)
    BY <1>2, <1>3, <2>1, UserStepSame
  <2> HIDE DEF p, q
  <2>4. SameLinks(a, r.node)
    <3>1. r = p \/ r = q
      BY Zenon
    <3> HIDE DEF r
    <3> QED BY <2>2, <2>3, <3>1
  <2> HIDE DEF r
  <2>5. Settled(r.node) /\ id \in DOMAIN r.node.terminals.elem
    BY <2>1, <2>4, SameFits DEF Settled, SameLinks
  <2>6. Settled(k)
    BY <2>5, AckUpdateFits
  <2> HIDE DEF k
  <2>7. s.node = k
    BY OkOutcome
  <2> HIDE DEF s
  <2>8. y.node = r.node \/ y.node = s.node
    BY AfterParts
  <2> HIDE DEF y
  <2> QED BY <2>5, <2>6, <2>7, <2>8
<1>4. Failure(a).node = a
  BY FailureNode, OkOutcome
<1> HIDE DEF x, y
<1>5. x.node = a \/ (x.node = y.node /\ c \in Nodes /\ Used(a.terminals, id))
  <2> HIDE DEF id, t
  <2> QED BY <1>1, <1>4
<1>6. Settled(x.node)
  BY <1>3, <1>5
<1> QED BY <1>6 DEF x

\* BindingRemoved
LEMMA BindingRemovedFits ==
    ASSUME NEW a, Settled(a), NEW c, NEW m
    PROVE  Settled(OnBindingRemoved(a, c, m).node)
<1> DEFINE b  == m.id
           e  == a.bindings.elem[b]
           r  == process_rcvd_removed(e.leafs[c])
           f  == [e.leafs EXCEPT ![c] = r.fsm]
           d  == [e EXCEPT !.leafs = f]
           n  == [a EXCEPT !.bindings.elem[b].leafs[c] = r.fsm]
           q  == Outcome(n, SendTo(c, Messages("Terminal", b, e, r.out)), r.ok)
           k  == q.node
           s  == IF is_mapped(r.fsm) THEN Outcome(k, Nothing, TRUE) ELSE DropBindingOwner(k, b, c)
           y  == After(q, s)
           x  == OnBindingRemoved(a, c, m)
<1>1. x = IF ~Used(a.bindings, b) \/ c \notin DOMAIN e.leafs THEN Failure(a) ELSE y
  BY Zenon DEF OnBindingRemoved, Then, After
<1>2. k = n
  <2> HIDE DEF n
  <2> QED BY OutcomeParts
<1> HIDE DEF q
<1>3. ASSUME Used(a.bindings, b)
      PROVE  Settled(y.node)
  <2>1. b \in DOMAIN a.bindings.elem /\ IsNode(a)
    BY <1>3 DEF Used, Settled, Fits
  <2>2. IsBinding(e)
    BY <2>1 DEF IsNode
  <2>3. IsBinding(d) /\ SameBinding(e, d)
    <3> HIDE DEF e, f
    <3> QED BY <2>2, BindingLeafsSame
  <2>4. n = [a EXCEPT !.bindings.elem[b] = d]
    OBVIOUS
  <2> HIDE DEF d, n, b, r
  <2>5. SameLinks(a, [a EXCEPT !.bindings.elem[b] = d])
    BY <2>1, <2>3, BindingPutSame
  <2>6. SameLinks(a, n)
    BY <2>4, <2>5, Zenon
  <2>7. Settled(n) /\ b \in DOMAIN n.bindings.elem
    BY <2>1, <2>6, SameFits DEF Settled, SameLinks
  <2> HIDE DEF k
  <2>8. Settled(DropBindingOwner(k, b, c).node)
    BY <1>2, <2>7, DropBindingFits
  <2>9. Outcome(k, Nothing, TRUE).node = k
    BY OkOutcome
  <2>10. s = Outcome(k, Nothing, TRUE) \/ s = DropBindingOwner(k, b, c)
    BY Zenon
  <2> HIDE DEF s
  <2>11. Settled(s.node)
    BY <1>2, <2>7, <2>8, <2>9, <2>10
  <2>12. y.node = q.node \/ y.node = s.node
    BY AfterParts
  <2> HIDE DEF y
  <2> QED BY <1>2, <2>7, <2>11, <2>12 DEF k
<1>4. Failure(a).node = a
  BY FailureNode, OkOutcome
<1> HIDE DEF x, y
<1>5. x.node = a \/ (x.node = y.node /\ Used(a.bindings, b))
  <2> HIDE DEF b, e
  <2> QED BY <1>1, <1>4
<1>6. Settled(x.node)
  BY <1>3, <1>5
<1> QED BY <1>6 DEF x

----------------------------------------------------------------------------
(* Descriptions: an entry is found or made, and gets an owner.             *)

\* Register q has the elements of r, and one with identifier x under id.
Entered(r, q, x, e, id) ==
    /\ Orderly(q) /\ DOMAIN q.elem = DOMAIN r.elem \cup {id}
    /\ q.elem[id].identifier = x /\ ~q.elem[id].hidden
    /\ \A i \in DOMAIN r.elem : q.elem[i] = r.elem[i]
    /\ \/ id \in DOMAIN r.elem
       \/ id \notin DOMAIN r.elem /\ q.elem[id] = e /\ Visible(r, x) = {}

\* What FindOrInsert does to an orderly register.
LEMMA EntryFound ==
    ASSUME NEW r, Orderly(r), NEW x, NEW e, e.identifier = x, ~e.hidden
    PROVE  Entered(r, FindOrInsert(r, x, e), x, e, Find(FindOrInsert(r, x, e), x))
<1> DEFINE q  == FindOrInsert(r, x, e)
           id == Find(q, x)
<1>1. CASE Visible(r, x) = {}
  <2> DEFINE new == NextId(r)
  <2>1. q = Insert(r, e)
    BY <1>1 DEF FindOrInsert
  <2> HIDE DEF q
  <2>2. /\ Orderly(q) /\ new \notin DOMAIN r.elem /\ DOMAIN q.elem = DOMAIN r.elem \cup {new}
        /\ q.elem[new] = e /\ \A i \in DOMAIN r.elem : q.elem[i] = r.elem[i]
    BY <2>1, InsertOrderly
  <2> HIDE DEF new
  <2>3. new \in Visible(q, x)
    BY <2>2 DEF Visible
  <2>4. id \in DOMAIN q.elem /\ q.elem[id].identifier = x /\ ~q.elem[id].hidden
    BY <2>3, Found
  <2> HIDE DEF id
  <2>5. id = new
    <3>1. id \notin DOMAIN r.elem
      BY <1>1, <2>2, <2>4 DEF Visible
    <3> QED BY <2>2, <2>4, <3>1
  <2>6. Entered(r, q, x, e, id)
    BY <1>1, <2>2, <2>4, <2>5 DEF Entered
  <2> QED BY <2>6 DEF id, q
<1>2. CASE Visible(r, x) # {}
  <2>1. q = Grow(r)
    BY <1>2 DEF FindOrInsert
  <2> HIDE DEF q
  <2>2. Orderly(q) /\ q.elem = r.elem
    BY <2>1, GrowOrderly
  <2>3. Visible(q, x) # {}
    BY <1>2, <2>2 DEF Visible
  <2>4. id \in DOMAIN q.elem /\ q.elem[id].identifier = x /\ ~q.elem[id].hidden
    BY <2>3, Found
  <2> HIDE DEF id
  <2>5. Entered(r, q, x, e, id)
    BY <2>2, <2>4 DEF Entered
  <2> QED BY <2>5 DEF id, q
<1> QED BY <1>1, <1>2

\* The fields of a new entry.
LEMMA NewEntries ==
    ASSUME NEW x
    PROVE  /\ IsTerminal(NewTerminalInfo(x)) /\ IsBinding(NewBindingInfo(x))
           /\ NewTerminalInfo(x).identifier = x /\ ~NewTerminalInfo(x).hidden
           /\ NewTerminalInfo(x).binding = NoId /\ NewTerminalInfo(x).state = "JUST_CREATED"
           /\ DOMAIN NewTerminalInfo(x).leafs = {} /\ DOMAIN NewTerminalInfo(x).nodes = {}
           /\ NewBindingInfo(x).identifier = x /\ ~NewBindingInfo(x).hidden
           /\ NewBindingInfo(x).terminal = NoId /\ DOMAIN NewBindingInfo(x).leafs = {}
<1>1. DOMAIN NoMachines = {}
  BY DEF NoMachines
<1>2. IsFiniteSet({})
  BY FS_EmptySet
<1> QED BY <1>1, <1>2 DEF NewTerminalInfo, NewBindingInfo, IsTerminal, IsBinding

\* A node with another register of bindings.
WithBindings(a, n, r)  == IsNode(n) /\ n.terminals = a.terminals /\ n.bindings = r
\* Node n is node a with the terminals r.
WithTerminals(a, n, r) == IsNode(n) /\ n.bindings = a.bindings /\ n.terminals = r

\* The register of bindings is replaced.
LEMMA OtherBindings ==
    ASSUME NEW a, IsNode(a), NEW r, Orderly(r), \A b \in DOMAIN r.elem : IsBinding(r.elem[b]),
           NEW n, n = [a EXCEPT !.bindings = r]
    PROVE  WithBindings(a, n, r)
<1>1. a = [terminals |-> a.terminals, bindings |-> a.bindings, conns |-> a.conns,
           known |-> a.known, ops |-> a.ops]
  BY DEF IsNode
<1>2. n = [terminals |-> a.terminals, bindings |-> r, conns |-> a.conns,
           known |-> a.known, ops |-> a.ops]
  BY <1>1
<1>3. /\ n.terminals = a.terminals /\ n.bindings = r
      /\ n = [terminals |-> n.terminals, bindings |-> n.bindings, conns |-> n.conns,
              known |-> n.known, ops |-> n.ops]
  BY <1>2
<1>4. IsNode(n)
  BY <1>3 DEF IsNode
<1> QED BY <1>3, <1>4 DEF WithBindings

\* The register of terminals is replaced.
LEMMA OtherTerminals ==
    ASSUME NEW a, IsNode(a), NEW r, Orderly(r), \A b \in DOMAIN r.elem : IsTerminal(r.elem[b]),
           NEW n, n = [a EXCEPT !.terminals = r]
    PROVE  WithTerminals(a, n, r)
<1>1. a = [terminals |-> a.terminals, bindings |-> a.bindings, conns |-> a.conns,
           known |-> a.known, ops |-> a.ops]
  BY DEF IsNode
<1>2. n = [terminals |-> r, bindings |-> a.bindings, conns |-> a.conns,
           known |-> a.known, ops |-> a.ops]
  BY <1>1
<1>3. /\ n.bindings = a.bindings /\ n.terminals = r
      /\ n = [terminals |-> n.terminals, bindings |-> n.bindings, conns |-> n.conns,
              known |-> n.known, ops |-> n.ops]
  BY <1>2
<1>4. IsNode(n)
  BY <1>3 DEF IsNode
<1> QED BY <1>3, <1>4 DEF WithTerminals

\* Node n is node a with one more owner of binding b, which may be a new entry.
BindingIn(a, n, b) ==
    /\ Fits(n, {}, {b}, {}) /\ b \in DOMAIN n.bindings.elem
    /\ b \in DOMAIN a.bindings.elem => Settled(n)

\* The entry for identifier x gets an owner.
LEMMA BindingEntered ==
    ASSUME NEW a, Settled(a), NEW x, NEW c, NEW v, NEW q, NEW b,
           Entered(a.bindings, q, x, NewBindingInfo(x), b),
           NEW e, e = [q.elem[b] EXCEPT !.leafs = With(@, c, v)],
           NEW n, n = [a EXCEPT !.bindings = Put(q, b, e)]
    PROVE  BindingIn(a, n, b)
<1> DEFINE T == a.terminals.elem
           B == a.bindings.elem
           d == q.elem[b]
           r == Put(q, b, e)
           C == r.elem
<1>1. /\ Orderly(q) /\ DOMAIN q.elem = DOMAIN B \cup {b} /\ d.identifier = x
      /\ \A i \in DOMAIN B : q.elem[i] = B[i]
      /\ b \in DOMAIN B \/ (b \notin DOMAIN B /\ d = NewBindingInfo(x) /\ Visible(a.bindings, x) = {})
  BY DEF Entered
<1>2. IsNode(a) /\ LinksFit(T, B, {}, {}) /\ \A i \in DOMAIN T : OwnedWell(T[i])
  BY DEF Settled, Fits
<1>3. \A i \in DOMAIN B : IsBinding(B[i])
  BY <1>2 DEF IsNode
<1>4. IsBinding(d) /\ (b \notin DOMAIN B => d.terminal = NoId)
  <2> HIDE DEF d, B
  <2>1. b \in DOMAIN B => d = B[b]
    BY <1>1 DEF d
  <2> QED BY <1>1, <1>3, <2>1, NewEntries
<1>5. IsBinding(e) /\ e.identifier = x /\ e.terminal = d.terminal
  <2> DEFINE f == With(d.leafs, c, v)
  <2>1. e = [d EXCEPT !.leafs = f]
    OBVIOUS
  <2>2. d.identifier = x
    BY <1>1
  <2> HIDE DEF d, f
  <2>3. IsBinding([d EXCEPT !.leafs = f]) /\ SameBinding(d, [d EXCEPT !.leafs = f])
    BY <1>4, BindingLeafsSame
  <2> QED BY <2>1, <2>2, <2>3 DEF SameBinding
<1>6. /\ Orderly(r) /\ DOMAIN C = DOMAIN q.elem /\ C[b] = e
      /\ \A i \in DOMAIN q.elem : i # b => C[i] = q.elem[i]
  BY <1>1, PutOrderly
<1> HIDE DEF r
<1>7. IsNode(n) /\ n.terminals = a.terminals /\ n.bindings = r
  <2>1. \A i \in DOMAIN r.elem : IsBinding(r.elem[i])
    BY <1>1, <1>3, <1>5, <1>6
  <2>2. n = [a EXCEPT !.bindings = r]
    BY DEF r
  <2>3. Orderly(r) /\ IsNode(a)
    BY <1>2, <1>6
  <2>4. WithBindings(a, n, r)
    BY <2>1, <2>2, <2>3, OtherBindings
  <2> QED BY <2>4 DEF WithBindings
<1> HIDE DEF T, B, C, d
<1>8. /\ DOMAIN C = DOMAIN B \cup {b} /\ C[b].identifier = x
      /\ \A i \in DOMAIN B : C[i].identifier = B[i].identifier /\ C[i].terminal = B[i].terminal
      /\ b \notin DOMAIN B => C[b].terminal = NoId /\ \A i \in DOMAIN B : B[i].identifier # x
  <2>1. b \in DOMAIN B => d = B[b]
    BY <1>1 DEF d
  <2>2. b \notin DOMAIN B => \A i \in DOMAIN B : B[i].identifier # x
    <3>1. CASE Visible(a.bindings, x) = {}
      <4>1. \A i \in DOMAIN B : ~B[i].hidden
        BY <1>3 DEF IsBinding
      <4> QED BY <3>1, <4>1 DEF Visible, B
    <3> QED BY <1>1, <3>1
  <2> QED BY <1>1, <1>4, <1>5, <1>6, <2>1, <2>2
<1>9. LinksFit(T, C, {}, {b}) /\ (b \in DOMAIN B => LinksFit(T, C, {}, {}))
  <2>1. OneTerminal(T)
    BY <1>2 DEF LinksFit
  <2>2. OneBinding(C)
    BY <1>2, <1>8 DEF LinksFit, OneBinding
  <2>3. TerminalsLinked(T, C)
    BY <1>2, <1>8 DEF LinksFit, TerminalsLinked
  <2>4. BindingsLinked(T, C)
    BY <1>2, <1>8 DEF LinksFit, BindingsLinked
  <2>5. AllLinked(T, C, {}, {b})
    BY <1>2, <1>8 DEF LinksFit, AllLinked
  <2>6. b \in DOMAIN B => AllLinked(T, C, {}, {})
    BY <1>2, <1>8 DEF LinksFit, AllLinked
  <2> QED BY <2>1, <2>2, <2>3, <2>4, <2>5, <2>6 DEF LinksFit
<1>10. Fits(n, {}, {b}, {}) /\ (b \in DOMAIN B => Fits(n, {}, {}, {}))
  <2>1. n.terminals.elem = T /\ n.bindings.elem = C
    BY <1>7 DEF T, C
  <2> QED BY <1>2, <1>7, <1>9, <2>1 DEF Fits
<1>11. b \in DOMAIN n.bindings.elem
  BY <1>7, <1>8 DEF C
<1> QED BY <1>10, <1>11 DEF BindingIn, Settled, B

\* A machine that gets its first description is mapped by it.
LEMMA FirstDescription ==
    ASSUME NEW f, NEW c, NEW own, c \notin DOMAIN f
    PROVE  /\ process_rcvd_description(MachineOf(f, c), own).ok
           /\ Len(process_rcvd_description(MachineOf(f, c), own).out) = 1
<1>1. MachineOf(f, c) = InitialFsm
  BY DEF MachineOf
<1>2. process_rcvd_description(InitialFsm, own)
        = Step(MapTo(InitialFsm, "MAPPED_CONFIRMED", own), <<Out("Mapping", own)>>, <<TRUE>>)
  BY DEF process_rcvd_description, InitialFsm, is_mapped
<1> DEFINE g == MapTo(InitialFsm, "MAPPED_CONFIRMED", own)
           o == Out("Mapping", own)
<1>3. Step(g, <<o>>, <<TRUE>>).ok /\ Step(g, <<o>>, <<TRUE>>).out = <<o>>
  <2> HIDE DEF g, o
  <2> QED BY DEF Step
<1>4. Len(<<o>>) = 1
  <2> HIDE DEF o
  <2> QED OBVIOUS
<1> QED BY <1>1, <1>2, <1>3, <1>4

\* BindingDescription
LEMMA BindingDescriptionFits ==
    ASSUME NEW a, Settled(a), NEW c, NEW m
    PROVE  Settled(OnBindingDescription(a, c, m).node)
<1> DEFINE y   == m.identifier
           reg == FindOrInsert(a.bindings, y, NewBindingInfo(y))
           b   == Find(reg, y)
           d   == reg.elem[b]
           r   == process_rcvd_description(MachineOf(d.leafs, c), m.own)
           e   == [d EXCEPT !.leafs = With(@, c, r.fsm)]
           n   == [a EXCEPT !.bindings = Put(reg, b, e)]
           q   == Outcome(n, SendTo(c, Messages("Terminal", b, d, r.out)), r.ok)
           q2  == After(q, Outcome(associate_binding(q.node, b), Nothing, TRUE))
           says(k) ==
               LET id    == k.bindings.elem[b].terminal
                   t     == k.terminals.elem[id]
                   alone == t.state = "1_LEAFS_0_NODES" /\ DOMAIN t.leafs = {c}
               IN  IF id = NoId \/ alone THEN Nothing
                   ELSE SendTo(c, <<Told("Established", m.own)>>)
           q3  == After(q2, Outcome(q2.node, says(q2.node), TRUE))
           q4  == After(q3, on_binding_owner_added(q3.node, b, c, m.own))
           p   == After(q, on_binding_owner_remapped(q.node, b, c, m.own))
           x   == OnBindingDescription(a, c, m)
<1>1. x = IF c \in Nodes THEN Failure(a) ELSE IF Len(r.out) = 2 THEN p ELSE q4
  BY Zenon DEF OnBindingDescription, Then, After
<1>2. Entered(a.bindings, reg, y, NewBindingInfo(y), b)
  <2>1. Orderly(a.bindings)
    BY DEF Settled, Fits, IsNode
  <2> HIDE DEF y
  <2> QED BY <2>1, NewEntries, EntryFound
<1>3. d.leafs = NoMachines \/ b \in DOMAIN a.bindings.elem
  <2> HIDE DEF reg, b
  <2>1. b \in DOMAIN a.bindings.elem \/ d = NewBindingInfo(y)
    BY <1>2 DEF Entered
  <2> HIDE DEF d
  <2> QED BY <2>1 DEF NewBindingInfo
<1>4. b \notin DOMAIN a.bindings.elem => r.ok /\ Len(r.out) = 1
  <2> SUFFICES ASSUME b \notin DOMAIN a.bindings.elem
               PROVE  r.ok /\ Len(r.out) = 1
    OBVIOUS
  <2>1. c \notin DOMAIN d.leafs
    <3> HIDE DEF d, b
    <3> QED BY <1>3 DEF NoMachines
  <2> HIDE DEF d
  <2> QED BY <2>1, FirstDescription
<1>5. /\ Fits(n, {}, {b}, {}) /\ b \in DOMAIN n.bindings.elem
      /\ b \in DOMAIN a.bindings.elem => Settled(n)
  <2>1. e = [reg.elem[b] EXCEPT !.leafs = With(@, c, r.fsm)]
    OBVIOUS
  <2>2. n = [a EXCEPT !.bindings = Put(reg, b, e)]
    OBVIOUS
  <2> HIDE DEF n, e, r, reg, b, y
  <2>3. BindingIn(a, n, b)
    BY <1>2, <2>1, <2>2, BindingEntered, Zenon
  <2> QED BY <2>3 DEF BindingIn
<1> HIDE DEF n, b, d, reg
<1>6. q.node = n /\ q.ok = r.ok
  BY OutcomeParts
<1> HIDE DEF q, r
<1>7. Settled(q2.node)
  <2> DEFINE s == Outcome(associate_binding(q.node, b), Nothing, TRUE)
  <2>1. s.node = associate_binding(q.node, b)
    BY OkOutcome
  <2>2. Settled(associate_binding(n, b))
    BY <1>5, AssociateBindingFits
  <2> HIDE DEF s
  <2>3. (q2.node = q.node /\ ~q.ok) \/ q2.node = s.node
    BY AfterParts DEF s
  <2> HIDE DEF q2
  <2>4. CASE q2.node = q.node /\ ~q.ok
    BY <1>4, <1>5, <1>6, <2>4
  <2>5. CASE q2.node = s.node
    BY <1>6, <2>1, <2>2, <2>5
  <2> QED BY <2>3, <2>4, <2>5
<1> HIDE DEF q2
<1>8. Settled(q3.node)
  <2> DEFINE o == says(q2.node)
             k == q2.node
             s == Outcome(k, o, TRUE)
  <2> HIDE DEF o, k
  <2>1. s.node = k
    BY OkOutcome, OutcomeParts
  <2> HIDE DEF s
  <2>2. q3.node = q2.node \/ q3.node = s.node
    BY AfterParts DEF s, o, k
  <2> HIDE DEF q3
  <2> QED BY <1>7, <2>1, <2>2 DEF k
<1> HIDE DEF q3
<1>9. Settled(q4.node)
  <2> DEFINE s == on_binding_owner_added(q3.node, b, c, m.own)
             k == q3.node
  <2>1. PICK out, ok : s = Outcome(k, out, ok)
    BY Zenon DEF on_binding_owner_added
  <2> HIDE DEF s
  <2>2. s.node = q3.node
    BY <2>1, OutcomeParts
  <2>3. q4.node = q3.node \/ q4.node = s.node
    BY AfterParts DEF s
  <2> HIDE DEF q4
  <2> QED BY <1>8, <2>2, <2>3
<1>10. b \in DOMAIN a.bindings.elem => Settled(p.node)
  <2> DEFINE s == on_binding_owner_remapped(q.node, b, c, m.own)
             k == q.node
  <2>1. PICK out, ok : s = Outcome(k, out, ok)
    BY Zenon DEF on_binding_owner_remapped
  <2> HIDE DEF s
  <2>2. s.node = q.node
    BY <2>1, OutcomeParts
  <2>3. p.node = q.node \/ p.node = s.node
    BY AfterParts DEF s
  <2> HIDE DEF p
  <2> QED BY <1>5, <1>6, <2>2, <2>3
<1>11. Failure(a).node = a
  BY FailureNode, OkOutcome
<1> HIDE DEF p, q4, x
<1>12. Settled(x.node)
  <2>1. CASE x = Failure(a)
    BY <1>11, <2>1
  <2>2. CASE x = q4
    BY <1>9, <2>2
  <2>3. CASE x = p /\ Len(r.out) = 2
    BY <1>4, <1>10, <2>3
  <2> QED BY <1>1, <2>1, <2>2, <2>3
<1> QED BY <1>12 DEF x

\* Terminal id has an owner and is found; its links are made unless X has it.
Half(n, id, X) ==
    /\ Fits(n, X, {}, {id}) /\ id \in DOMAIN n.terminals.elem
    /\ ~n.terminals.elem[id].hidden
    /\ ~(DOMAIN n.terminals.elem[id].leafs = {} /\ DOMAIN n.terminals.elem[id].nodes = {})

\* Node n is node a with owner c of terminal id, which may be a new entry.
TerminalIn(a, n, id, old) == Half(n, id, {id}) /\ (old => Settled(n))

\* The entry for identifier x gets owner c.
LEMMA TerminalEntered ==
    ASSUME NEW a, Settled(a), NEW x, NEW c \in Peers, NEW v, NEW q, NEW id,
           Entered(a.terminals, q, x, NewTerminalInfo(x), id),
           NEW t, t = q.elem[id],
           NEW u, u = SetOwners(t, c, With(owners(t, c), c, v)),
           NEW n, n = [a EXCEPT !.terminals = Put(q, id, u)]
    PROVE  TerminalIn(a, n, id, c \in DOMAIN owners(t, c))
<1> DEFINE T == a.terminals.elem
           B == a.bindings.elem
           r == Put(q, id, u)
           U == r.elem
           g == With(owners(t, c), c, v)
           old == c \in DOMAIN owners(t, c)
<1>1. /\ Orderly(q) /\ DOMAIN q.elem = DOMAIN T \cup {id} /\ t.identifier = x /\ ~t.hidden
      /\ \A i \in DOMAIN T : q.elem[i] = T[i]
      /\ \/ id \in DOMAIN T
         \/ id \notin DOMAIN T /\ t = NewTerminalInfo(x) /\ Visible(a.terminals, x) = {}
  BY DEF Entered
<1>2. IsNode(a) /\ LinksFit(T, B, {}, {}) /\ \A i \in DOMAIN T : OwnedWell(T[i])
  BY DEF Settled, Fits
<1>3. \A i \in DOMAIN T : IsTerminal(T[i])
  BY <1>2 DEF IsNode
<1>4. /\ IsTerminal(t)
      /\ id \in DOMAIN T => t = T[id]
      /\ id \notin DOMAIN T => t.binding = NoId /\ ~old
  <2>1. id \in DOMAIN T => t = T[id]
    BY <1>1
  <2>2. IsTerminal(NewTerminalInfo(x)) /\ NewTerminalInfo(x).binding = NoId
    BY NewEntries
  <2>3. DOMAIN owners(NewTerminalInfo(x), c) = {}
    BY NewEntries DEF owners
  <2> HIDE DEF T
  <2> QED BY <1>1, <1>3, <2>1, <2>2, <2>3
<1>5. DOMAIN g = DOMAIN owners(t, c) \cup {c}
  BY MapDomains
<1> HIDE DEF g
<1>6. /\ IsTerminal(u) /\ u.identifier = t.identifier /\ u.hidden = t.hidden
      /\ u.binding = t.binding /\ u.state = t.state
      /\ u.leafs = (IF c \in Nodes THEN t.leafs ELSE g)
      /\ u.nodes = (IF c \in Nodes THEN g ELSE t.nodes)
  <2>1. u = SetOwners(t, c, g)
    BY DEF g
  <2>2. DOMAIN g \subseteq DOMAIN owners(t, c) \cup {c}
    BY <1>5
  <2> QED BY <1>4, <2>1, <2>2, SetOwnersFields
<1>7. /\ ~(DOMAIN u.leafs = {} /\ DOMAIN u.nodes = {})
      /\ old => DOMAIN u.leafs = DOMAIN t.leafs /\ DOMAIN u.nodes = DOMAIN t.nodes
  BY <1>5, <1>6 DEF owners
<1>8. /\ Orderly(r) /\ DOMAIN U = DOMAIN q.elem /\ U[id] = u
      /\ \A i \in DOMAIN q.elem : i # id => U[i] = q.elem[i]
  BY <1>1, PutOrderly
<1> HIDE DEF r
<1>9. IsNode(n) /\ n.bindings = a.bindings /\ n.terminals = r
  <2>1. \A i \in DOMAIN r.elem : IsTerminal(r.elem[i])
    BY <1>1, <1>3, <1>6, <1>8
  <2>2. n = [a EXCEPT !.terminals = r]
    BY DEF r
  <2>3. Orderly(r) /\ IsNode(a)
    BY <1>2, <1>8
  <2>4. WithTerminals(a, n, r)
    BY <2>1, <2>2, <2>3, OtherTerminals
  <2> QED BY <2>4 DEF WithTerminals
<1> HIDE DEF T, B, U, old
<1>10. /\ DOMAIN U = DOMAIN T \cup {id} /\ U[id] = u /\ u.identifier = x /\ ~u.hidden
       /\ \A i \in DOMAIN T : i # id => U[i] = T[i]
       /\ id \in DOMAIN T => u.binding = T[id].binding /\ T[id].identifier = x /\ ~T[id].hidden
       /\ id \notin DOMAIN T => /\ u.binding = NoId
                                /\ \A i \in DOMAIN T : ~T[i].hidden => T[i].identifier # x
  <2>1. id \notin DOMAIN T => \A i \in DOMAIN T : ~T[i].hidden => T[i].identifier # x
    <3>1. CASE Visible(a.terminals, x) = {}
      BY <3>1 DEF Visible, T
    <3> QED BY <1>1, <3>1
  <2> QED BY <1>1, <1>4, <1>6, <1>8, <2>1
<1>11. \A i \in DOMAIN T : /\ U[i].identifier = T[i].identifier /\ U[i].hidden = T[i].hidden
                           /\ U[i].binding = T[i].binding
  <2> SUFFICES ASSUME NEW i \in DOMAIN T
               PROVE  /\ U[i].identifier = T[i].identifier /\ U[i].hidden = T[i].hidden
                      /\ U[i].binding = T[i].binding
    OBVIOUS
  <2>1. CASE i # id
    BY <1>10, <2>1
  <2>2. CASE i = id
    BY <1>4, <1>6, <1>10, <2>2
  <2> QED BY <2>1, <2>2
<1>12. LinksFit(U, B, {id}, {}) /\ (id \in DOMAIN T => LinksFit(U, B, {}, {}))
  <2>1. OneTerminal(U)
    BY <1>2, <1>10, <1>11 DEF LinksFit, OneTerminal
  <2>2. OneBinding(B)
    BY <1>2 DEF LinksFit
  <2>3. TerminalsLinked(U, B)
    BY <1>2, <1>10, <1>11 DEF LinksFit, TerminalsLinked
  <2>4. BindingsLinked(U, B)
    BY <1>2, <1>10, <1>11 DEF LinksFit, BindingsLinked
  <2>5. AllLinked(U, B, {id}, {})
    BY <1>2, <1>10, <1>11 DEF LinksFit, AllLinked
  <2>6. id \in DOMAIN T => AllLinked(U, B, {}, {})
    BY <1>2, <1>10, <1>11 DEF LinksFit, AllLinked
  <2> QED BY <2>1, <2>2, <2>3, <2>4, <2>5, <2>6 DEF LinksFit
<1>13. \A i \in DOMAIN U \ {id} : OwnedWell(U[i])
  BY <1>2, <1>10
<1>14. old => id \in DOMAIN T /\ OwnedWell(U[id])
  <2> SUFFICES ASSUME old
               PROVE  id \in DOMAIN T /\ OwnedWell(U[id])
    OBVIOUS
  <2>1. id \in DOMAIN T
    BY <1>4
  <2>2. OwnedWell(t)
    BY <1>2, <1>4, <2>1
  <2>3. OwnedWell(u)
    BY <1>6, <1>7, <2>2 DEF OwnedWell, OwnerState
  <2> QED BY <1>10, <2>1, <2>3
<1>15. n.terminals.elem = U /\ n.bindings.elem = B
  BY <1>9 DEF U, B
<1>16. Half(n, id, {id})
  BY <1>7, <1>9, <1>10, <1>12, <1>13, <1>15 DEF Half, Fits
<1>17. old => Fits(n, {}, {}, {})
  BY <1>9, <1>12, <1>13, <1>14, <1>15 DEF Fits
<1> QED BY <1>16, <1>17 DEF TerminalIn, Settled, old

\* A terminal that is found does not wait for its users.
LEMMA FoundState ==
    ASSUME NEW t, IsTerminal(t), OwnedWell(t), ~t.hidden
    PROVE  t.state # "AWAIT_ACKS"
<1> DEFINE l == Cardinality(DOMAIN t.leafs)
           n == Cardinality(DOMAIN t.nodes)
<1>1. IsFiniteSet(DOMAIN t.leafs) /\ IsFiniteSet(DOMAIN t.nodes)
  BY FinitePeers, FS_Subset DEF IsTerminal
<1>2. l \in Nat /\ n \in Nat /\ ~(l = 0 /\ n = 0)
  BY <1>1, FS_CardinalityType, FS_EmptySet DEF OwnedWell
<1>3. t.state = OwnerState(t)
  BY DEF OwnedWell
<1> HIDE DEF l, n
<1>4. t.state = CASE l = 0 /\ n = 0 -> "AWAIT_ACKS"
                  [] l = 0 /\ n = 1 -> "0_LEAFS_1_NODES"
                  [] l = 0 /\ n > 1 -> "0_LEAFS_M_NODES"
                  [] l = 1 /\ n = 0 -> "1_LEAFS_0_NODES"
                  [] l > 1 /\ n = 0 -> "M_LEAFS_0_NODES"
                  [] OTHER          -> "N_LEAFS_N_NODES"
  BY <1>3 DEF OwnerState, l, n
<1> QED BY <1>2, <1>4

\* The second step is taken if the first one held.
LEMMA AfterOk ==
    ASSUME NEW r, NEW s, r.ok
    PROVE  After(r, s).node = s.node /\ After(r, s).ok = s.ok
BY OutcomeParts DEF After, Followed

\* ... and only then.
LEMMA AfterFails ==
    ASSUME NEW r, NEW s, ~r.ok
    PROVE  After(r, s) = r
BY DEF After

\* The steps of OnTerminalDescription after the new owner is entered.
LEMMA StepsFail ==
    ASSUME NEW r, ~r.ok, NEW id, NEW t, NEW c, NEW own
    PROVE  /\ Announce(r, id, t, c) = r /\ Bind(r, id) = r /\ Establish(r, id, t, c) = r
           /\ UpdateOwners(r, id, t) = r /\ OwnerAdded(r, id, c, own) = r
<1>1. Announce(r, id, t, c) = r
  BY Zenon DEF Announce, Then
<1>2. Bind(r, id) = r
  BY Zenon DEF Bind, Then
<1>3. Establish(r, id, t, c) = r
  BY Zenon DEF Establish, Then
<1>4. UpdateOwners(r, id, t) = r
  BY Zenon DEF UpdateOwners, Then
<1>5. OwnerAdded(r, id, c, own) = r
  BY Zenon DEF OwnerAdded, Then
<1> QED BY <1>1, <1>2, <1>3, <1>4, <1>5

\* DescribeToAll leaves the terminal to be linked.
LEMMA AnnounceHalf ==
    ASSUME NEW r, r.ok, NEW id, Half(r.node, id, {id}), NEW t, IsTerminal(t), NEW c
    PROVE  Half(Announce(r, id, t, c).node, id, {id}) /\ Announce(r, id, t, c).ok
<1> DEFINE a == r.node
           S == Audience(a, t, c)
           s == DescribeToAll(a, id, S)
           x == Announce(r, id, t, c)
<1>1. x = After(r, s)
  BY Zenon DEF Announce, Then, After
<1>2. Fits(a, {id}, {}, {id}) /\ IsNode(a) /\ id \in DOMAIN a.terminals.elem
  BY DEF Half, Fits
<1>3. S \in SUBSET Nodes
  BY DEF Audience, IsTerminal
<1> HIDE DEF S
<1>4. SameLinks(a, s.node) /\ s.ok = TRUE
  BY <1>2, <1>3, DescribeToAllSame
<1> HIDE DEF s
<1>5. Fits(s.node, {id}, {}, {id})
  BY <1>2, <1>4, SameFits
<1>6. /\ id \in DOMAIN s.node.terminals.elem
      /\ SameTerminal(a.terminals.elem[id], s.node.terminals.elem[id])
  BY <1>2, <1>4 DEF SameLinks
<1>7. Half(s.node, id, {id})
  BY <1>5, <1>6 DEF Half, SameTerminal
<1> HIDE DEF x
<1>8. x.node = s.node /\ x.ok = s.ok
  BY <1>1, AfterOk
<1>9. Half(x.node, id, {id}) /\ x.ok
  BY <1>4, <1>7, <1>8
<1> QED BY <1>9 DEF x

\* associate links it, and the assertion in it holds.
LEMMA BindHalf ==
    ASSUME NEW r, r.ok, NEW id, Half(r.node, id, {id})
    PROVE  Half(Bind(r, id).node, id, {}) /\ Bind(r, id).ok
<1> DEFINE a == r.node
           n == associate(a, id)
           ok == AssociationOk(a, id)
           s == Outcome(n, Nothing, ok)
           x == Bind(r, id)
<1>1. x = After(r, s)
  BY Zenon DEF Bind, Then, After
<1>2. Fits(a, {id}, {}, {id}) /\ id \in DOMAIN a.terminals.elem /\ ~a.terminals.elem[id].hidden
  BY DEF Half
<1>3. Fits(n, {}, {}, {id}) /\ SameOwners(a, n, id) /\ ok
  BY <1>2, AssociateFits
<1> HIDE DEF n, ok
<1>4. Half(n, id, {})
  BY <1>3 DEF Half, SameOwners
<1>5. s.node = n /\ s.ok = ok
  BY OutcomeParts
<1> HIDE DEF s, x
<1>6. x.node = s.node /\ x.ok = s.ok
  BY <1>1, AfterOk
<1>7. Half(x.node, id, {}) /\ x.ok
  BY <1>3, <1>4, <1>5, <1>6
<1> QED BY <1>7 DEF x

\* The messages to the leafs change nothing.
LEMMA EstablishHalf ==
    ASSUME NEW r, r.ok, NEW id, Half(r.node, id, {}), NEW t, NEW c
    PROVE  Half(Establish(r, id, t, c).node, id, {}) /\ Establish(r, id, t, c).ok
<1> DEFINE a == r.node
           b == a.terminals.elem[id].binding
           out == IF b = NoId THEN Nothing
                  ELSE TellOwners(a.bindings.elem[b], NewlyBound(t, c), "Established")
           s == Outcome(a, out, TRUE)
           x == Establish(r, id, t, c)
<1>1. x = After(r, s)
  BY Zenon DEF Establish, Then, After
<1>2. Half(a, id, {})
  OBVIOUS
<1> HIDE DEF out, a
<1>3. s.node = a /\ s.ok = TRUE
  BY OkOutcome
<1> HIDE DEF s, x
<1>4. x.node = s.node /\ x.ok = s.ok
  BY <1>1, AfterOk
<1>5. Half(x.node, id, {}) /\ x.ok
  BY <1>2, <1>3, <1>4
<1> QED BY <1>5 DEF x

\* update_state makes the state of the terminal say how many owners it has.
LEMMA UpdateHalf ==
    ASSUME NEW r, r.ok, NEW id, Half(r.node, id, {}), NEW t
    PROVE  Settled(UpdateOwners(r, id, t).node)
<1> DEFINE a == r.node
           n == update_state(a, id)
           K == IF t.state = "JUST_CREATED" THEN n.known \cup {t.identifier} ELSE n.known
           m == [n EXCEPT !.known = K]
           o == Nothing
           yes == TRUE
           s == Outcome(m, o, yes)
           x == UpdateOwners(r, id, t)
<1>1. x = After(r, s)
  BY Zenon DEF UpdateOwners, Then, After
<1>2. /\ Fits(a, {}, {}, {id}) /\ id \in DOMAIN a.terminals.elem
      /\ a.terminals.elem[id].hidden
           <=> DOMAIN a.terminals.elem[id].leafs = {} /\ DOMAIN a.terminals.elem[id].nodes = {}
  BY DEF Half
<1>3. Settled(n)
  BY <1>2, UpdateFits
<1> HIDE DEF n, K
<1>4. IsNode(n)
  BY <1>3 DEF Settled, Fits
<1>5. SameLinks(n, m)
  BY <1>4, KnownSame
<1> HIDE DEF m, o, a, yes
<1>6. Settled(m)
  BY <1>3, <1>5, SameFits DEF Settled
<1>7. s.node = m
  BY OutcomeParts
<1> HIDE DEF s, x
<1>8. x.node = s.node
  BY <1>1, AfterOk
<1>9. Settled(x.node)
  BY <1>6, <1>7, <1>8
<1> QED BY <1>9 DEF x

\* on_terminal_owner_added only sends.
LEMMA OwnerAddedNode ==
    ASSUME NEW r, NEW id, NEW c, NEW own
    PROVE  OwnerAdded(r, id, c, own).node = r.node
<1> DEFINE k == r.node
           s == on_terminal_owner_added(k, id, c, own)
           x == OwnerAdded(r, id, c, own)
<1>1. x = After(r, s)
  BY Zenon DEF OwnerAdded, Then, After
<1>2. PICK out, ok : s = Outcome(k, out, ok)
  BY Zenon DEF on_terminal_owner_added
<1> HIDE DEF s, x
<1>3. s.node = k
  BY <1>2, OutcomeParts
<1>4. x.node = k \/ x.node = s.node
  BY <1>1, AfterParts
<1>5. x.node = k
  BY <1>3, <1>4
<1> QED BY <1>5 DEF x

\* TerminalDescription
LEMMA TerminalDescriptionFits ==
    ASSUME NEW a, Settled(a), NEW c \in Peers, NEW m
    PROVE  Settled(OnTerminalDescription(a, c, m).node)
<1> DEFINE y   == m.identifier
           reg == FindOrInsert(a.terminals, y, NewTerminalInfo(y))
           id  == Find(reg, y)
           t   == reg.elem[id]
           r   == process_rcvd_description(MachineOf(owners(t, c), c), m.own)
           u   == SetOwners(t, c, With(owners(t, c), c, r.fsm))
           n   == [a EXCEPT !.terminals = Put(reg, id, u)]
           fine == r.ok /\ t.state # "AWAIT_ACKS"
           q   == Outcome(n, SendTo(c, Messages("Binding", id, t, r.out)), fine)
           q1  == Announce(q, id, t, c)
           q2  == Bind(q1, id)
           q3  == Establish(q2, id, t, c)
           q4  == UpdateOwners(q3, id, t)
           q5  == OwnerAdded(q4, id, c, m.own)
           p   == OwnerAdded(q, id, c, m.own)
           x   == OnTerminalDescription(a, c, m)
           old == c \in DOMAIN owners(t, c)
<1>1. x = IF Len(r.out) = 2 THEN p ELSE IF old THEN q4 ELSE q5
  BY Zenon DEF OnTerminalDescription
<1>2. IsNode(a) /\ Orderly(a.terminals)
  BY DEF Settled, Fits, IsNode
<1>3. Entered(a.terminals, reg, y, NewTerminalInfo(y), id)
  <2> HIDE DEF y
  <2> QED BY <1>2, NewEntries, EntryFound
<1>4. Half(n, id, {id}) /\ (old => Settled(n))
  <2> DEFINE v == r.fsm
  <2>1. t = reg.elem[id] /\ u = SetOwners(t, c, With(owners(t, c), c, v))
    OBVIOUS
  <2>2. n = [a EXCEPT !.terminals = Put(reg, id, u)]
    OBVIOUS
  <2> HIDE DEF n, u, r, t, v, reg, id, y
  <2>3. TerminalIn(a, n, id, c \in DOMAIN owners(t, c))
    BY <1>3, <2>1, <2>2, TerminalEntered, Zenon
  <2> QED BY <2>3 DEF TerminalIn
<1>5. IsTerminal(t) /\ t.state # "AWAIT_ACKS"
  <2> HIDE DEF reg, id
  <2>1. /\ ~t.hidden
        /\ \/ id \in DOMAIN a.terminals.elem /\ t = a.terminals.elem[id]
           \/ t = NewTerminalInfo(y)
    BY <1>3 DEF Entered
  <2> HIDE DEF t
  <2>2. CASE id \in DOMAIN a.terminals.elem /\ t = a.terminals.elem[id]
    <3>1. IsTerminal(t) /\ OwnedWell(t)
      BY <2>2 DEF Settled, Fits, IsNode
    <3> QED BY <2>1, <3>1, FoundState
  <2>3. CASE t = NewTerminalInfo(y)
    BY <2>3, NewEntries
  <2> QED BY <2>1, <2>2, <2>3
<1>6. ~old => fine /\ Len(r.out) = 1
  <2> SUFFICES ASSUME ~old
               PROVE  fine /\ Len(r.out) = 1
    OBVIOUS
  <2>1. r.ok /\ Len(r.out) = 1
    <3> HIDE DEF t
    <3> QED BY FirstDescription
  <2> QED BY <1>5, <2>1
<1> HIDE DEF n, reg, id, fine, r
<1>7. q.node = n /\ q.ok = fine
  BY OutcomeParts
<1> HIDE DEF q
<1>8. CASE ~q.ok
  <2>1. old /\ Settled(q.node)
    BY <1>4, <1>6, <1>7, <1>8
  <2>2. p = q
    BY <1>8, StepsFail
  <2>3. q1 = q
    BY <1>8, StepsFail
  <2> HIDE DEF q1
  <2>4. q2 = q
    BY <1>8, <2>3, StepsFail
  <2> HIDE DEF q2
  <2>5. q3 = q
    BY <1>8, <2>4, StepsFail
  <2> HIDE DEF q3
  <2>6. q4 = q
    BY <1>8, <2>5, StepsFail
  <2> HIDE DEF q4, q5, p, x, old
  <2>7. x = q
    BY <1>1, <2>1, <2>2, <2>6
  <2>8. Settled(x.node)
    BY <2>1, <2>7
  <2> QED BY <2>8 DEF x
<1>9. CASE q.ok
  <2>1. Half(q1.node, id, {id}) /\ q1.ok
    <3>1. Half(q.node, id, {id})
      BY <1>4, <1>7
    <3> HIDE DEF t
    <3> QED BY <1>5, <1>9, <3>1, AnnounceHalf
  <2> HIDE DEF q1, t
  <2>2. Half(q2.node, id, {}) /\ q2.ok
    BY <2>1, BindHalf
  <2> HIDE DEF q2
  <2>3. Half(q3.node, id, {}) /\ q3.ok
    BY <2>2, EstablishHalf
  <2> HIDE DEF q3
  <2>4. Settled(q4.node)
    BY <2>3, UpdateHalf
  <2> HIDE DEF q4
  <2>5. q5.node = q4.node /\ p.node = q.node
    BY OwnerAddedNode
  <2>6. old => Settled(p.node)
    BY <1>4, <1>7, <2>5
  <2> HIDE DEF p, q5, x, old
  <2>7. Settled(x.node)
    <3>1. CASE x = p /\ Len(r.out) = 2
      <4>1. old
        BY <1>6, <3>1
      <4> QED BY <2>6, <3>1, <4>1
    <3>2. CASE x = q4 \/ x = q5
      BY <2>4, <2>5, <3>2
    <3> QED BY <1>1, <3>1, <3>2
  <2> QED BY <2>7 DEF x
<1> QED BY <1>8, <1>9


----------------------------------------------------------------------------
(* The network.                                                            *)

\* A node stays settled whatever a connection delivers to it.
LEMMA HandlerFits ==
    ASSUME NEW a, Settled(a), NEW c \in Peers, NEW m
    PROVE  Settled(NodeHandler(a, c, m).node)
<1> DEFINE r == NodeHandler(a, c, m)
<1>1. \/ r = OnTerminalDescription(a, c, m)
      \/ r = OnTerminalRemoved(a, c, m)
      \/ r = OnTerminalMapping(a, c, m)
      \/ r = OnTerminalRemovedAck(a, c, m)
      \/ r = OnBindingDescription(a, c, m)
      \/ r = OnBindingRemoved(a, c, m)
      \/ r = OnSubscribe(a, c, m)
      \/ r = OnUnsubscribe(a, c, m)
      \/ r = OnNodeData(a, c, m)
      \/ r = OnNodeScatter(a, c, m)
      \/ r = OnNodeGather(a, c, m)
      \/ r = Failure(a)
  BY Zenon DEF NodeHandler
<1> SUFFICES Settled(r.node)
  OBVIOUS
<1> HIDE DEF r
<1>2. IsNode(a)
  BY DEF Settled, Fits
<1>3. \A b : SameLinks(a, b) => Settled(b)
  BY SameFits DEF Settled
<1>4. CASE r = OnTerminalDescription(a, c, m)
  BY <1>4, TerminalDescriptionFits
<1>5. CASE r = OnTerminalRemoved(a, c, m)
  BY <1>5, RemovedFits
<1>6. CASE r = OnTerminalMapping(a, c, m)
  BY <1>2, <1>3, <1>6, MappingSame
<1>7. CASE r = OnTerminalRemovedAck(a, c, m)
  BY <1>7, RemovedAckFits
<1>8. CASE r = OnBindingDescription(a, c, m)
  BY <1>8, BindingDescriptionFits
<1>9. CASE r = OnBindingRemoved(a, c, m)
  BY <1>9, BindingRemovedFits
<1>10. CASE r = OnSubscribe(a, c, m)
  BY <1>2, <1>3, <1>10, SubscribeSame
<1>11. CASE r = OnUnsubscribe(a, c, m)
  BY <1>2, <1>3, <1>11, UnsubscribeSame
<1>12. CASE r = OnNodeData(a, c, m)
  BY <1>2, <1>3, <1>12, DataSame
<1>13. CASE r = OnNodeScatter(a, c, m)
  BY <1>2, <1>3, <1>13, ScatterSame
<1>14. CASE r = OnNodeGather(a, c, m)
  BY <1>2, <1>3, <1>14, GatherSame
<1>15. CASE r = Failure(a)
  <2>1. r.node = a
    BY <1>15 DEF Failure, Outcome
  <2> QED BY <2>1
<1> QED
  BY <1>1, <1>4, <1>5, <1>6, <1>7, <1>8, <1>9, <1>10, <1>11, <1>12, <1>13, <1>14, <1>15

\* A node with nothing but connections is settled.
LEMMA EmptyFits ==
    ASSUME NEW S
    PROVE  Settled([EmptyNode EXCEPT !.conns = S])
<1> DEFINE e == EmptyRegister
           n == [EmptyNode EXCEPT !.conns = S]
<1>1. n = [terminals |-> e, bindings |-> e, conns |-> S, known |-> {}, ops |-> e]
  BY DEF EmptyNode
<1>2. Orderly(e)
  BY EmptyIsOrderly
<1>3. DOMAIN e.elem = {}
  BY DEF EmptyRegister
<1> HIDE DEF e, n
<1>4. n.terminals = e /\ n.bindings = e
  BY <1>1
<1>5. IsNode(n)
  BY <1>1, <1>2, <1>3 DEF IsNode
<1>6. LinksFit(e.elem, e.elem, {}, {})
  BY <1>3 DEF LinksFit, OneTerminal, OneBinding, TerminalsLinked, BindingsLinked, AllLinked
<1>7. Settled(n)
  BY <1>3, <1>4, <1>5, <1>6 DEF Settled, Fits
<1> QED BY <1>7 DEF n

\* What AssociationsMutual says of a node.
LEMMA SettledMutual ==
    ASSUME NEW a, Settled(a)
    PROVE  LET ts == a.terminals
               bs == a.bindings
           IN  /\ \A id \in DOMAIN ts.elem :
                     LET b == ts.elem[id].binding
                     IN  b # NoId => Used(bs, b) /\ bs.elem[b].terminal = id
               /\ \A b \in DOMAIN bs.elem :
                     LET id == bs.elem[b].terminal
                     IN  /\ Visible(ts, bs.elem[b].identifier) = IF id = NoId THEN {} ELSE {id}
                         /\ id # NoId => ts.elem[id].binding = b
<1> DEFINE T == a.terminals.elem
           B == a.bindings.elem
<1>1. /\ OneTerminal(T) /\ TerminalsLinked(T, B) /\ BindingsLinked(T, B)
      /\ AllLinked(T, B, {}, {}) /\ IsNode(a)
  BY DEF Settled, Fits, LinksFit
<1>2. NoId \notin DOMAIN T /\ NoId \notin DOMAIN B
  BY <1>1, NodeDomains
<1>3. \A x : Visible(a.terminals, x) = {id \in DOMAIN T : ~T[id].hidden /\ T[id].identifier = x}
  BY Zenon DEF Visible
<1>4. ASSUME NEW id \in DOMAIN T, T[id].binding # NoId
      PROVE  Used(a.bindings, T[id].binding) /\ B[T[id].binding].terminal = id
  BY <1>1, <1>4 DEF TerminalsLinked, Used
<1>5. ASSUME NEW b \in DOMAIN B
      PROVE  /\ Visible(a.terminals, B[b].identifier)
                  = IF B[b].terminal = NoId THEN {} ELSE {B[b].terminal}
             /\ B[b].terminal # NoId => T[B[b].terminal].binding = b
  <2> DEFINE i == B[b].terminal
  <2> HIDE DEF T, B
  <2>1. i # NoId => /\ i \in DOMAIN T /\ T[i].binding = b
                    /\ ~T[i].hidden /\ T[i].identifier = B[b].identifier
    <3>1. i # NoId => i \in DOMAIN T /\ T[i].binding = b
      BY <1>1 DEF BindingsLinked
    <3>2. b # NoId
      BY <1>2
    <3> QED BY <1>1, <3>1, <3>2 DEF TerminalsLinked
  <2>2. ASSUME NEW j \in DOMAIN T, ~T[j].hidden, T[j].identifier = B[b].identifier
        PROVE  i # NoId /\ j = i
    <3>1. T[j].binding = b
      BY <1>1, <2>2 DEF AllLinked
    <3> QED BY <1>1, <1>2, <3>1 DEF TerminalsLinked
  <2> QED BY <1>3, <2>1, <2>2
<1> QED BY <1>4, <1>5

\* The inductive invariant: the entries of every node fit together, also after
\* an assertion has failed.
NodesSettled ==
    /\ node = [n \in Nodes |-> node[n]]
    /\ \A n \in Nodes : Settled(node[n])

\* The nodes are settled initially.
LEMMA InitSettled == Init => NodesSettled
<1> SUFFICES ASSUME Init PROVE NodesSettled
  OBVIOUS
<1> DEFINE S(n) == {c \in Peers : <<n, c>> \in Ends}
<1>1. node = [n \in Nodes |-> [EmptyNode EXCEPT !.conns = S(n)]]
  BY Zenon DEF Init
<1>2. \A n \in Nodes : Settled([EmptyNode EXCEPT !.conns = S(n)])
  BY EmptyFits
<1> QED BY Zenon, <1>1, <1>2 DEF NodesSettled

\* What node n has done leaves it settled, and the others alone.
LEMMA NodeDidSettled ==
    ASSUME NodesSettled, NEW n \in Nodes, NEW r, Settled(r.node), NEW box, NodeDid(n, r, box)
    PROVE  NodesSettled'
<1> DEFINE a == r.node
<1>1. node' = [node EXCEPT ![n] = a]
  BY DEF NodeDid
<1> HIDE DEF a
<1>2. node' = [k \in Nodes |-> IF k = n THEN a ELSE node[k]]
  BY <1>1 DEF NodesSettled
<1>3. \A k \in Nodes : Settled(node'[k])
  <2> TAKE k \in Nodes
  <2>1. CASE k = n
    BY <1>2, <2>1 DEF a
  <2>2. CASE k # n
    BY <1>2, <2>2 DEF NodesSettled
  <2> QED BY <2>1, <2>2
<1>4. node' = [k \in Nodes |-> node'[k]]
  BY <1>2
<1> QED BY <1>3, <1>4 DEF NodesSettled

\* No step of a leaf or of a connection touches the nodes.
LEMMA LeafLeavesNodes ==
    ASSUME NEW l \in Leafs, LeafNext(l)
    PROVE  UNCHANGED node
<1>1. ASSUME NEW r, UserDid(l, r)
      PROVE  UNCHANGED node
  BY <1>1 DEF UserDid, LeafDid
<1>2. CASE StartLeaf(l)
  BY Zenon, <1>2 DEF StartLeaf, LeafDid
<1>3. CASE EndLeaf(l)
  BY Zenon, <1>3 DEF EndLeaf, LeafDid
<1>4. CASE ReceiveLeaf(l)
  BY Zenon, <1>4 DEF ReceiveLeaf, LeafDid
<1>5. CASE UserNext(l)
  <2>1. CASE \E x \in TerminalNames[l] : NewTerminal(l, x)
    BY Zenon, <1>1, <2>1 DEF NewTerminal
  <2>2. CASE \E x \in BindingNames[l], b \in Members : NewBinding(l, x, b)
    BY Zenon, <1>1, <2>2 DEF NewBinding
  <2>3. CASE \E s \in Sides : \E id \in DOMAIN leaf[l][s].elem : DestroyObject(l, s, id)
    BY Zenon, <1>1, <2>3 DEF DestroyObject
  <2>4. CASE \E id \in DOMAIN leaf[l]["Terminal"].elem : Publish(l, id) \/ Scatter(l, id)
    BY Zenon, <2>4 DEF Publish, Scatter, LeafDid
  <2>5. CASE \E op \in DOMAIN leaf[l].ops.scatters.elem : CancelScatter(l, op)
    BY Zenon, <1>1, <2>5 DEF CancelScatter
  <2>6. CASE \E key \in leaf[l].ops.open : Respond(l, key)
    BY Zenon, <2>6 DEF Respond, LeafDid
  <2> QED BY Zenon, <1>5, <2>1, <2>2, <2>3, <2>4, <2>5, <2>6 DEF UserNext
<1> QED BY Zenon, <1>2, <1>3, <1>4, <1>5 DEF LeafNext

\* Every step of a node leaves it settled.
LEMMA NodeStepSettled ==
    ASSUME NodesSettled, NEW n \in Nodes, NEW c \in Peers, NodeNext(n, c)
    PROVE  NodesSettled'
<1> DEFINE a == node[n]
<1>1. Settled(a)
  BY DEF NodesSettled
<1>2. CASE StartNode(n, c)
  <2> DEFINE r == connection_started(a, c)
  <2>1. NodeDid(n, r, inbox)
    BY Zenon, <1>2 DEF StartNode
  <2> HIDE DEF a
  <2>2. SameLinks(a, r.node)
    BY <1>1, StartedSame DEF Settled, Fits
  <2> HIDE DEF r
  <2>3. Settled(r.node)
    BY <1>1, <2>2, SameFits DEF Settled
  <2> QED BY <2>1, <2>3, NodeDidSettled
<1>3. CASE EndNode(n, c)
  <2>1. PICK r : /\ r = connection_destroyed(a, c) \/ r = Outcome(a, Nothing, TRUE)
                 /\ NodeDid(n, r, [inbox EXCEPT ![<<n, c>>] = <<>>])
    BY Zenon, <1>3 DEF EndNode
  <2> DEFINE box == [inbox EXCEPT ![<<n, c>>] = <<>>]
  <2>2. NodeDid(n, r, box)
    BY <2>1
  <2> HIDE DEF a, box
  <2>3. CASE r = connection_destroyed(a, c)
    BY <1>1, <2>2, <2>3, DestroyedFits, NodeDidSettled
  <2>4. CASE r = Outcome(a, Nothing, TRUE)
    <3>1. r.node = a
      BY <2>4 DEF Outcome
    <3> QED BY <1>1, <2>2, <3>1, NodeDidSettled
  <2> QED BY <2>1, <2>3, <2>4
<1>4. CASE ReceiveNode(n, c)
  <2> DEFINE m   == Head(inbox[<<n, c>>])
             box == Received(<<n, c>>)
             r   == NodeHandler(a, c, m)
  <2>1. NodeDid(n, r, box)
    BY Zenon, <1>4 DEF ReceiveNode
  <2> HIDE DEF a, m, box
  <2>2. Settled(r.node)
    BY <1>1, HandlerFits
  <2> HIDE DEF r
  <2> QED BY <2>1, <2>2, NodeDidSettled
<1> QED BY <1>2, <1>3, <1>4 DEF NodeNext

\* Every step keeps the invariant.
LEMMA StepSettled == NodesSettled /\ [Next]_vars => NodesSettled'
<1> SUFFICES ASSUME NodesSettled, [Next]_vars PROVE NodesSettled'
  OBVIOUS
<1>1. ASSUME UNCHANGED node PROVE NodesSettled'
  BY <1>1 DEF NodesSettled
<1>2. CASE \E k \in Links : Connect(k)
  BY Zenon, <1>1, <1>2 DEF Connect
<1>3. CASE \E l \in Leafs : LeafNext(l)
  BY <1>1, <1>3, LeafLeavesNodes
<1>4. CASE \E e \in Ends : e[1] \in Nodes /\ NodeNext(e[1], e[2])
  <2>1. PICK e \in Ends : e[1] \in Nodes /\ NodeNext(e[1], e[2])
    BY <1>4
  <2>2. e[2] \in Peers
    BY DEF Ends
  <2> QED BY <2>1, <2>2, NodeStepSettled
<1>5. CASE UNCHANGED vars
  BY <1>1, <1>5 DEF vars
<1> QED BY Zenon, <1>2, <1>3, <1>4, <1>5 DEF Next

\* In every network, whatever its nodes, leafs and links and however its users
\* and connections behave, the terminal and the binding registers of every node
\* point at each other: NodeLogicBaseT::associate and disassociate leave no entry
\* that names one that is gone, and none that is found but not linked.
THEOREM AssociationsAreMutual == Spec => []AssociationsMutual
<1>1. Init => NodesSettled
  BY InitSettled
<1>2. NodesSettled /\ [Next]_vars => NodesSettled'
  BY StepSettled
<1>3. NodesSettled => AssociationsMutual
  BY Zenon, SettledMutual DEF NodesSettled, AssociationsMutual
<1> QED BY <1>1, <1>2, <1>3, PTL DEF Spec
=============================================================================
