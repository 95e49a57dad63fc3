-------------------------- MODULE MappingInvariant --------------------------
(***************************************************************************)
(* What holds between two registers that map to each other over a          *)
(* connection: the terminals of one Leaf and the groups of bindings of the *)
(* other, with the messages that are on their way between them.            *)
(*                                                                         *)
(* The operators describe one end: r are its elements by id and q the      *)
(* messages on their way to it, z and w those of the remote end; s and t   *)
(* are the sides of the two registers, which are how a message tells its   *)
(* addressee from those of other registers.  What is required of an end is *)
(* required of both.  A queue is a sequence or any other function on a     *)
(* finite set of numbers, in whose order its messages were sent.           *)
(***************************************************************************)
EXTENDS LeafLogic

Unconfirmed(e) ==
    e.fsm.state \in {"UNUSED_UNCONFIRMED", "MAPPED_UNCONFIRMED", "AWAIT_CONFIRMATION"}

\* The element is destroyed and its removal has been sent.
Retired(e) == e.fsm.state = "AWAIT_ACK"

----------------------------------------------------------------------------
(* The message at place p of q.                                            *)
Describes(q, s, p, j) == q[p].type = "Description" /\ q[p].to = s /\ q[p].own = j
Maps(q, s, p, i, j)   == q[p].type = "Mapping" /\ q[p].to = s /\ q[p].id = i /\ q[p].own = j
Replies(q, s, p, i)   == q[p].type \in {"Mapping", "Noticed"} /\ q[p].to = s /\ q[p].id = i
Removes(q, s, p, i)   == q[p].type = "Removed" /\ q[p].to = s /\ q[p].id = i
Acks(q, s, p, i)      == q[p].type = "RemovedAck" /\ q[p].to = s /\ q[p].id = i
Speaks(q, s, p, i)    == Replies(q, s, p, i) \/ Removes(q, s, p, i) \/ Acks(q, s, p, i)

\* It shows that the remote object of identifier x is not, or no longer, j.
Marks(r, q, s, p, x, j) ==
    /\ q[p].to = s
    /\ \/ q[p].type = "Description" /\ q[p].identifier = x /\ q[p].own # j
       \/ q[p].type = "Mapping" /\ q[p].own # j /\ r[q[p].id].identifier = x
       \/ q[p].type = "Noticed" /\ r[q[p].id].identifier = x

Places(q) == DOMAIN q

HasDescription(q, s, j) == \E p \in Places(q) : Describes(q, s, p, j)
HasMapping(q, s, i, j)  == \E p \in Places(q) : Maps(q, s, p, i, j)
HasReply(q, s, i)       == \E p \in Places(q) : Replies(q, s, p, i)
Acked(q, s, i)          == \E p \in Places(q) : Acks(q, s, p, i)
Removals(q, s, i)       == Cardinality({p \in Places(q) : Removes(q, s, p, i)})

\* Element i is mapped to j, or will be when it gets the mapping under way.
Holds(r, q, s, i, j) ==
    i \in DOMAIN r /\ j # NoId /\ (r[i].fsm.mapped = j \/ HasMapping(q, s, i, j))

\* How many it holds.
Holdings(r, q, s, i) ==
    LET mapped == r[i].fsm.mapped
    IN  (IF mapped = NoId THEN 0 ELSE 1)
          + (IF \E j \in Nat \ {NoId, mapped} : HasMapping(q, s, i, j) THEN 1 ELSE 0)

\* The remote elements that have still to send a removal to i.
Owing(z, w, t, i) == {j \in DOMAIN z : ~Retired(z[j]) /\ Holds(z, w, t, j, i)}

\* The remote element whose acknowledgement is under way to i.
Acker(r, q, s, i, j) ==
    HasMapping(q, s, i, j) \/ (~HasReply(q, s, i) /\ r[i].fsm.mapped = j)

----------------------------------------------------------------------------
(* Each register by itself.                                                *)

\* What the states mean.
Fit(r) ==
    \A i \in DOMAIN r :
        LET f == r[i].fsm
        IN  /\ r[i].hidden <=> destroyed(f)
            /\ is_mapped(f) => f.mapped # NoId
            /\ f.state \in {"UNUSED_UNCONFIRMED", "UNUSED_CONFIRMED", "AWAIT_REMOVALS"}
                 => f.mapped = NoId

SkipsFit(r) ==
    \A i \in DOMAIN r :
        LET f == r[i].fsm
        IN  /\ f.state = "UNUSED_UNCONFIRMED" => f.skip = 0
            /\ f.state \in {"AWAIT_CONFIRMATION", "AWAIT_ACK"} /\ f.mapped = NoId => f.skip = 0
            /\ f.state = "AWAIT_REMOVALS" => f.skip # 0

OneVisible(r) ==
    \A i, k \in DOMAIN r :
        ~r[i].hidden /\ ~r[k].hidden /\ r[i].identifier = r[k].identifier => i = k

----------------------------------------------------------------------------
(* Descriptions and replies.                                               *)

\* A description under way is that of an unconfirmed element without a reply.
DescriptionsPending(r, q, w, s, t) ==
    \A p \in Places(w) : w[p].type = "Description" /\ w[p].to = t =>
        /\ w[p].own \in DOMAIN r /\ Unconfirmed(r[w[p].own])
        /\ w[p].identifier = r[w[p].own].identifier
        /\ ~HasReply(q, s, w[p].own)

\* A reply under way is to an unconfirmed element.
RepliesPending(r, q, s) ==
    \A p \in Places(q) : q[p].type \in {"Mapping", "Noticed"} /\ q[p].to = s =>
        /\ q[p].id \in DOMAIN r /\ Unconfirmed(r[q[p].id])
        /\ q[p].type = "Mapping" => q[p].own \in Nat \ {NoId}

\* An unconfirmed element will get a reply.
ReplyComing(r, q, w, s, t) ==
    \A i \in DOMAIN r : Unconfirmed(r[i]) => HasDescription(w, t, i) \/ HasReply(q, s, i)

\* Nothing is described or replied to twice.
Once(r, q, w, s, t) ==
    \A i \in DOMAIN r :
        /\ \A p, k \in Places(w) : Describes(w, t, p, i) /\ Describes(w, t, k, i) => p = k
        /\ \A p, k \in Places(q) : Replies(q, s, p, i) /\ Replies(q, s, k, i) => p = k

\* Of an element whose description is under way the remote end knows nothing.
Unknown(r, q, z, w, s, t) ==
    \A i \in DOMAIN r, p \in Places(w) : Describes(w, t, p, i) =>
        /\ \A k \in Places(q) : ~Speaks(q, s, k, i)
        /\ \A j \in DOMAIN z : z[j].fsm.mapped = i => Retired(z[j]) /\ Acked(w, t, j)
        /\ \A k \in Places(w), j \in DOMAIN z : Maps(w, t, k, j, i) => p < k

\* The reply comes before anything else.
RepliesFirst(r, q, s) ==
    \A i \in DOMAIN r : \A p, k \in Places(q) :
        Replies(q, s, p, i) /\ (Removes(q, s, k, i) \/ Acks(q, s, k, i)) => p < k

----------------------------------------------------------------------------
(* Mappings and removals.                                                  *)

\* Whatever is spoken of exists.
AddresseesLive(r, q, s) ==
    \A p \in Places(q) :
        q[p].type \in {"Mapping", "Noticed", "Removed", "RemovedAck"} /\ q[p].to = s
          => q[p].id \in DOMAIN r

PartnersLive(r, z, w, t) ==
    \A j \in DOMAIN z, i \in Nat : ~Retired(z[j]) /\ Holds(z, w, t, j, i) =>
        i \in DOMAIN r /\ r[i].identifier = z[j].identifier

\* Two elements hold each other unless one of them has acknowledged.
Mutual(r, q, z, w, s, t) ==
    \A i \in DOMAIN r, j \in Nat : Holds(r, q, s, i, j) =>
        ((j \in DOMAIN z /\ Holds(z, w, t, j, i) /\ r[i].identifier = z[j].identifier)
            <=> ~(Acked(q, s, i) /\ Acker(r, q, s, i, j)))

\* Both have been destroyed and i has still to get the removal of the remote one.
Crossed(r, q, z, w, s, t, i) ==
    LET j == r[i].fsm.mapped
    IN  j \in DOMAIN z /\ Retired(z[j]) /\ z[j].fsm.mapped = NoId /\ ~Acked(w, t, j)

AckedEarly(r, q, s, i) ==
    Removals(q, s, i) + 1 = r[i].fsm.skip + Holdings(r, q, s, i)

AckedLate(r, q, z, w, s, t, i) ==
    /\ Removals(q, s, i) = r[i].fsm.skip + Holdings(r, q, s, i)
    /\ Retired(r[i])
    /\ r[i].fsm.mapped # NoId => Crossed(r, q, z, w, s, t, i)

\* The removals that are under way and those that are to come are the ones to
\* skip and the ones that end what the element holds.
Counted(r, q, z, w, s, t) ==
    \A i \in DOMAIN r :
        IF ~Acked(q, s, i)
        THEN Removals(q, s, i) + Cardinality(Owing(z, w, t, i))
               = r[i].fsm.skip + Holdings(r, q, s, i)
        ELSE /\ \A p, k \in Places(q) : Acks(q, s, p, i) /\ Speaks(q, s, k, i) => k <= p
             /\ r[i].fsm.state \in {"AWAIT_CONFIRMATION", "AWAIT_ACK"}
             /\ Owing(z, w, t, i) = {}
             /\ AckedEarly(r, q, s, i) \/ AckedLate(r, q, z, w, s, t, i)

CrossedOnce(r, q, z, w, s, t) ==
    \A i, k \in DOMAIN r :
        /\ Acked(q, s, i) /\ AckedLate(r, q, z, w, s, t, i)
        /\ Acked(q, s, k) /\ AckedLate(r, q, z, w, s, t, k)
        /\ r[i].fsm.mapped # NoId /\ r[k].fsm.mapped = r[i].fsm.mapped
        => i = k

CrossedKnown(r, q, z, w, s, t) ==
    \A j \in DOMAIN z : Retired(z[j]) /\ z[j].fsm.mapped = NoId /\ ~Acked(w, t, j) =>
        \E i \in DOMAIN r : /\ Acked(q, s, i) /\ r[i].fsm.mapped = j
                            /\ AckedLate(r, q, z, w, s, t, i)

----------------------------------------------------------------------------
(* The order in which the objects of one identifier followed each other.   *)

\* A message about another object than the visible one precedes its description.
LatestFollows(r, q, z, s) ==
    \A j \in DOMAIN z, p \in Places(q) :
        ~z[j].hidden /\ Marks(r, q, s, p, z[j].identifier, j) =>
            \E k \in Places(q) : p < k /\ Describes(q, s, k, j)

\* So it is for mappings.
MappingsFollow(r, q, z, s) ==
    \A j \in DOMAIN z, p, k \in Places(q) :
        /\ p < k /\ Marks(r, q, s, p, z[j].identifier, j)
        /\ q[k].type = "Mapping" /\ q[k].to = s /\ q[k].own = j
        => \E n \in Places(q) : p < n /\ n < k /\ Describes(q, s, n, j)

\* The visible object of the identifier that replaced the mapped one is described.
NewerDescribed(r, q, z, s) ==
    \A i \in DOMAIN r, j \in DOMAIN z :
        /\ is_mapped(r[i].fsm) /\ r[i].fsm.mapped # j
        /\ ~z[j].hidden /\ r[i].identifier = z[j].identifier
        => HasDescription(q, s, j)

NewerFirst(r, q, s) ==
    \A i \in DOMAIN r, k \in Places(q) :
        /\ r[i].fsm.state = "MAPPED_UNCONFIRMED"
        /\ q[k].type = "Mapping" /\ q[k].to = s /\ q[k].id = i /\ q[k].own # r[i].fsm.mapped
        => \E p \in Places(q) : p < k /\ Describes(q, s, p, q[k].own)

\* Replies come in the order of the descriptions.
RepliesInOrder(r, q, w, s, t) ==
    \A i, k \in DOMAIN r, p \in Places(q) :
        /\ i # k /\ ~r[i].hidden /\ Unconfirmed(r[k]) /\ r[i].identifier = r[k].identifier
        /\ Replies(q, s, p, k)
        => HasDescription(w, t, i) \/ \E n \in Places(q) : p < n /\ Replies(q, s, n, i)

\* An element that has left k for i sends the removal of i after the reply to k.
RemovalsInOrder(r, q, z, w, s, t) ==
    \A i, k \in DOMAIN r, j \in DOMAIN z, p, n \in Places(q) :
        /\ i # k /\ Holds(z, w, t, j, i) /\ Unconfirmed(r[k])
        /\ \/ Acked(q, s, k) /\ Acker(r, q, s, k, j)
           \/ Holds(r, q, s, k, j) /\ z[j].fsm.mapped = k /\ HasMapping(w, t, j, i)
        /\ Removes(q, s, p, i) /\ Replies(q, s, n, k)
        => n < p

OneCandidate(r) ==
    \A i, k \in DOMAIN r :
        /\ Unconfirmed(r[i]) /\ Unconfirmed(r[k])
        /\ r[i].fsm.mapped # NoId /\ r[i].fsm.mapped = r[k].fsm.mapped
        => i = k

NoticedUnacked(q, s) ==
    \A p \in Places(q) : q[p].type = "Noticed" /\ q[p].to = s => ~Acked(q, s, q[p].id)

CandidatesTold(r, z, w, t) ==
    \A i \in DOMAIN r, j \in DOMAIN z :
        r[i].fsm.mapped = j /\ Unconfirmed(r[i]) /\ Unconfirmed(z[j]) => HasMapping(w, t, j, i)

PartnersMeet(r, q, z, w, s, t) ==
    \A i \in DOMAIN r, j \in DOMAIN z :
        ~r[i].hidden /\ ~z[j].hidden /\ r[i].identifier = z[j].identifier
        => HasDescription(w, t, i) \/ HasDescription(q, s, j) \/ Holds(r, q, s, i, j)

----------------------------------------------------------------------------
(* All of it.                                                              *)

\* Nothing but the kinds of the values.
Typed(r) ==
    /\ IsFiniteSet(DOMAIN r) /\ DOMAIN r \subseteq Nat \ {NoId}
    /\ \A i \in DOMAIN r :
          /\ r[i].fsm.skip \in Nat /\ r[i].fsm.mapped \in Nat
          /\ r[i].fsm.state \in States

Queue(q) == IsFiniteSet(Places(q)) /\ Places(q) \subseteq Nat

Ordered(r, q, z, w, s, t) ==
    /\ LatestFollows(r, q, z, s) /\ MappingsFollow(r, q, z, s)
    /\ NewerDescribed(r, q, z, s) /\ NewerFirst(r, q, s)
    /\ RepliesInOrder(r, q, w, s, t) /\ RemovalsInOrder(r, q, z, w, s, t)

Linked(r, q, z, w, s, t) ==
    /\ AddresseesLive(r, q, s) /\ PartnersLive(r, z, w, t)
    /\ Mutual(r, q, z, w, s, t) /\ Counted(r, q, z, w, s, t)
    /\ CrossedOnce(r, q, z, w, s, t) /\ CrossedKnown(r, q, z, w, s, t)
    /\ OneCandidate(r) /\ NoticedUnacked(q, s) /\ CandidatesTold(r, z, w, t)
    /\ PartnersMeet(r, q, z, w, s, t)

Replied(r, q, z, w, s, t) ==
    /\ DescriptionsPending(r, q, w, s, t) /\ RepliesPending(r, q, s)
    /\ ReplyComing(r, q, w, s, t) /\ Once(r, q, w, s, t)
    /\ Unknown(r, q, z, w, s, t) /\ RepliesFirst(r, q, s)

\* One end.
End(r, q, z, w, s, t) ==
    /\ Typed(r) /\ Queue(q) /\ Fit(r) /\ OneVisible(r)
    /\ Replied(r, q, z, w, s, t) /\ Linked(r, q, z, w, s, t) /\ Ordered(r, q, z, w, s, t)

Pair(r, q, z, w, s, t) == End(r, q, z, w, s, t) /\ End(z, w, r, q, t, s)
=============================================================================
