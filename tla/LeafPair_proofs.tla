-------------------------- MODULE LeafPair_proofs ---------------------------
(***************************************************************************)
(* What holds of two connected Leafs for every number of identifiers,      *)
(* bindings, ids, messages and connections.                                *)
(*                                                                         *)
(* The first part is about a Leaf whatever its peer sends: its types, the  *)
(* ids of its registers and the states of its bindings.                    *)
(*                                                                         *)
(* The second part is about the two of them, that they keep track of each  *)
(* other's terminals and bindings: the assertions of MappedObjectFsm and   *)
(* LeafLogicBaseT hold, no mapping is stale and once all messages are      *)
(* handled both ends agree.  MappingInvariant says what holds between two  *)
(* registers that map to each other, MappingInvariant_proofs that every    *)
(* event at one of them keeps it.  Here the two registers are found in the *)
(* states of LeafPair: the terminals of each Leaf and the groups of        *)
(* bindings of the other, with the messages to either in its inbox.        *)
(***************************************************************************)
EXTENDS LeafPair, MappingInvariant_proofs, Integers, FiniteSetTheorems, SequenceTheorems, TLAPS

----------------------------------------------------------------------------
(* The steps of the state machine.                                         *)

Outs    == [type : {"Description", "Mapping", "Removed", "RemovedAck"}, id : Nat]
Changes == {<<>>, <<TRUE>>, <<FALSE>>, <<FALSE, TRUE>>}

FsmSteps == [fsm : Fsm, out : Seq(Outs), changes : Changes, alive : BOOLEAN, ok : BOOLEAN]

\* The last call of the callback tells whether the machine is mapped now; a step
\* without a call does not change it.
Tells(f, r) ==
    \/ r.changes = <<>> /\ (is_mapped(r.fsm) <=> is_mapped(f))
    \/ r.changes \in {<<TRUE>>, <<FALSE, TRUE>>} /\ is_mapped(r.fsm)
    \/ r.changes = <<FALSE>> /\ ~is_mapped(r.fsm)

Legal(f, r) == r \in FsmSteps /\ Tells(f, r)

\* The three kinds of step that leave the machine alive.
LEMMA StepMaps ==
    ASSUME NEW f \in Fsm, NEW g \in Fsm, NEW out \in Seq(Outs),
           NEW c \in {<<TRUE>>, <<FALSE, TRUE>>}, is_mapped(g)
    PROVE  Legal(f, Step(g, out, c))
<1>1. Step(g, out, c) \in FsmSteps
  BY DEF Step, FsmSteps, Changes
<1>2. Step(g, out, c).changes = c /\ Step(g, out, c).fsm = g
  BY DEF Step
<1> QED BY <1>1, <1>2, Zenon DEF Legal, Tells

\* A step after which the object is no longer mapped.
LEMMA StepUnmaps ==
    ASSUME NEW f \in Fsm, NEW g \in Fsm, NEW out \in Seq(Outs), ~is_mapped(g)
    PROVE  Legal(f, Step(g, out, <<FALSE>>))
<1>1. Step(g, out, <<FALSE>>) \in FsmSteps
  BY DEF Step, FsmSteps, Changes
<1>2. Step(g, out, <<FALSE>>).changes = <<FALSE>> /\ Step(g, out, <<FALSE>>).fsm = g
  BY DEF Step
<1> QED BY <1>1, <1>2, Zenon DEF Legal, Tells

\* A step that leaves it mapped or unmapped, as it was.
LEMMA StepQuiet ==
    ASSUME NEW f \in Fsm, NEW g \in Fsm, NEW out \in Seq(Outs), (is_mapped(g) <=> is_mapped(f))
    PROVE  Legal(f, Step(g, out, <<>>))
<1>1. Step(g, out, <<>>) \in FsmSteps
  BY DEF Step, FsmSteps, Changes
<1>2. Step(g, out, <<>>).changes = <<>> /\ Step(g, out, <<>>).fsm = g
  BY DEF Step
<1> QED BY <1>1, <1>2, Zenon DEF Legal, Tells

\* And the two that end it.
LEMMA StepEnds ==
    ASSUME NEW f \in Fsm
    PROVE  Legal(f, Dead(f)) /\ Legal(f, NeverReached(f))
<1>1. Dead(f) \in FsmSteps /\ NeverReached(f) \in FsmSteps
  <2>1. <<>> \in Changes /\ <<>> \in Seq(Outs)
    BY DEF Changes
  <2> QED BY <2>1 DEF Dead, NeverReached, FsmSteps
<1>2. /\ Dead(f).changes = <<>> /\ Dead(f).fsm = f
      /\ NeverReached(f).changes = <<>> /\ NeverReached(f).fsm = f
  BY DEF Dead, NeverReached
<1> QED BY <1>1, <1>2, Zenon DEF Legal, Tells

\* To skip one more removal is a step inside the type.
LEMMA SkipOneMoreType ==
    ASSUME NEW f \in Fsm
    PROVE  SkipOneMore(f) \in Fsm /\ (is_mapped(SkipOneMore(f)) <=> is_mapped(f))
BY DEF Fsm, SkipOneMore, is_mapped

\* The outcomes of a machine are of their type.
LEMMA OutsType ==
    /\ <<>> \in Seq(Outs)
    /\ \A t \in {"Description", "Mapping", "Removed", "RemovedAck"}, a \in Nat :
           <<Out(t, a)>> \in Seq(Outs)
    /\ \A t, u \in {"Mapping", "Removed", "RemovedAck"}, a, b \in Nat :
           <<Out(t, a), Out(u, b)>> \in Seq(Outs)
BY DEF Out, Outs

\* Every case of on_binding_description_received is a step of the machine.
LEMMA DescriptionSteps ==
    ASSUME NEW f \in Fsm, NEW id \in Nat
    PROVE  Legal(f, process_rcvd_description(f, id))
<1>1. CASE f.state = "UNUSED_UNCONFIRMED"
  <2>1. process_rcvd_description(f, id)
          = Step(MapTo(f, "MAPPED_UNCONFIRMED", id), <<Out("Mapping", id)>>, <<TRUE>>)
    BY <1>1 DEF process_rcvd_description, Fsm, States, is_mapped, destroyed
  <2>2. MapTo(f, "MAPPED_UNCONFIRMED", id) \in Fsm /\ is_mapped(MapTo(f, "MAPPED_UNCONFIRMED", id))
    BY <1>1 DEF Fsm, States, is_mapped, To, MapTo
  <2>3. <<Out("Mapping", id)>> \in Seq(Outs)
    BY OutsType DEF Fsm
  <2> QED BY <2>1, <2>2, <2>3, StepMaps
<1>2. CASE f.state = "UNUSED_CONFIRMED"
  <2>1. process_rcvd_description(f, id)
          = Step(MapTo(f, "MAPPED_CONFIRMED", id), <<Out("Mapping", id)>>, <<TRUE>>)
    BY <1>2 DEF process_rcvd_description, Fsm, States, is_mapped, destroyed
  <2>2. MapTo(f, "MAPPED_CONFIRMED", id) \in Fsm /\ is_mapped(MapTo(f, "MAPPED_CONFIRMED", id))
    BY <1>2 DEF Fsm, States, is_mapped, To, MapTo
  <2>3. <<Out("Mapping", id)>> \in Seq(Outs)
    BY OutsType DEF Fsm
  <2> QED BY <2>1, <2>2, <2>3, StepMaps
<1>3. CASE is_mapped(f)
  <2>1. process_rcvd_description(f, id)
          = Step(SkipOneMore(MapTo(f, f.state, id)),
              <<Out("RemovedAck", f.mapped), Out("Mapping", id)>>, <<FALSE, TRUE>>)
    BY <1>3 DEF process_rcvd_description, Fsm, States, is_mapped, destroyed
  <2>2. MapTo(f, f.state, id) \in Fsm /\ is_mapped(MapTo(f, f.state, id))
    BY <1>3 DEF Fsm, States, is_mapped, MapTo
  <2>3. SkipOneMore(MapTo(f, f.state, id)) \in Fsm /\ is_mapped(SkipOneMore(MapTo(f, f.state, id)))
    BY <2>2, SkipOneMoreType
  <2>4. <<Out("RemovedAck", f.mapped), Out("Mapping", id)>> \in Seq(Outs)
    BY OutsType DEF Fsm
  <2> QED BY <2>1, <2>3, <2>4, StepMaps
<1>4. CASE destroyed(f)
  <2>1. process_rcvd_description(f, id)
          = NeverReached(f)
    BY <1>4 DEF process_rcvd_description, Fsm, States, is_mapped, destroyed
  <2> QED BY <2>1, StepEnds
<1> QED BY <1>1, <1>2, <1>3, <1>4 DEF Fsm, States, is_mapped, destroyed

\* Every case of on_binding_mapping_received is one.
LEMMA MappingSteps ==
    ASSUME NEW f \in Fsm, NEW id \in Nat
    PROVE  Legal(f, process_rcvd_mapping(f, id))
<1>1. CASE f.state = "UNUSED_UNCONFIRMED"
  <2>1. process_rcvd_mapping(f, id)
          = Step(MapTo(f, "MAPPED_CONFIRMED", id), <<>>, <<TRUE>>)
    BY <1>1 DEF process_rcvd_mapping, Fsm, States, is_mapped, destroyed, Asserting
  <2>2. MapTo(f, "MAPPED_CONFIRMED", id) \in Fsm /\ is_mapped(MapTo(f, "MAPPED_CONFIRMED", id))
    BY <1>1 DEF Fsm, States, is_mapped, To, MapTo
  <2>3. <<>> \in Seq(Outs)
    BY OutsType DEF Fsm
  <2> QED BY <2>1, <2>2, <2>3, StepMaps
<1>2. CASE f.state = "MAPPED_UNCONFIRMED" /\ id = f.mapped
  <2>1. process_rcvd_mapping(f, id)
          = Step(To(f, "MAPPED_CONFIRMED"), <<>>, <<>>)
    BY <1>2 DEF process_rcvd_mapping, Fsm, States, is_mapped, destroyed, Asserting
  <2>2. To(f, "MAPPED_CONFIRMED") \in Fsm /\ (is_mapped(To(f, "MAPPED_CONFIRMED")) <=> is_mapped(f))
    BY <1>2 DEF Fsm, States, is_mapped, To
  <2>3. <<>> \in Seq(Outs)
    BY OutsType DEF Fsm
  <2> QED BY <2>1, <2>2, <2>3, StepQuiet
<1>3. CASE f.state = "AWAIT_CONFIRMATION" /\ f.mapped \in {NoId, id}
  <2>1. process_rcvd_mapping(f, id)
          = Step(MapTo(f, "AWAIT_ACK", id), <<Out("Removed", id)>>, <<>>)
    BY <1>3 DEF process_rcvd_mapping, Fsm, States, is_mapped, destroyed, Asserting
  <2>2. MapTo(f, "AWAIT_ACK", id) \in Fsm /\ (is_mapped(MapTo(f, "AWAIT_ACK", id)) <=> is_mapped(f))
    BY <1>3 DEF Fsm, States, is_mapped, To, MapTo
  <2>3. <<Out("Removed", id)>> \in Seq(Outs)
    BY OutsType DEF Fsm
  <2> QED BY <2>1, <2>2, <2>3, StepQuiet
<1>4. CASE f.state = "AWAIT_CONFIRMATION" /\ f.mapped \notin {NoId, id}
  <2>1. process_rcvd_mapping(f, id)
          = Step(SkipOneMore(MapTo(f, "AWAIT_ACK", id)),
              <<Out("RemovedAck", f.mapped), Out("Removed", id)>>, <<>>)
    BY <1>4 DEF process_rcvd_mapping, Fsm, States, is_mapped, destroyed, Asserting
  <2>2. MapTo(f, "AWAIT_ACK", id) \in Fsm /\ (is_mapped(MapTo(f, "AWAIT_ACK", id)) <=> is_mapped(f))
    BY <1>4 DEF Fsm, States, is_mapped, MapTo
  <2>3. SkipOneMore(MapTo(f, "AWAIT_ACK", id)) \in Fsm
           /\ (is_mapped(SkipOneMore(MapTo(f, "AWAIT_ACK", id))) <=> is_mapped(f))
    BY <2>2, SkipOneMoreType
  <2>4. <<Out("RemovedAck", f.mapped), Out("Removed", id)>> \in Seq(Outs)
    BY OutsType DEF Fsm
  <2> QED BY <2>1, <2>3, <2>4, StepQuiet
<1>5. CASE \/ f.state \notin {"UNUSED_UNCONFIRMED", "MAPPED_UNCONFIRMED", "AWAIT_CONFIRMATION"}
           \/ f.state = "MAPPED_UNCONFIRMED" /\ id # f.mapped
  <2>1. process_rcvd_mapping(f, id)
          = NeverReached(f)
    BY <1>5 DEF process_rcvd_mapping, Fsm, States, is_mapped, destroyed, Asserting
  <2> QED BY <2>1, StepEnds
<1> QED BY <1>1, <1>2, <1>3, <1>4, <1>5 DEF Fsm, States, is_mapped, destroyed

\* Every case of on_binding_noticed_received is one.
LEMMA NoticedSteps ==
    ASSUME NEW f \in Fsm
    PROVE  Legal(f, process_rcvd_noticed(f))
<1>1. CASE f.state = "UNUSED_UNCONFIRMED"
  <2>1. process_rcvd_noticed(f)
          = Step(To(f, "UNUSED_CONFIRMED"), <<>>, <<>>)
    BY <1>1 DEF process_rcvd_noticed, Fsm, States, is_mapped, destroyed
  <2>2. To(f, "UNUSED_CONFIRMED") \in Fsm /\ (is_mapped(To(f, "UNUSED_CONFIRMED")) <=> is_mapped(f))
    BY <1>1 DEF Fsm, States, is_mapped, To
  <2>3. <<>> \in Seq(Outs)
    BY OutsType DEF Fsm
  <2> QED BY <2>1, <2>2, <2>3, StepQuiet
<1>2. CASE f.state = "MAPPED_UNCONFIRMED"
  <2>1. process_rcvd_noticed(f)
          = Step(SkipOneMore(MapTo(f, "UNUSED_CONFIRMED", NoId)), <<Out("RemovedAck", f.mapped)>>,
              <<FALSE>>)
    BY <1>2 DEF process_rcvd_noticed, Fsm, States, is_mapped, destroyed
  <2>2. MapTo(f, "UNUSED_CONFIRMED", NoId) \in Fsm /\ ~is_mapped(MapTo(f, "UNUSED_CONFIRMED", NoId))
    BY <1>2 DEF Fsm, States, is_mapped, MapTo, NoId
  <2>3. SkipOneMore(MapTo(f, "UNUSED_CONFIRMED", NoId)) \in Fsm
           /\ ~is_mapped(SkipOneMore(MapTo(f, "UNUSED_CONFIRMED", NoId)))
    BY <2>2, SkipOneMoreType
  <2>4. <<Out("RemovedAck", f.mapped)>> \in Seq(Outs)
    BY OutsType DEF Fsm
  <2> QED BY <2>1, <2>3, <2>4, StepUnmaps
<1>3. CASE f.state = "AWAIT_CONFIRMATION" /\ f.mapped # NoId
  <2>1. process_rcvd_noticed(f)
          = Step(SkipOneMore(MapTo(f, "AWAIT_REMOVALS", NoId)), <<Out("RemovedAck", f.mapped)>>,
              <<>>)
    BY <1>3 DEF process_rcvd_noticed, Fsm, States, is_mapped, destroyed
  <2>2. MapTo(f, "AWAIT_REMOVALS", NoId) \in Fsm
           /\ (is_mapped(MapTo(f, "AWAIT_REMOVALS", NoId)) <=> is_mapped(f))
    BY <1>3 DEF Fsm, States, is_mapped, MapTo, NoId
  <2>3. SkipOneMore(MapTo(f, "AWAIT_REMOVALS", NoId)) \in Fsm
           /\ (is_mapped(SkipOneMore(MapTo(f, "AWAIT_REMOVALS", NoId))) <=> is_mapped(f))
    BY <2>2, SkipOneMoreType
  <2>4. <<Out("RemovedAck", f.mapped)>> \in Seq(Outs)
    BY OutsType DEF Fsm
  <2> QED BY <2>1, <2>3, <2>4, StepQuiet
<1>4. CASE f.state = "AWAIT_CONFIRMATION" /\ f.mapped = NoId
  <2>1. process_rcvd_noticed(f)
          = Dead(f)
    BY <1>4 DEF process_rcvd_noticed, Fsm, States, is_mapped, destroyed
  <2> QED BY <2>1, StepEnds
<1>5. CASE f.state \notin {"UNUSED_UNCONFIRMED", "MAPPED_UNCONFIRMED", "AWAIT_CONFIRMATION"}
  <2>1. process_rcvd_noticed(f)
          = NeverReached(f)
    BY <1>5 DEF process_rcvd_noticed, Fsm, States, is_mapped, destroyed
  <2> QED BY <2>1, StepEnds
<1> QED BY <1>1, <1>2, <1>3, <1>4, <1>5 DEF Fsm, States, is_mapped, destroyed

\* Every case of on_binding_removed_received is one.
LEMMA RemovedSteps ==
    ASSUME NEW f \in Fsm
    PROVE  Legal(f, process_rcvd_removed(f))
<1>1. CASE f.state \in {"UNUSED_CONFIRMED", "MAPPED_CONFIRMED"} /\ f.skip > 0
  <2>1. process_rcvd_removed(f)
          = Step(SkipOne(f), <<>>, <<>>)
    BY <1>1 DEF process_rcvd_removed, Fsm, States, is_mapped, destroyed, Asserting
  <2>2. SkipOne(f) \in Fsm /\ (is_mapped(SkipOne(f)) <=> is_mapped(f))
    BY <1>1 DEF Fsm, States, is_mapped, SkipOne
  <2>3. <<>> \in Seq(Outs)
    BY OutsType DEF Fsm
  <2> QED BY <2>1, <2>2, <2>3, StepQuiet
<1>2. CASE f.state = "MAPPED_CONFIRMED" /\ f.skip = 0
  <2>1. process_rcvd_removed(f)
          = Step(MapTo(f, "UNUSED_CONFIRMED", NoId), <<Out("RemovedAck", f.mapped)>>, <<FALSE>>)
    BY <1>2 DEF process_rcvd_removed, Fsm, States, is_mapped, destroyed, Asserting
  <2>2. MapTo(f, "UNUSED_CONFIRMED", NoId) \in Fsm /\ ~is_mapped(MapTo(f, "UNUSED_CONFIRMED", NoId))
    BY <1>2 DEF Fsm, States, is_mapped, To, MapTo, NoId
  <2>3. <<Out("RemovedAck", f.mapped)>> \in Seq(Outs)
    BY OutsType DEF Fsm
  <2> QED BY <2>1, <2>2, <2>3, StepUnmaps
<1>3. CASE f.state = "AWAIT_ACK" /\ f.mapped # NoId /\ f.skip > 0
  <2>1. process_rcvd_removed(f)
          = Step(SkipOne(f), <<>>, <<>>)
    BY <1>3 DEF process_rcvd_removed, Fsm, States, is_mapped, destroyed, Asserting
  <2>2. SkipOne(f) \in Fsm /\ (is_mapped(SkipOne(f)) <=> is_mapped(f))
    BY <1>3 DEF Fsm, States, is_mapped, SkipOne
  <2>3. <<>> \in Seq(Outs)
    BY OutsType DEF Fsm
  <2> QED BY <2>1, <2>2, <2>3, StepQuiet
<1>4. CASE f.state = "AWAIT_ACK" /\ f.mapped # NoId /\ f.skip = 0
  <2>1. process_rcvd_removed(f)
          = Step(MapTo(f, "AWAIT_ACK", NoId), <<Out("RemovedAck", f.mapped)>>, <<>>)
    BY <1>4 DEF process_rcvd_removed, Fsm, States, is_mapped, destroyed, Asserting
  <2>2. MapTo(f, "AWAIT_ACK", NoId) \in Fsm
           /\ (is_mapped(MapTo(f, "AWAIT_ACK", NoId)) <=> is_mapped(f))
    BY <1>4 DEF Fsm, States, is_mapped, To, MapTo, NoId
  <2>3. <<Out("RemovedAck", f.mapped)>> \in Seq(Outs)
    BY OutsType DEF Fsm
  <2> QED BY <2>1, <2>2, <2>3, StepQuiet
<1>5. CASE f.state = "AWAIT_REMOVALS" /\ f.skip > 1
  <2>1. process_rcvd_removed(f)
          = Step(SkipOne(f), <<>>, <<>>)
    BY <1>5 DEF process_rcvd_removed, Fsm, States, is_mapped, destroyed, Asserting
  <2>2. SkipOne(f) \in Fsm /\ (is_mapped(SkipOne(f)) <=> is_mapped(f))
    BY <1>5 DEF Fsm, States, is_mapped, SkipOne
  <2>3. <<>> \in Seq(Outs)
    BY OutsType DEF Fsm
  <2> QED BY <2>1, <2>2, <2>3, StepQuiet
<1>6. CASE f.state = "AWAIT_REMOVALS" /\ f.skip = 1
  <2>1. process_rcvd_removed(f)
          = Dead(f)
    BY <1>6 DEF process_rcvd_removed, Fsm, States, is_mapped, destroyed, Asserting
  <2> QED BY <2>1, StepEnds
<1>7. CASE \/ f.state \in {"UNUSED_UNCONFIRMED", "MAPPED_UNCONFIRMED", "AWAIT_CONFIRMATION"}
           \/ f.state \in {"UNUSED_CONFIRMED", "AWAIT_REMOVALS"} /\ f.skip = 0
           \/ f.state = "AWAIT_ACK" /\ f.mapped = NoId
  <2>1. process_rcvd_removed(f)
          = NeverReached(f)
    BY <1>7 DEF process_rcvd_removed, Fsm, States, is_mapped, destroyed, Asserting
  <2> QED BY <2>1, StepEnds
<1> QED BY <1>1, <1>2, <1>3, <1>4, <1>5, <1>6, <1>7 DEF Fsm, States, is_mapped, destroyed

\* Every case of on_binding_removed_ack_received is one.
LEMMA RemovedAckSteps ==
    ASSUME NEW f \in Fsm
    PROVE  Legal(f, process_rcvd_removed_ack(f))
<1>1. CASE f.state = "AWAIT_ACK" /\ f.skip = 0
  <2>1. process_rcvd_removed_ack(f)
          = Dead(f)
    BY <1>1 DEF process_rcvd_removed_ack, Fsm, States, is_mapped, destroyed, Asserting
  <2> QED BY <2>1, StepEnds
<1>2. CASE f.state # "AWAIT_ACK" \/ f.skip # 0
  <2>1. process_rcvd_removed_ack(f)
          = NeverReached(f)
    BY <1>2 DEF process_rcvd_removed_ack, Fsm, States, is_mapped, destroyed, Asserting
  <2> QED BY <2>1, StepEnds
<1> QED BY <1>1, <1>2 DEF Fsm, States, is_mapped, destroyed

----------------------------------------------------------------------------
(* The registers.                                                          *)

\* No id is twice on the stack or on the stack and in use, and none is lost.
Conserved(r) ==
    /\ \A i, j \in 1..Len(r.free) : r.free[i] = r.free[j] => i = j
    /\ FreeIds(r) \cap DOMAIN r.elem = {}
    /\ DOMAIN r.elem \cup FreeIds(r) = 1..r.size

Sound(r) == IsRegister(r, Entry) /\ Conserved(r)

\* The ids in use are finitely many.
LEMMA FiniteDomain ==
    ASSUME NEW r, Sound(r)
    PROVE  /\ IsFiniteSet(DOMAIN r.elem) /\ DOMAIN r.elem \subseteq 1..r.size /\ r.size \in Nat
           /\ Len(r.free) \in Nat /\ r.free \in Seq(1..r.size)
           /\ r.elem \in [DOMAIN r.elem -> Entry]
<1>1. /\ DOMAIN r.elem \subseteq 1..r.size /\ r.size \in Nat /\ r.free \in Seq(1..r.size)
      /\ r.elem \in [DOMAIN r.elem -> Entry]
  BY DEF Sound, IsRegister
<1>2. IsFiniteSet(1..r.size)
  BY <1>1, FS_Interval
<1> QED BY <1>1, <1>2, FS_Subset

\* How many numbers an interval has.
LEMMA IntervalCount ==
    ASSUME NEW n \in Nat
    PROVE  IsFiniteSet(1..n) /\ Cardinality(1..n) = n
<1>1. 1 \in Int /\ n \in Int
  BY DEF Int
<1>2. IsFiniteSet(1..n) /\ Cardinality(1..n) = IF 1 > n THEN 0 ELSE n - 1 + 1
  BY <1>1, FS_Interval
<1> QED BY <1>2

\* An interval cut at one of its numbers.
LEMMA SplitInterval ==
    ASSUME NEW n \in Nat, NEW h \in Nat
    PROVE  \A i \in 1..(n + h) : i \in 1..n \/ (i \in (n + 1)..(n + h) /\ i - n \in 1..h)
OBVIOUS

\* A function on an initial interval is a sequence.
LEMMA FunctionIsSeq ==
    ASSUME NEW S, NEW n \in Nat, NEW a \in [1..n -> S]
    PROVE  a \in Seq(S) /\ Len(a) = n
<1>1. a = [i \in 1..n |-> a[i]]
  OBVIOUS
<1>2. [i \in 1..n |-> a[i]] \in Seq(S)
  OBVIOUS
<1>3. Len([i \in 1..n |-> a[i]]) = n
  OBVIOUS
<1> QED BY <1>1, <1>2, <1>3

\* Where the elements of a concatenation come from.
LEMMA ConcatParts ==
    ASSUME NEW S, NEW s \in Seq(S), NEW a \in Seq(S)
    PROVE  /\ s \o a \in Seq(S) /\ Len(s \o a) = Len(s) + Len(a)
           /\ \A i \in 1..Len(s) : (s \o a)[i] = s[i]
           /\ \A i \in (Len(s) + 1)..(Len(s) + Len(a)) : (s \o a)[i] = a[i - Len(s)]
           /\ \A i \in 1..Len(a) : (s \o a)[Len(s) + i] = a[i]
OBVIOUS

\* An enumeration without repetitions counts a set.
LEMMA EnumerationCounts ==
    ASSUME NEW n \in Nat, NEW S, IsFiniteSet(S), NEW f \in [1..n -> S],
           \A i, j \in 1..n : f[i] = f[j] => i = j,
           \A x \in S : \E i \in 1..n : f[i] = x
    PROVE  Cardinality(S) = n
<1>1. Cardinality(S) \in Nat
  BY FS_CardinalityType
<1>2. IsFiniteSet(1..n) /\ Cardinality(1..n) = n
  BY IntervalCount
<1>3. ~(Cardinality(S) < n)
  BY <1>2, FS_PigeonHole
<1>4. ~(n < Cardinality(S))
  <2> DEFINE g == [x \in S |-> CHOOSE i \in 1..n : f[i] = x]
  <2>1. g \in [S -> 1..n] /\ \A x \in S : f[g[x]] = x
    OBVIOUS
  <2> HIDE DEF g
  <2> QED BY <1>2, <2>1, FS_PigeonHole
<1> QED BY <1>1, <1>3, <1>4

\* What IdsConserved says of a register.
LEMMA ConservedCounts ==
    ASSUME NEW r, Sound(r)
    PROVE  Cardinality(DOMAIN r.elem) + Len(r.free) = r.size
<1> DEFINE n == Len(r.free)
           F == FreeIds(r)
<1>1. r.size \in Nat /\ n \in Nat /\ r.free \in [1..n -> 1..r.size] /\ IsFiniteSet(DOMAIN r.elem)
  BY FiniteDomain
<1>2. IsFiniteSet(F) /\ Cardinality(F) = n
  <2>0. IsFiniteSet(F)
    <3>1. F \in SUBSET (1..r.size)
      BY <1>1 DEF FreeIds
    <3> QED BY <1>1, <3>1, IntervalCount, FS_Subset
  <2>1. r.free \in [1..n -> F]
    BY <1>1 DEF FreeIds
  <2>2. \A i, j \in 1..n : r.free[i] = r.free[j] => i = j
    BY DEF Sound, Conserved
  <2>3. \A x \in F : \E i \in 1..n : r.free[i] = x
    BY DEF FreeIds
  <2> HIDE DEF n, F
  <2> QED BY <1>1, <2>0, <2>1, <2>2, <2>3, EnumerationCounts, SMTT(30)
<1>3. F \cap DOMAIN r.elem = {} /\ DOMAIN r.elem \cup F = 1..r.size
  BY DEF Sound, Conserved
<1> HIDE DEF n, F
<1>4. Cardinality(1..r.size) = r.size
  BY <1>1, IntervalCount
<1>5. Cardinality(DOMAIN r.elem \cap F) = 0
  <2>1. DOMAIN r.elem \cap F = {}
    BY <1>3
  <2> QED BY <2>1, FS_EmptySet
<1>6. Cardinality(DOMAIN r.elem \cup F)
        = Cardinality(DOMAIN r.elem) + Cardinality(F) - Cardinality(DOMAIN r.elem \cap F)
  BY <1>1, <1>2, FS_Union
<1>7. Cardinality(DOMAIN r.elem) \in Nat
  BY <1>1, FS_CardinalityType
<1>8. Cardinality(DOMAIN r.elem \cup F) = r.size
  BY <1>3, <1>4
<1>9. Cardinality(DOMAIN r.elem) + n = r.size
  BY <1>1, <1>2, <1>5, <1>6, <1>7, <1>8
<1> QED BY <1>9 DEF n

\* The ids of a finite set in ascending order are all of them, each once.
LEMMA AscendingBijection ==
    ASSUME NEW S \in SUBSET Nat, IsFiniteSet(S)
    PROVE  /\ Ascending(S) \in [1..Cardinality(S) -> S]
           /\ \A i, j \in 1..Cardinality(S) : Ascending(S)[i] = Ascending(S)[j] => i = j
           /\ \A id \in S : \E i \in 1..Cardinality(S) : Ascending(S)[i] = id
<1> DEFINE n == Cardinality(S)
           rank == [id \in S |-> Cardinality({j \in S : j <= id})]
<1>1. n \in Nat /\ IsFiniteSet(1..n) /\ Cardinality(1..n) = n
  BY FS_CardinalityType, IntervalCount
<1>2. \A id \in S : IsFiniteSet({j \in S : j <= id}) /\ rank[id] \in 1..n
  <2> SUFFICES ASSUME NEW id \in S
               PROVE  IsFiniteSet({j \in S : j <= id}) /\ rank[id] \in 1..n
    BY Zenon
  <2> DEFINE T == {j \in S : j <= id}
  <2>1. T \in SUBSET S /\ id \in T
    OBVIOUS
  <2>2. rank[id] = Cardinality(T)
    OBVIOUS
  <2> HIDE DEF T, rank
  <2>3. IsFiniteSet(T) /\ Cardinality(T) <= n
    BY <2>1, FS_Subset
  <2>4. Cardinality(T) \in Nat /\ Cardinality(T) # 0
    BY <2>1, <2>3, FS_CardinalityType, FS_EmptySet
  <2>5. rank[id] \in 1..n
    BY <1>1, <2>2, <2>3, <2>4
  <2> QED BY <2>3, <2>5 DEF T
<1>3. \A a, b \in S : a < b => rank[a] # rank[b]
  <2> SUFFICES ASSUME NEW a \in S, NEW b \in S, a < b, rank[a] = rank[b]
               PROVE  FALSE
    BY Zenon
  <2> DEFINE A == {j \in S : j <= a}
             B == {j \in S : j <= b}
  <2>1. IsFiniteSet(B) /\ Cardinality(A) = Cardinality(B)
    BY <1>2
  <2> HIDE DEF rank
  <2>2. A \in SUBSET B /\ b \in B /\ b \notin A
    <3>1. a \in Nat /\ b \in Nat /\ \A j \in S : j \in Nat
      OBVIOUS
    <3>2. (\A j \in S : j <= a => j <= b) /\ b <= b /\ ~(b <= a)
      BY <3>1, a < b
    <3> QED BY <3>2, Zenon
  <2> HIDE DEF A, B
  <2> QED BY <2>1, <2>2, FS_Subset
<1>4. rank \in [S -> 1..n] /\ \A a, b \in S : rank[a] = rank[b] => a = b
  <2>1. rank = [id \in S |-> rank[id]]
    OBVIOUS
  <2> HIDE DEF rank, n
  <2>2. rank \in [S -> 1..n]
    BY <1>2, <2>1
  <2> QED BY <1>3, <2>2
<1>5. \A i \in 1..n : \E id \in S : rank[id] = i
  <2> SUFFICES ASSUME NEW i \in 1..n, \A id \in S : rank[id] # i
               PROVE  FALSE
    BY Zenon
  <2> DEFINE T == (1..n) \ {i}
  <2> HIDE DEF rank
  <2>1. IsFiniteSet(T) /\ Cardinality(T) = n - 1
    <3> HIDE DEF n
    <3>1. /\ IsFiniteSet((1..n) \ {i})
          /\ Cardinality((1..n) \ {i}) =
                IF i \in 1..n THEN Cardinality(1..n) - 1 ELSE Cardinality(1..n)
      BY <1>1, FS_RemoveElement
    <3> QED BY <1>1, <3>1
  <2>2. Cardinality(T) < Cardinality(S)
    <3>1. n \in Nat /\ Cardinality(T) = n - 1
      BY <1>1, <2>1
    <3> HIDE DEF T
    <3> QED BY <3>1
  <2>3. rank \in [S -> T]
    BY <1>4
  <2> HIDE DEF T
  <2>4. \E x, y \in S : x # y /\ rank[x] = rank[y]
    BY <2>1, <2>2, <2>3, FS_PigeonHole
  <2> QED BY <1>4, <2>4
<1>7. Ascending(S) = [i \in 1..n |-> CHOOSE id \in S : Cardinality({j \in S : j <= id}) = i]
  BY Zenon DEF Ascending
<1>8. \A i \in 1..n : Ascending(S)[i] \in S /\ rank[Ascending(S)[i]] = i
  <2> SUFFICES ASSUME NEW i \in 1..n
               PROVE  Ascending(S)[i] \in S /\ rank[Ascending(S)[i]] = i
    BY Zenon
  <2>1. \E id \in S : Cardinality({j \in S : j <= id}) = i
    BY <1>5
  <2> QED BY <1>7, <2>1
<1>9. Ascending(S) \in [1..n -> S]
  <2>1. Ascending(S) = [i \in 1..n |-> Ascending(S)[i]]
    BY <1>7
  <2> HIDE DEF rank, n
  <2> QED BY <1>8, <2>1
<1> HIDE DEF rank
<1>10. \A id \in S : Ascending(S)[rank[id]] = id
  BY <1>4, <1>8
<1> QED BY <1>2, <1>8, <1>9, <1>10

\* A new register is sound.
LEMMA EmptyIsSound == Sound(EmptyRegister)
BY DEF Sound, IsRegister, Conserved, FreeIds, EmptyRegister

\* A register by its parts.
LEMMA SoundParts ==
    ASSUME NEW size \in Nat, NEW free \in Seq(1..size), NEW elem,
           DOMAIN elem \subseteq 1..size, elem \in [DOMAIN elem -> Entry],
           \A i, j \in 1..Len(free) : free[i] = free[j] => i = j,
           \A i \in 1..Len(free) : free[i] \notin DOMAIN elem,
           \A id \in 1..size : id \in DOMAIN elem \/ \E i \in 1..Len(free) : free[i] = id
    PROVE  Sound([size |-> size, free |-> free, elem |-> elem])
<1> DEFINE r == [size |-> size, free |-> free, elem |-> elem]
<1>1. r.size = size /\ r.free = free /\ r.elem = elem
  OBVIOUS
<1>2. IsRegister(r, Entry)
  BY <1>1 DEF IsRegister
<1> HIDE DEF r
<1>3. FreeIds(r) = {free[i] : i \in 1..Len(free)}
  BY <1>1 DEF FreeIds
<1>4. FreeIds(r) \subseteq 1..size
  BY <1>3
<1>5. Conserved(r)
  BY <1>1, <1>3, <1>4 DEF Conserved
<1> QED BY <1>2, <1>5 DEF Sound, r

\* The parts of a register.
LEMMA PartsOfSound ==
    ASSUME NEW r, Sound(r)
    PROVE  /\ r = [size |-> r.size, free |-> r.free, elem |-> r.elem]
           /\ r.size \in Nat /\ r.free \in Seq(1..r.size)
           /\ DOMAIN r.elem \subseteq 1..r.size /\ r.elem \in [DOMAIN r.elem -> Entry]
           /\ \A i, j \in 1..Len(r.free) : r.free[i] = r.free[j] => i = j
           /\ \A i \in 1..Len(r.free) : r.free[i] \notin DOMAIN r.elem
           /\ \A id \in 1..r.size :
                 id \in DOMAIN r.elem \/ \E i \in 1..Len(r.free) : r.free[i] = id
<1>1. IsRegister(r, Entry) /\ Conserved(r)
  BY DEF Sound
<1>2. r.free \in Seq(1..r.size)
  BY <1>1 DEF IsRegister
<1>3. \A i \in 1..Len(r.free) : r.free[i] \in FreeIds(r)
  BY DEF FreeIds
<1>4. \A id \in FreeIds(r) : \E i \in 1..Len(r.free) : r.free[i] = id
  BY DEF FreeIds
<1> QED BY <1>1, <1>2, <1>3, <1>4 DEF IsRegister, Conserved

\* A register that grows stays sound.
LEMMA GrowSound ==
    ASSUME NEW r, Sound(r)
    PROVE  /\ Sound(Grow(r)) /\ Grow(r).elem = r.elem /\ Grow(r).free # <<>>
           /\ r.size <= Grow(r).size
<1> USE PartsOfSound
<1>1. CASE r.free = <<>>
  <2>1. Grow(r) = [size |-> r.size + 1, free |-> <<r.size + 1>>, elem |-> r.elem]
    <3>1. r = [size |-> r.size, free |-> r.free, elem |-> r.elem]
      OBVIOUS
    <3>2. Grow(r) = [r EXCEPT !.size = @ + 1, !.free = <<r.size + 1>>]
      BY <1>1 DEF Grow
    <3> QED BY <3>1, <3>2
  <2>2. Sound([size |-> r.size + 1, free |-> <<r.size + 1>>, elem |-> r.elem])
    <3> DEFINE n == r.size + 1
               f == <<r.size + 1>>
    <3>1. n \in Nat /\ f \in Seq(1..n) /\ Len(f) = 1 /\ f[1] = n /\ n \notin DOMAIN r.elem
      OBVIOUS
    <3>2. DOMAIN r.elem \subseteq 1..n /\ r.elem \in [DOMAIN r.elem -> Entry]
      OBVIOUS
    <3>3. \A id \in 1..n : id \in DOMAIN r.elem \/ id = n
      BY <1>1
    <3>4. \A i, j \in 1..Len(f) : f[i] = f[j] => i = j
      BY <3>1
    <3>5. \A i \in 1..Len(f) : f[i] \notin DOMAIN r.elem
      BY <3>1
    <3>6. \A id \in 1..n : id \in DOMAIN r.elem \/ \E i \in 1..Len(f) : f[i] = id
      BY <3>1, <3>3
    <3> HIDE DEF n, f
    <3>7. Sound([size |-> n, free |-> f, elem |-> r.elem])
      BY <3>1, <3>2, <3>4, <3>5, <3>6, SoundParts
    <3> QED BY <3>7 DEF n, f
  <2> QED BY <2>1, <2>2
<1>2. CASE r.free # <<>>
  BY <1>2 DEF Grow
<1> QED BY <1>1, <1>2

\* next_id takes an id that is not in use.
LEMMA NextIdFresh ==
    ASSUME NEW r, Sound(r)
    PROVE  NextId(r) \in Nat \ DOMAIN r.elem /\ NextId(r) # 0
<1> DEFINE g == Grow(r)
<1>1. Sound(g) /\ g.elem = r.elem /\ g.free # <<>>
  BY GrowSound
<1>2. NextId(r) = g.free[Len(g.free)]
  BY DEF NextId
<1> HIDE DEF g
<1>3. Len(g.free) \in 1..Len(g.free)
  BY <1>1, PartsOfSound
<1>4. g.free[Len(g.free)] \in 1..g.size
  BY <1>1, <1>3, PartsOfSound
<1>5. \A i \in 1..Len(g.free) : g.free[i] \notin DOMAIN g.elem
  BY <1>1, PartsOfSound
<1>6. g.size \in Nat
  BY <1>1, PartsOfSound
<1> QED BY <1>1, <1>2, <1>3, <1>4, <1>5, <1>6

\* An insertion keeps a register sound.
LEMMA InsertSound ==
    ASSUME NEW r, Sound(r), NEW e \in Entry
    PROVE  /\ Sound(Insert(r, e))
           /\ DOMAIN Insert(r, e).elem = DOMAIN r.elem \cup {NextId(r)}
           /\ Insert(r, e).elem[NextId(r)] = e
           /\ \A id \in DOMAIN r.elem : Insert(r, e).elem[id] = r.elem[id]
<1> DEFINE g == Grow(r)
           n == Len(g.free)
           f == SubSeq(g.free, 1, n - 1)
           new == NextId(r)
           m == [id \in DOMAIN r.elem \cup {new} |-> IF id = new THEN e ELSE r.elem[id]]
<1>1. Sound(g) /\ g.elem = r.elem /\ g.free # <<>> /\ new \notin DOMAIN r.elem
  BY GrowSound, NextIdFresh
<1>2. new = g.free[n]
  BY DEF NextId
<1>3. Insert(r, e) = [size |-> g.size, free |-> f, elem |-> m]
  BY DEF Insert
<1> HIDE DEF g, new
<1>4. n \in Nat \ {0} /\ g.free \in Seq(1..g.size) /\ g.size \in Nat
  BY <1>1, PartsOfSound
<1>5. f \in Seq(1..g.size) /\ Len(f) = n - 1 /\ \A i \in 1..(n - 1) : f[i] = g.free[i]
  BY <1>4
<1>6. new \in 1..g.size
  BY <1>2, <1>4
<1>7. DOMAIN m = DOMAIN r.elem \cup {new} /\ m \in [DOMAIN m -> Entry]
  BY <1>1, PartsOfSound
<1>8. DOMAIN m \subseteq 1..g.size
  BY <1>1, <1>6, <1>7, PartsOfSound
<1> HIDE DEF f, m
<1>. /\ \A i, j \in 1..n : g.free[i] = g.free[j] => i = j
     /\ \A i \in 1..n : g.free[i] \notin DOMAIN r.elem
  BY <1>1, PartsOfSound
<1>9. \A i, j \in 1..Len(f) : f[i] = f[j] => i = j
  <2> HIDE DEF n
  <2> QED BY <1>4, <1>5
<1>10. \A i \in 1..Len(f) : f[i] \notin DOMAIN m
  <2> HIDE DEF n
  <2>1. \A i \in 1..(n - 1) : g.free[i] # new /\ g.free[i] \notin DOMAIN r.elem
    <3>1. n \in 1..n /\ \A i \in 1..(n - 1) : i \in 1..n /\ i # n
      BY <1>4
    <3> QED BY <1>2, <3>1
  <2> QED BY <1>5, <1>7, <2>1
<1>11. \A id \in 1..g.size : id \in DOMAIN m \/ \E i \in 1..Len(f) : f[i] = id
  <2> SUFFICES ASSUME NEW id \in 1..g.size, id \notin DOMAIN m
               PROVE  \E i \in 1..Len(f) : f[i] = id
    OBVIOUS
  <2>1. PICK i \in 1..n : g.free[i] = id
    BY <1>1, <1>7, PartsOfSound
  <2>2. i # n
    BY <1>2, <1>7, <2>1
  <2>3. i \in 1..(n - 1)
    BY <1>4, <2>2
  <2> QED BY <1>5, <2>1, <2>3
<1>12. Sound([size |-> g.size, free |-> f, elem |-> m])
  BY <1>4, <1>5, <1>7, <1>8, <1>9, <1>10, <1>11, SoundParts
<1> QED BY <1>1, <1>3, <1>7, <1>12 DEF m, new

\* To replace an element keeps it sound.
LEMMA PutSound ==
    ASSUME NEW r, Sound(r), NEW id \in DOMAIN r.elem, NEW e \in Entry
    PROVE  /\ Sound(Put(r, id, e))
           /\ DOMAIN Put(r, id, e).elem = DOMAIN r.elem
           /\ Put(r, id, e).elem[id] = e
           /\ \A i \in DOMAIN r.elem \ {id} : Put(r, id, e).elem[i] = r.elem[i]
<1> DEFINE m == [r.elem EXCEPT ![id] = e]
<1>1. Put(r, id, e) = [size |-> r.size, free |-> r.free, elem |-> m]
  <2>1. r = [size |-> r.size, free |-> r.free, elem |-> r.elem]
    BY PartsOfSound
  <2> QED BY <2>1 DEF Put
<1>2. /\ r.size \in Nat /\ r.free \in Seq(1..r.size)
      /\ DOMAIN r.elem \subseteq 1..r.size /\ r.elem \in [DOMAIN r.elem -> Entry]
      /\ \A i, j \in 1..Len(r.free) : r.free[i] = r.free[j] => i = j
      /\ \A i \in 1..Len(r.free) : r.free[i] \notin DOMAIN r.elem
      /\ \A k \in 1..r.size : k \in DOMAIN r.elem \/ \E i \in 1..Len(r.free) : r.free[i] = k
  BY PartsOfSound
<1>3. DOMAIN m = DOMAIN r.elem /\ m \in [DOMAIN m -> Entry]
  BY <1>2
<1>4. m[id] = e /\ \A i \in DOMAIN r.elem \ {id} : m[i] = r.elem[i]
  BY <1>2
<1> HIDE DEF m
<1>5. Sound([size |-> r.size, free |-> r.free, elem |-> m])
  BY <1>2, <1>3, SoundParts
<1> QED BY <1>1, <1>3, <1>4, <1>5

\* To erase an element gives its id back.
LEMMA EraseSound ==
    ASSUME NEW r, Sound(r), NEW id \in DOMAIN r.elem
    PROVE  /\ Sound(Erase(r, id))
           /\ DOMAIN Erase(r, id).elem = DOMAIN r.elem \ {id}
           /\ \A i \in DOMAIN r.elem \ {id} : Erase(r, id).elem[i] = r.elem[i]
<1> DEFINE m == [i \in DOMAIN r.elem \ {id} |-> r.elem[i]]
           f == Append(r.free, id)
           n == Len(r.free)
<1>1. Erase(r, id) = [size |-> r.size, free |-> f, elem |-> m]
  BY Zenon DEF Erase
<1>2. /\ r.size \in Nat /\ r.free \in Seq(1..r.size) /\ n \in Nat
      /\ DOMAIN r.elem \subseteq 1..r.size /\ r.elem \in [DOMAIN r.elem -> Entry]
      /\ \A i, j \in 1..n : r.free[i] = r.free[j] => i = j
      /\ \A i \in 1..n : r.free[i] \notin DOMAIN r.elem
      /\ \A k \in 1..r.size : k \in DOMAIN r.elem \/ \E i \in 1..n : r.free[i] = k
  BY PartsOfSound
<1>3. DOMAIN m = DOMAIN r.elem \ {id} /\ m \in [DOMAIN m -> Entry]
  BY <1>2
<1>4. \A i \in DOMAIN r.elem \ {id} : m[i] = r.elem[i]
  OBVIOUS
<1>5. /\ f \in Seq(1..r.size) /\ Len(f) = n + 1 /\ f[n + 1] = id
      /\ \A i \in 1..n : f[i] = r.free[i]
  BY <1>2
<1> HIDE DEF m, f, n
<1>6. \A i \in 1..(n + 1) : i = n + 1 \/ i \in 1..n
  BY <1>2
<1>7. \A i, j \in 1..Len(f) : f[i] = f[j] => i = j
  BY <1>2, <1>5, <1>6
<1>8. \A i \in 1..Len(f) : f[i] \notin DOMAIN m
  BY <1>2, <1>3, <1>5, <1>6
<1>9. \A k \in 1..r.size : k \in DOMAIN m \/ \E i \in 1..Len(f) : f[i] = k
  <2> SUFFICES ASSUME NEW k \in 1..r.size, k \notin DOMAIN m
               PROVE  \E i \in 1..Len(f) : f[i] = k
    OBVIOUS
  <2>1. n + 1 \in 1..Len(f) /\ \A i \in 1..n : i \in 1..Len(f)
    BY <1>2, <1>5
  <2>2. CASE k = id
    BY <1>5, <2>1, <2>2
  <2>3. CASE k # id
    <3>1. PICK i \in 1..n : r.free[i] = k
      BY <1>2, <1>3, <2>3
    <3> QED BY <1>5, <2>1, <3>1
  <2> QED BY <2>2, <2>3
<1>10. Sound([size |-> r.size, free |-> f, elem |-> m])
  BY <1>2, <1>3, <1>5, <1>7, <1>8, <1>9, SoundParts
<1> QED BY <1>1, <1>3, <1>4, <1>10

\* To erase the hidden elements gives all their ids back.
LEMMA EraseHiddenSound ==
    ASSUME NEW r, Sound(r)
    PROVE  /\ Sound(EraseHidden(r))
           /\ DOMAIN EraseHidden(r).elem = DOMAIN r.elem \ Hidden(r)
           /\ \A i \in DOMAIN r.elem \ Hidden(r) : EraseHidden(r).elem[i] = r.elem[i]
<1> DEFINE m == [i \in DOMAIN r.elem \ Hidden(r) |-> r.elem[i]]
           a == Ascending(Hidden(r))
           h == Cardinality(Hidden(r))
           f == r.free \o a
           n == Len(r.free)
<1>1. EraseHidden(r) = [size |-> r.size, free |-> f, elem |-> m]
  BY Zenon DEF EraseHidden
<1>2. /\ r.size \in Nat /\ r.free \in Seq(1..r.size) /\ n \in Nat
      /\ DOMAIN r.elem \subseteq 1..r.size /\ r.elem \in [DOMAIN r.elem -> Entry]
      /\ \A i, j \in 1..n : r.free[i] = r.free[j] => i = j
      /\ \A i \in 1..n : r.free[i] \notin DOMAIN r.elem
      /\ \A k \in 1..r.size : k \in DOMAIN r.elem \/ \E i \in 1..n : r.free[i] = k
  BY PartsOfSound
<1>3. DOMAIN m = DOMAIN r.elem \ Hidden(r) /\ m \in [DOMAIN m -> Entry]
  BY <1>2
<1>4. \A i \in DOMAIN r.elem \ Hidden(r) : m[i] = r.elem[i]
  OBVIOUS
<1>5. /\ h \in Nat /\ a \in [1..h -> Hidden(r)]
      /\ \A i, j \in 1..h : a[i] = a[j] => i = j
      /\ \A k \in Hidden(r) : \E i \in 1..h : a[i] = k
  <2>1. Hidden(r) \in SUBSET Nat /\ Hidden(r) \in SUBSET (DOMAIN r.elem)
    BY <1>2 DEF Hidden
  <2>2. IsFiniteSet(Hidden(r))
    BY <2>1, FiniteDomain, FS_Subset
  <2> QED BY <2>1, <2>2, AscendingBijection, FS_CardinalityType
<1>6. Hidden(r) \subseteq 1..r.size /\ Hidden(r) \subseteq DOMAIN r.elem
  BY <1>2 DEF Hidden
<1> HIDE DEF m, h
<1> HIDE DEF a
<1>7. a \in Seq(1..r.size) /\ Len(a) = h
  <2>1. a \in [1..h -> 1..r.size]
    BY <1>5, <1>6
  <2> QED BY <1>5, <2>1, FunctionIsSeq
<1>8. /\ f \in Seq(1..r.size) /\ Len(f) = n + h
      /\ \A i \in 1..n : f[i] = r.free[i]
      /\ \A i \in (n + 1)..(n + h) : f[i] = a[i - n]
      /\ \A i \in 1..h : f[n + i] = a[i]
  <2>1. r.free \in Seq(1..r.size) /\ a \in Seq(1..r.size)
    BY <1>2, <1>7
  <2> HIDE DEF a
  <2>2. /\ r.free \o a \in Seq(1..r.size) /\ Len(r.free \o a) = Len(r.free) + Len(a)
        /\ \A i \in 1..Len(r.free) : (r.free \o a)[i] = r.free[i]
        /\ \A i \in (Len(r.free) + 1)..(Len(r.free) + Len(a)) :
              (r.free \o a)[i] = a[i - Len(r.free)]
        /\ \A i \in 1..Len(a) : (r.free \o a)[Len(r.free) + i] = a[i]
    BY <2>1, ConcatParts
  <2> QED BY <1>7, <2>2
<1> HIDE DEF f, n
<1>9. \A i \in 1..(n + h) : i \in 1..n \/ (i \in (n + 1)..(n + h) /\ i - n \in 1..h)
  BY <1>2, <1>5, SplitInterval
<1>10. \A i \in 1..n : f[i] \notin DOMAIN r.elem
  BY <1>2, <1>8
<1>11. \A i \in (n + 1)..(n + h) : i - n \in 1..h /\ f[i] \in Hidden(r)
  BY <1>2, <1>5, <1>8
<1>12. \A i, j \in 1..Len(f) : f[i] = f[j] => i = j
  <2> SUFFICES ASSUME NEW i \in 1..(n + h), NEW j \in 1..(n + h), f[i] = f[j]
               PROVE  i = j
    BY <1>8
  <2>1. CASE i \in 1..n /\ j \in 1..n
    BY <1>2, <1>8, <2>1
  <2>2. CASE i \in (n + 1)..(n + h) /\ j \in (n + 1)..(n + h)
    <3>1. i - n = j - n
      BY <1>5, <1>8, <1>11, <2>2
    <3> QED BY <1>2, <3>1
  <2> QED BY <1>6, <1>9, <1>10, <1>11, <2>1, <2>2
<1>13. \A i \in 1..Len(f) : f[i] \notin DOMAIN m
  BY <1>3, <1>8, <1>9, <1>10, <1>11
<1>14. \A k \in 1..r.size : k \in DOMAIN m \/ \E i \in 1..Len(f) : f[i] = k
  <2> SUFFICES ASSUME NEW k \in 1..r.size, k \notin DOMAIN m
               PROVE  \E i \in 1..Len(f) : f[i] = k
    OBVIOUS
  <2>1. (\A i \in 1..n : i \in 1..Len(f)) /\ \A i \in 1..h : n + i \in 1..Len(f)
    BY <1>2, <1>5, <1>8
  <2>2. CASE k \in Hidden(r)
    <3>1. PICK i \in 1..h : a[i] = k
      BY <1>5, <2>2
    <3> QED BY <1>8, <2>1, <3>1
  <2>3. CASE k \notin Hidden(r)
    <3>1. PICK i \in 1..n : r.free[i] = k
      BY <1>2, <1>3, <2>3
    <3> QED BY <1>8, <2>1, <3>1
  <2> QED BY <2>2, <2>3
<1>15. Sound([size |-> r.size, free |-> f, elem |-> m])
  BY <1>2, <1>3, <1>6, <1>8, <1>12, <1>13, <1>14, SoundParts
<1> QED BY <1>1, <1>3, <1>4, <1>15

----------------------------------------------------------------------------
(* The elements of a Leaf.                                                 *)

\* A group of bindings shows its users what its machine knows; k is what the
\* Leaf knows of its connection.
Published(e) == e.published = IF e.established THEN e.bindings ELSE {}

Shows(e, k) == (e.established <=> (k = "started" /\ is_mapped(e.fsm))) /\ Published(e)

SameObject(e, n) ==
    n.identifier = e.identifier /\ n.hidden = e.hidden /\ n.bindings = e.bindings

\* The two sides of a Leaf.
LEMMA SidesFacts ==
    \A s \in Sides : /\ Opposite(s) \in Sides /\ Opposite(s) # s /\ s # "ops"
                     /\ s = "Terminal" \/ s = "Binding"
                     /\ Opposite(Opposite(s)) = s
                     /\ \A t \in Sides : t = s \/ t = Opposite(s)
BY DEF Sides, Opposite

\* One call of the callback: the object stays the same, only what it shows changes.
LEMMA MappingChangedEntry ==
    ASSUME NEW e \in Entry, NEW s \in Sides, NEW b \in BOOLEAN,
           NEW n, n = MappingChanged(s, e, b, RemoteIsNode)
    PROVE  /\ n \in Entry /\ SameObject(e, n) /\ n.fsm = e.fsm
           /\ n.established = b
           /\ s = "Binding" /\ Published(e) => Published(n)
<1>1. CASE s = "Terminal"
  <2>1. n = [e EXCEPT !.established = b]
    <3>1. n = [e EXCEPT !.established = b /\ ~RemoteIsNode]
      BY <1>1 DEF MappingChanged
    <3>2. (b /\ ~RemoteIsNode) = b
      BY DEF RemoteIsNode
    <3> QED BY <3>1, <3>2
  <2> QED BY <1>1, <2>1 DEF Entry, SameObject
<1>2. CASE s = "Binding"
  <2>1. n = update_binding_state(e, b)
    BY <1>2 DEF MappingChanged, RemoteIsNode
  <2>2. CASE e.established = b
    <3>1. n = e
      BY <2>1, <2>2 DEF update_binding_state
    <3> QED BY <2>2, <3>1 DEF SameObject
  <2>3. CASE e.established # b
    <3>1. n = [e EXCEPT !.established = b, !.published = IF b THEN e.bindings ELSE {}]
      BY <2>1, <2>3 DEF update_binding_state
    <3> QED BY <3>1 DEF Entry, SameObject, Published
  <2> QED BY <2>2, <2>3
<1> QED BY <1>1, <1>2 DEF Sides

\* The same with the operations, which the pair does not use.
LEMMA ChangedEntry ==
    ASSUME NEW st, st.e \in Entry, st.ok \in BOOLEAN, NEW s \in Sides, NEW id, NEW b \in BOOLEAN,
           NEW n, n = Changed(st, s, id, b, RemoteIsNode)
    PROVE  /\ n.e \in Entry /\ SameObject(st.e, n.e) /\ n.e.fsm = st.e.fsm
           /\ n.e.established = b
           /\ s = "Binding" /\ Published(st.e) => Published(n.e)
           /\ n.ops = st.ops /\ n.ok \in BOOLEAN /\ (n.ok <=> st.ok)
<1>1. PICK E : E = MappingChanged(s, st.e, b, RemoteIsNode)
  OBVIOUS
<1>2. PICK K \in BOOLEAN : K = (st.ok /\ TRUE)
  OBVIOUS
<1>3. n = [e |-> E, ops |-> st.ops, ok |-> K]
  <2>1. OpsStep(st.ops, <<>>, TRUE).ops = st.ops /\ OpsStep(st.ops, <<>>, TRUE).ok = TRUE
    BY DEF OpsStep
  <2>2. n = [e |-> E, ops |-> OpsStep(st.ops, <<>>, TRUE).ops,
             ok |-> st.ok /\ OpsStep(st.ops, <<>>, TRUE).ok]
    BY <1>1, PairAssumption DEF Changed
  <2> QED BY <1>2, <2>1, <2>2, Zenon
<1>4. n.e = E /\ n.ops = st.ops /\ n.ok = K
  BY <1>3
<1>5. /\ E \in Entry /\ SameObject(st.e, E) /\ E.fsm = st.e.fsm
      /\ E.established = b
      /\ s = "Binding" /\ Published(st.e) => Published(E)
  BY <1>1, MappingChangedEntry
<1>6. K <=> st.ok
  BY <1>2
<1> QED BY <1>2, <1>4, <1>5, <1>6

\* What the calls c of a step of the machine do to the element: the last of them
\* decides what it shows.
CallsDone(st, s, c, n) ==
    /\ n.e \in Entry /\ SameObject(st.e, n.e) /\ n.e.fsm = st.e.fsm
    /\ c = <<>> => n.e.established = st.e.established
    /\ c \in {<<TRUE>>, <<FALSE, TRUE>>} => n.e.established = TRUE
    /\ c = <<FALSE>> => n.e.established = FALSE
    /\ s = "Binding" /\ Published(st.e) => Published(n.e)
    /\ n.ops = st.ops /\ n.ok \in BOOLEAN /\ (n.ok <=> st.ok)

\* The calls of one step, in their order.
LEMMA AllChangedEntry ==
    ASSUME NEW st, st.e \in Entry, st.ok \in BOOLEAN, NEW s \in Sides, NEW id,
           NEW c \in Changes
    PROVE  CallsDone(st, s, c, AllChanged(st, s, id, c, RemoteIsNode))
<1> USE DEF CallsDone
<1>0. PICK n : n = AllChanged(st, s, id, c, RemoteIsNode)
  OBVIOUS
<1>1. ASSUME c = <<>>
      PROVE  CallsDone(st, s, c, n)
  <2>1. n = st
    BY <1>0, <1>1 DEF AllChanged
  <2>2. c \notin {<<TRUE>>, <<FALSE, TRUE>>} /\ c # <<FALSE>>
    BY <1>1
  <2> QED BY <2>1, <2>2 DEF SameObject
<1>2. ASSUME NEW b \in BOOLEAN, c = <<b>>
      PROVE  /\ n.e \in Entry /\ SameObject(st.e, n.e) /\ n.e.fsm = st.e.fsm
             /\ n.e.established = b
             /\ s = "Binding" /\ Published(st.e) => Published(n.e)
             /\ n.ops = st.ops /\ n.ok \in BOOLEAN /\ (n.ok <=> st.ok)
  <2>1. n = Changed(st, s, id, c[1], RemoteIsNode)
    BY <1>0, <1>2 DEF AllChanged
  <2>2. c[1] = b
    BY <1>2
  <2>3. n = Changed(st, s, id, b, RemoteIsNode)
    BY <2>1, <2>2, Zenon
  <2> QED BY <2>3, ChangedEntry
<1>3. ASSUME c = <<FALSE, TRUE>>
      PROVE  CallsDone(st, s, c, n)
  <2>0. PICK b1 \in BOOLEAN, b2 \in BOOLEAN : b1 = FALSE /\ b2 = TRUE
    OBVIOUS
  <2>1. PICK first : first = Changed(st, s, id, b1, RemoteIsNode)
    OBVIOUS
  <2>2. n = Changed(first, s, id, b2, RemoteIsNode)
    <3>1. Len(c) = 2 /\ c[1] = b1 /\ c[2] = b2
      BY <1>3, <2>0
    <3>2. n = Changed(Changed(st, s, id, c[1], RemoteIsNode), s, id, c[2], RemoteIsNode)
      BY <1>0, <3>1 DEF AllChanged
    <3> QED BY <2>1, <3>1, <3>2, Zenon
  <2>3. /\ first.e \in Entry /\ SameObject(st.e, first.e) /\ first.e.fsm = st.e.fsm
        /\ s = "Binding" /\ Published(st.e) => Published(first.e)
        /\ first.ops = st.ops /\ first.ok \in BOOLEAN /\ (first.ok <=> st.ok)
    BY <2>0, <2>1, ChangedEntry
  <2>4. /\ n.e \in Entry /\ SameObject(first.e, n.e) /\ n.e.fsm = first.e.fsm
        /\ n.e.established = b2
        /\ s = "Binding" /\ Published(first.e) => Published(n.e)
        /\ n.ops = first.ops /\ n.ok \in BOOLEAN /\ (n.ok <=> first.ok)
    <3>1. b2 \in BOOLEAN
      BY <2>0
    <3> QED BY <2>2, <2>3, <3>1, ChangedEntry
  <2>5. c # <<>> /\ c # <<FALSE>>
    BY <1>3
  <2> QED BY <2>0, <2>3, <2>4, <2>5 DEF SameObject
<1>4. ASSUME c = <<TRUE>>
      PROVE  CallsDone(st, s, c, n)
  <2>1. c # <<>> /\ c # <<FALSE>>
    BY <1>4
  <2> QED BY <1>2, <1>4, <2>1
<1>5. ASSUME c = <<FALSE>>
      PROVE  CallsDone(st, s, c, n)
  <2>1. c # <<>> /\ c \notin {<<TRUE>>, <<FALSE, TRUE>>}
    BY <1>5
  <2> QED BY <1>2, <1>5, <2>1
<1>6. CallsDone(st, s, c, n)
  BY <1>1, <1>3, <1>4, <1>5 DEF Changes
<1> HIDE DEF CallsDone
<1> QED BY <1>0, <1>6, Zenon

\* The messages of a step of the machine.
LEMMA MessagesType ==
    ASSUME NEW s \in Sides, NEW id \in Nat, NEW e, e.identifier \in Identifiers,
           NEW out \in Seq(Outs)
    PROVE  Messages(s, id, e, out) \in Seq(Message)
<1> DEFINE f(i) == CASE out[i].type = "Description" -> Description(s, id, e.identifier)
                     [] out[i].type = "Mapping" ->
                          [type |-> "Mapping", to |-> Opposite(s), id |-> out[i].id, own |-> id]
                     [] OTHER -> [type |-> out[i].type, to |-> Opposite(s), id |-> out[i].id]
<1>1. Len(out) \in Nat
  OBVIOUS
<1>2. \A i \in 1..Len(out) : f(i) \in Message
  <2> SUFFICES ASSUME NEW i \in 1..Len(out) PROVE f(i) \in Message
    BY Zenon
  <2>1. out[i] \in Outs /\ Opposite(s) \in Sides
    BY SidesFacts
  <2>2. out[i].type \in {"Description", "Mapping", "Removed", "RemovedAck"} /\ out[i].id \in Nat
    BY <2>1 DEF Outs
  <2>3. CASE out[i].type = "Description"
    <3>1. f(i) = Description(s, id, e.identifier)
      BY <2>3
    <3> QED BY <2>1, <3>1 DEF Message, Description
  <2>4. CASE out[i].type = "Mapping"
    <3>1. f(i) = [type |-> "Mapping", to |-> Opposite(s), id |-> out[i].id, own |-> id]
      BY <2>4
    <3> QED BY <2>1, <2>2, <3>1 DEF Message
  <2>5. CASE out[i].type \in {"Removed", "RemovedAck"}
    <3>1. f(i) = [type |-> out[i].type, to |-> Opposite(s), id |-> out[i].id]
      BY <2>5
    <3> QED BY <2>1, <2>2, <2>5, <3>1 DEF Message
  <2> QED BY <2>2, <2>3, <2>4, <2>5
<1>3. Messages(s, id, e, out) = [i \in 1..Len(out) |-> f(i)]
  BY DEF Messages
<1> HIDE DEF f
<1>4. [i \in 1..Len(out) |-> f(i)] \in [1..Len(out) -> Message]
  BY <1>2
<1> QED BY <1>1, <1>3, <1>4, FunctionIsSeq

----------------------------------------------------------------------------
(* The Leaf.                                                               *)

SoundLeaf(lf) ==
    /\ DOMAIN lf = {"Terminal", "Binding", "ops"} /\ IsOps(lf.ops)
    /\ \A s \in Sides : Sound(lf[s])

\* A group that is hidden has lost its bindings, any other shows what it knows.
Proper(e, k) == (e.hidden => e.bindings = {}) /\ (e.hidden \/ Shows(e, k))

ShownIn(r, k) == \A id \in DOMAIN r.elem : Proper(r.elem[id], k)

GoodLeaf(lf, k) == SoundLeaf(lf) /\ ShownIn(lf["Binding"], k)

GoodResult(r, k) == GoodLeaf(r.leaf, k) /\ r.out \in Seq(Message) /\ r.ok \in BOOLEAN

\* The parts of a result.
LEMMA ResultParts ==
    ASSUME NEW lf, NEW out, NEW ok
    PROVE  /\ Result(lf, out, ok).leaf = lf /\ Result(lf, out, ok).out = out
           /\ Result(lf, out, ok).ok = ok
BY DEF Result

\* A Leaf one register of which is replaced.
LEMMA LeafUpdate ==
    ASSUME NEW lf, NEW k, GoodLeaf(lf, k), NEW s \in Sides, NEW r, Sound(r),
           s = "Binding" => ShownIn(r, k),
           NEW n, \/ n = [lf EXCEPT ![s] = r]
                  \/ n = [lf EXCEPT ![s] = r, !.ops = lf.ops]
    PROVE  GoodLeaf(n, k)
<1>1. DOMAIN lf = {"Terminal", "Binding", "ops"} /\ s \in {"Terminal", "Binding"}
  BY DEF GoodLeaf, SoundLeaf, Sides
<1>2. /\ DOMAIN n = DOMAIN lf /\ n.ops = lf.ops /\ n[s] = r
      /\ \A t \in Sides : t # s => n[t] = lf[t]
  BY <1>1 DEF Sides
<1>3. SoundLeaf(n)
  BY <1>2 DEF GoodLeaf, SoundLeaf
<1>4. ShownIn(n["Binding"], k)
  <2>1. CASE s = "Binding"
    BY <1>2, <2>1
  <2>2. CASE s # "Binding"
    <3>1. "Binding" \in Sides
      BY DEF Sides
    <3>2. n["Binding"] = lf["Binding"]
      BY <1>2, <2>2, <3>1
    <3> QED BY <3>2 DEF GoodLeaf
  <2> QED BY <2>1, <2>2
<1> QED BY <1>3, <1>4 DEF GoodLeaf

\* The register of a Leaf, by side.
LEMMA SideOf ==
    ASSUME NEW lf, NEW k, GoodLeaf(lf, k), NEW s \in Sides
    PROVE  /\ Sound(lf[s]) /\ IsOps(lf.ops)
           /\ s = "Binding" => ShownIn(lf[s], k)
           /\ \A id \in DOMAIN lf[s].elem : id \in Nat /\ lf[s].elem[id] \in Entry
<1>1. Sound(lf[s])
  BY DEF GoodLeaf, SoundLeaf
<1>2. DOMAIN lf[s].elem \subseteq 1..lf[s].size /\ lf[s].elem \in [DOMAIN lf[s].elem -> Entry]
  BY <1>1 DEF Sound, IsRegister
<1>3. \A id \in DOMAIN lf[s].elem : id \in Nat /\ lf[s].elem[id] \in Entry
  BY <1>2
<1> QED BY <1>1, <1>3 DEF GoodLeaf, SoundLeaf

\* What is shown stays shown when an element is replaced or erased.
LEMMA PutShown ==
    ASSUME NEW r, NEW k, Sound(r), ShownIn(r, k), NEW id \in DOMAIN r.elem, NEW e \in Entry,
           Proper(e, k)
    PROVE  ShownIn(Put(r, id, e), k)
BY PutSound DEF ShownIn

\* The same when an element is erased.
LEMMA EraseShown ==
    ASSUME NEW r, NEW k, Sound(r), ShownIn(r, k), NEW id \in DOMAIN r.elem
    PROVE  ShownIn(Erase(r, id), k)
BY EraseSound DEF ShownIn

\* The machine of an element takes a legal step while the connection lives.
LEMMA EvaluateGood ==
    ASSUME NEW lf, NEW k, k = "started", GoodLeaf(lf, k), NEW s \in Sides,
           NEW id \in DOMAIN lf[s].elem, NEW st, Legal(lf[s].elem[id].fsm, st),
           NEW r, r = Evaluate(lf, s, id, st, RemoteIsNode)
    PROVE  GoodResult(r, k)
<1> DEFINE e == lf[s].elem[id]
<1>1. /\ Sound(lf[s]) /\ id \in Nat /\ e \in Entry
      /\ s = "Binding" => ShownIn(lf[s], k)
  BY SideOf
<1>2. /\ st.fsm \in Fsm /\ st.out \in Seq(Outs) /\ st.changes \in Changes
      /\ st.alive \in BOOLEAN /\ st.ok \in BOOLEAN
  BY DEF Legal, FsmSteps
<1>3. PICK E : E = [e EXCEPT !.fsm = st.fsm]
  OBVIOUS
<1>4. E \in Entry /\ SameObject(e, E) /\ E.fsm = st.fsm
      /\ E.established = e.established /\ E.published = e.published
  BY <1>1, <1>2, <1>3 DEF Entry, SameObject
<1>5. PICK S : S = [e |-> E, ops |-> lf.ops, ok |-> st.ok]
  OBVIOUS
<1>6. S.e = E /\ S.ops = lf.ops /\ S.ok = st.ok
  BY <1>5
<1>7. PICK n : n = AllChanged(S, s, id, st.changes, RemoteIsNode)
  OBVIOUS
<1>8. /\ n.e \in Entry /\ SameObject(E, n.e) /\ n.e.fsm = E.fsm
      /\ st.changes = <<>> => n.e.established = E.established
      /\ st.changes \in {<<TRUE>>, <<FALSE, TRUE>>} => n.e.established = TRUE
      /\ st.changes = <<FALSE>> => n.e.established = FALSE
      /\ s = "Binding" /\ Published(E) => Published(n.e)
      /\ n.ops = lf.ops /\ n.ok \in BOOLEAN
  <2>1. S.e \in Entry /\ S.ok \in BOOLEAN
    BY <1>2, <1>4, <1>6
  <2>2. CallsDone(S, s, st.changes, AllChanged(S, s, id, st.changes, RemoteIsNode))
    BY <1>2, <2>1, AllChangedEntry
  <2>3. CallsDone(S, s, st.changes, n)
    BY <1>7, <2>2, Zenon
  <2> QED BY <1>6, <2>3, Zenon DEF CallsDone
<1>9. s = "Binding" => Proper(n.e, k)
  <2>0. s = "Binding" /\ n.e.hidden => n.e.bindings = {}
    BY <1>1, <1>4, <1>8 DEF ShownIn, Proper, SameObject
  <2> SUFFICES ASSUME s = "Binding", ~n.e.hidden
               PROVE  Shows(n.e, k)
    BY <2>0 DEF Proper
  <2>1. ~e.hidden
    BY <1>4, <1>8 DEF SameObject
  <2>2. Shows(e, k)
    BY <1>1, <2>1 DEF ShownIn, Proper
  <2>3. Published(n.e)
    BY <1>4, <1>8, <2>2 DEF Shows, Published, SameObject
  <2>4. n.e.established <=> is_mapped(st.fsm)
    <3>1. e.established <=> is_mapped(e.fsm)
      BY <2>2 DEF Shows
    <3> QED BY <1>4, <1>8, <3>1 DEF Legal, Tells
  <2> QED BY <1>4, <1>8, <2>3, <2>4 DEF Shows
<1>10. PICK R : R = IF st.alive THEN Put(lf[s], id, n.e) ELSE Erase(lf[s], id)
  OBVIOUS
<1>11. Sound(R) /\ (s = "Binding" => ShownIn(R, k))
  BY <1>1, <1>8, <1>9, <1>10, PutSound, EraseSound, PutShown, EraseShown
<1>12. Messages(s, id, e, st.out) \in Seq(Message)
  BY <1>1, <1>2, MessagesType DEF Entry
<1>13. r = Result([lf EXCEPT ![s] = R, !.ops = lf.ops], Messages(s, id, e, st.out), n.ok)
  <2>1. r = Result([lf EXCEPT ![s] = IF st.alive THEN Put(@, id, n.e) ELSE Erase(@, id),
                              !.ops = n.ops], Messages(s, id, e, st.out), n.ok)
    BY <1>3, <1>5, <1>7, Zenon DEF Evaluate
  <2> QED BY <1>8, <1>10, <2>1
<1>14. PICK N : N = [lf EXCEPT ![s] = R, !.ops = lf.ops]
  OBVIOUS
<1>15. r.leaf = N /\ r.out = Messages(s, id, e, st.out) /\ r.ok = n.ok
  <2>1. r = Result(N, Messages(s, id, e, st.out), n.ok)
    BY <1>13, <1>14, Zenon
  <2>2. PICK M, K : M = Messages(s, id, e, st.out) /\ K = n.ok
    OBVIOUS
  <2>3. Result(N, M, K).leaf = N /\ Result(N, M, K).out = M /\ Result(N, M, K).ok = K
    BY ResultParts
  <2> QED BY <2>1, <2>2, <2>3, Zenon
<1>16. GoodLeaf(N, k)
  BY <1>11, <1>14, LeafUpdate
<1> QED BY <1>8, <1>12, <1>15, <1>16 DEF GoodResult

\* A result of good parts.
LEMMA ResultGood ==
    ASSUME NEW lf, NEW out \in Seq(Message), NEW ok \in BOOLEAN, NEW k, GoodLeaf(lf, k)
    PROVE  GoodResult(Result(lf, out, ok), k)
BY ResultParts DEF GoodResult

----------------------------------------------------------------------------
(* The handlers of the messages.                                           *)

\* What a lookup by identifier finds is in the register.
LEMMA FindUsed ==
    ASSUME NEW r, NEW x, Visible(r, x) # {}
    PROVE  Find(r, x) \in DOMAIN r.elem /\ ~r.elem[Find(r, x)].hidden
BY DEF Find, Visible

\* A description: the peer is told that nothing here has the identifier, or the
\* machine of the object that has it takes a step.
LEMMA OnDescriptionGood ==
    ASSUME NEW lf, NEW k, k = "started", GoodLeaf(lf, k),
           NEW m \in Message, m.type = "Description"
    PROVE  GoodResult(OnDescription(lf, m, RemoteIsNode), k)
<1>1. m.to \in Sides /\ m.own \in Nat
  BY DEF Message
<1>2. PICK s \in Sides : s = m.to
  BY <1>1
<1>3. CASE Visible(lf[s], m.identifier) = {}
  <2>1. PICK o : o = <<[type |-> "Noticed", to |-> Opposite(s), id |-> m.own]>>
    OBVIOUS
  <2>2. o \in Seq(Message)
    <3>1. Opposite(s) \in Sides
      BY SidesFacts
    <3>2. [type |-> "Noticed", to |-> Opposite(s), id |-> m.own] \in Message
      BY <1>1, <3>1 DEF Message
    <3> QED BY <2>1, <3>2
  <2>3. PICK y \in BOOLEAN : y = TRUE
    OBVIOUS
  <2>4. OnDescription(lf, m, RemoteIsNode) = Result(lf, o, y)
    BY <1>2, <1>3, <2>1, <2>3, Zenon DEF OnDescription
  <2>5. GoodResult(Result(lf, o, y), k)
    <3>1. y \in BOOLEAN
      BY <2>3
    <3> QED BY <2>2, <3>1, ResultGood
  <2> QED BY <2>4, <2>5, Zenon
<1>4. CASE Visible(lf[s], m.identifier) # {}
  <2>1. PICK id : id = Find(lf[s], m.identifier)
    OBVIOUS
  <2>2. id \in DOMAIN lf[s].elem
    BY <1>4, <2>1, FindUsed
  <2>3. PICK st : st = process_rcvd_description(lf[s].elem[id].fsm, m.own)
    OBVIOUS
  <2>4. lf[s].elem[id].fsm \in Fsm
    <3>1. lf[s].elem[id] \in Entry
      BY <2>2, SideOf
    <3> QED BY <3>1 DEF Entry
  <2>5. Legal(lf[s].elem[id].fsm, st)
    BY <1>1, <2>3, <2>4, DescriptionSteps
  <2>6. PICK r : r = Evaluate(lf, s, id, st, RemoteIsNode)
    OBVIOUS
  <2>7. GoodResult(r, k)
    BY <2>2, <2>5, <2>6, EvaluateGood
  <2>8. OnDescription(lf, m, RemoteIsNode) = r
    BY <1>2, <1>4, <2>1, <2>3, <2>6, Zenon DEF OnDescription
  <2> QED BY <2>7, <2>8, Zenon
<1> QED BY <1>3, <1>4

\* A message about an element by its id: its machine takes a step, or the
\* assertion that the id is in use fails.
LEMMA OnElementGood ==
    ASSUME NEW lf, NEW k, k = "started", GoodLeaf(lf, k),
           NEW m \in Message, NEW st, NEW r,
           m.id \in DOMAIN lf[m.to].elem => Legal(lf[m.to].elem[m.id].fsm, st),
           r = OnElement(lf, m, st, RemoteIsNode)
    PROVE  GoodResult(r, k)
<1>1. m.to \in Sides
  BY DEF Message
<1>2. PICK s \in Sides : s = m.to
  BY <1>1
<1>3. PICK id : id = m.id
  OBVIOUS
<1>4. CASE id \in DOMAIN lf[s].elem
  <2>1. r = Evaluate(lf, s, id, st, RemoteIsNode)
    BY <1>2, <1>3, <1>4, Zenon DEF OnElement, Used
  <2> QED BY <1>2, <1>3, <1>4, <2>1, EvaluateGood
<1>5. CASE id \notin DOMAIN lf[s].elem
  <2>1. PICK y \in BOOLEAN : y = FALSE
    OBVIOUS
  <2>0. <<>> \in Seq(Message)
    OBVIOUS
  <2>2. PICK o \in Seq(Message) : o = <<>>
    BY <2>0, Zenon
  <2>3. r = Result(lf, o, y)
    BY <1>2, <1>3, <1>5, <2>1, <2>2, Zenon DEF OnElement, Used, AssertionFails
  <2>4. GoodResult(Result(lf, o, y), k)
    <3>1. y \in BOOLEAN
      BY <2>1
    <3> QED BY <2>2, <3>1, ResultGood
  <2> QED BY <2>3, <2>4, Zenon
<1> QED BY <1>4, <1>5

\* The four messages that name an element by its id.
LEMMA OnMessageGood ==
    ASSUME NEW lf, NEW k, k = "started", GoodLeaf(lf, k), NEW m \in Message
    PROVE  /\ m.type = "Mapping" => GoodResult(OnMapping(lf, m, RemoteIsNode), k)
           /\ m.type = "Noticed" => GoodResult(OnNoticed(lf, m, RemoteIsNode), k)
           /\ m.type = "Removed" => GoodResult(OnRemoved(lf, m, RemoteIsNode), k)
           /\ m.type = "RemovedAck" => GoodResult(OnRemovedAck(lf, m, RemoteIsNode), k)
<1>1. m.to \in Sides
  BY DEF Message
<1>2. m.id \in DOMAIN lf[m.to].elem => lf[m.to].elem[m.id].fsm \in Fsm
  <2> SUFFICES ASSUME m.id \in DOMAIN lf[m.to].elem PROVE lf[m.to].elem[m.id].fsm \in Fsm
    OBVIOUS
  <2>1. lf[m.to].elem[m.id] \in Entry
    BY <1>1, SideOf
  <2> QED BY <2>1 DEF Entry
<1> DEFINE f == lf[m.to].elem[m.id].fsm
<1>3. ASSUME m.type = "Mapping" PROVE GoodResult(OnMapping(lf, m, RemoteIsNode), k)
  <2>1. PICK st : st = process_rcvd_mapping(f, m.own)
    OBVIOUS
  <2>2. m.own \in Nat
    BY <1>3 DEF Message
  <2>3. m.id \in DOMAIN lf[m.to].elem => Legal(f, st)
    BY <1>2, <2>1, <2>2, MappingSteps
  <2>4. PICK r : r = OnElement(lf, m, st, RemoteIsNode)
    OBVIOUS
  <2>5. GoodResult(r, k)
    BY <2>3, <2>4, OnElementGood
  <2>6. OnMapping(lf, m, RemoteIsNode) = r
    BY <2>1, <2>4, Zenon DEF OnMapping
  <2> QED BY <2>5, <2>6, Zenon
<1>4. GoodResult(OnNoticed(lf, m, RemoteIsNode), k)
  <2>1. PICK st : st = process_rcvd_noticed(f)
    OBVIOUS
  <2>3. m.id \in DOMAIN lf[m.to].elem => Legal(f, st)
    BY <1>2, <2>1, NoticedSteps
  <2>4. PICK r : r = OnElement(lf, m, st, RemoteIsNode)
    OBVIOUS
  <2>5. GoodResult(r, k)
    BY <2>3, <2>4, OnElementGood
  <2>6. OnNoticed(lf, m, RemoteIsNode) = r
    BY <2>1, <2>4, Zenon DEF OnNoticed
  <2> QED BY <2>5, <2>6, Zenon
<1>5. GoodResult(OnRemoved(lf, m, RemoteIsNode), k)
  <2>1. PICK st : st = process_rcvd_removed(f)
    OBVIOUS
  <2>3. m.id \in DOMAIN lf[m.to].elem => Legal(f, st)
    BY <1>2, <2>1, RemovedSteps
  <2>4. PICK r : r = OnElement(lf, m, st, RemoteIsNode)
    OBVIOUS
  <2>5. GoodResult(r, k)
    BY <2>3, <2>4, OnElementGood
  <2>6. OnRemoved(lf, m, RemoteIsNode) = r
    BY <2>1, <2>4, Zenon DEF OnRemoved
  <2> QED BY <2>5, <2>6, Zenon
<1>6. GoodResult(OnRemovedAck(lf, m, RemoteIsNode), k)
  <2>1. PICK st : st = process_rcvd_removed_ack(f)
    OBVIOUS
  <2>3. m.id \in DOMAIN lf[m.to].elem => Legal(f, st)
    BY <1>2, <2>1, RemovedAckSteps
  <2>4. PICK r : r = OnElement(lf, m, st, RemoteIsNode)
    OBVIOUS
  <2>5. GoodResult(r, k)
    BY <2>3, <2>4, OnElementGood
  <2>6. OnRemovedAck(lf, m, RemoteIsNode) = r
    BY <2>1, <2>4, Zenon DEF OnRemovedAck
  <2> QED BY <2>5, <2>6, Zenon
<1> QED BY <1>3, <1>4, <1>5, <1>6

----------------------------------------------------------------------------
(* The operations of the user.                                             *)

\* Every result of the machine of an object that is destroyed is one of a step.
LEMMA DestroyedSteps ==
    ASSUME NEW f \in Fsm
    PROVE  process_object_destroyed(f) \in FsmSteps
<1>0. /\ <<>> \in Seq(Outs) /\ <<Out("Removed", f.mapped)>> \in Seq(Outs)
      /\ <<>> \in Changes
  BY OutsType DEF Fsm, Changes
<1>1. \A g \in Fsm, o \in Seq(Outs) : Step(g, o, <<>>) \in FsmSteps
  BY <1>0 DEF Step, FsmSteps
<1>2. Dead(f) \in FsmSteps /\ NeverReached(f) \in FsmSteps
  BY StepEnds DEF Legal
<1>3. \A t \in States : To(f, t) \in Fsm
  BY DEF To, Fsm
<1>4. CASE f.state = "MAPPED_CONFIRMED"
  <2>1. process_object_destroyed(f) = Step(To(f, "AWAIT_ACK"), <<Out("Removed", f.mapped)>>, <<>>)
    BY <1>4 DEF process_object_destroyed
  <2> QED BY <1>0, <1>1, <1>3, <2>1 DEF States
<1>5. CASE f.state = "UNUSED_CONFIRMED" /\ f.skip > 0
  <2>1. process_object_destroyed(f) = Step(To(f, "AWAIT_REMOVALS"), <<>>, <<>>)
    BY <1>5 DEF process_object_destroyed
  <2> QED BY <1>0, <1>1, <1>3, <2>1 DEF States
<1>6. CASE f.state = "UNUSED_CONFIRMED" /\ f.skip = 0
  <2>1. process_object_destroyed(f) = Dead(f)
    BY <1>6 DEF process_object_destroyed
  <2> QED BY <1>2, <2>1
<1>7. CASE f.state \in {"MAPPED_UNCONFIRMED", "UNUSED_UNCONFIRMED"}
  <2>1. process_object_destroyed(f) = Step(To(f, "AWAIT_CONFIRMATION"), <<>>, <<>>)
    BY <1>7 DEF process_object_destroyed
  <2> QED BY <1>0, <1>1, <1>3, <2>1 DEF States
<1>8. CASE destroyed(f)
  <2>1. process_object_destroyed(f) = NeverReached(f)
    BY <1>8 DEF process_object_destroyed, destroyed
  <2> QED BY <1>2, <2>1
<1> QED BY <1>4, <1>5, <1>6, <1>7, <1>8 DEF Fsm, States, destroyed

\* The machine of an object at the start of a connection.
LEMMA ResetFsm ==
    ASSUME NEW f, NEW h \in BOOLEAN
    PROVE  /\ reset(f, h).fsm \in Fsm /\ ~is_mapped(reset(f, h).fsm)
           /\ reset(f, h).out \in Seq(Outs)
<1>1. InitialFsm \in Fsm /\ ~is_mapped(InitialFsm)
  BY DEF InitialFsm, Fsm, States, NoId, is_mapped
<1>2. /\ To(InitialFsm, "UNUSED_UNCONFIRMED") \in Fsm
      /\ ~is_mapped(To(InitialFsm, "UNUSED_UNCONFIRMED"))
  BY DEF InitialFsm, Fsm, States, NoId, is_mapped, To
<1>3. <<Out("Description", NoId)>> \in Seq(Outs) /\ <<>> \in Seq(Outs)
  BY OutsType DEF NoId
<1>4. CASE h
  <2>1. reset(f, h) = Step(InitialFsm, <<>>, <<>>)
    BY <1>4, Zenon DEF reset
  <2>2. reset(f, h).fsm = InitialFsm /\ reset(f, h).out = <<>>
    BY <2>1 DEF Step
  <2> QED BY <1>1, <1>3, <2>2
<1>5. CASE ~h
  <2>1. reset(f, h) = Step(To(InitialFsm, "UNUSED_UNCONFIRMED"), <<Out("Description", NoId)>>, <<>>)
    BY <1>5, Zenon DEF reset
  <2>2. /\ reset(f, h).fsm = To(InitialFsm, "UNUSED_UNCONFIRMED")
        /\ reset(f, h).out = <<Out("Description", NoId)>>
    BY <2>1 DEF Step
  <2> QED BY <1>2, <1>3, <2>2
<1> QED BY <1>4, <1>5

\* A new object.
LEMMA CreateGood ==
    ASSUME NEW lf, NEW k, GoodLeaf(lf, k), NEW s \in Sides, NEW x \in Identifiers,
           NEW B \in SUBSET Members, NEW c \in BOOLEAN, NEW r, r = Create(lf, s, x, B, c)
    PROVE  GoodResult(r, k)
<1>1. PICK f : f = IF c THEN reset(InitialFsm, FALSE) ELSE Step(InitialFsm, <<>>, <<>>)
  OBVIOUS
<1>2. f.fsm \in Fsm /\ ~is_mapped(f.fsm) /\ f.out \in Seq(Outs)
  <2>0. PICK h \in BOOLEAN : h = FALSE
    OBVIOUS
  <2>1. CASE c
    <3>1. f = reset(InitialFsm, h)
      BY <1>1, <2>0, <2>1, Zenon
    <3>2. h \in BOOLEAN
      BY <2>0
    <3> QED BY <3>1, <3>2, ResetFsm
  <2>2. CASE ~c
    <3>1. f.fsm = InitialFsm /\ f.out = <<>>
      BY <1>1, <2>2 DEF Step
    <3> QED BY <3>1, OutsType DEF InitialFsm, Fsm, States, NoId, is_mapped
  <2> QED BY <2>1, <2>2
<1>3. PICK e : e = [NewEntry(x, B) EXCEPT !.fsm = f.fsm]
  OBVIOUS
<1>4. e = [identifier |-> x, hidden |-> FALSE, fsm |-> f.fsm, established |-> FALSE,
           bindings |-> B, published |-> {}, sent |-> NoData]
  BY <1>3 DEF NewEntry
<1>5. e \in Entry /\ Proper(e, k) /\ e.identifier = x
  BY <1>2, <1>4 DEF Entry, Proper, Shows, Published, NoData
<1>6. Sound(lf[s]) /\ (s = "Binding" => ShownIn(lf[s], k))
  BY SideOf
<1>7. NextId(lf[s]) \in Nat
  BY <1>6, NextIdFresh
<1>8. PICK R : R = Insert(lf[s], e)
  OBVIOUS
<1>9. Sound(R) /\ (s = "Binding" => ShownIn(R, k))
  <2>1. /\ Sound(R) /\ DOMAIN R.elem = DOMAIN lf[s].elem \cup {NextId(lf[s])}
        /\ R.elem[NextId(lf[s])] = e
        /\ \A id \in DOMAIN lf[s].elem : R.elem[id] = lf[s].elem[id]
    BY <1>5, <1>6, <1>8, InsertSound
  <2> QED BY <1>5, <1>6, <2>1 DEF ShownIn
<1>10. PICK N, M : N = [lf EXCEPT ![s] = R] /\ M = Messages(s, NextId(lf[s]), e, f.out)
  OBVIOUS
<1>11. GoodLeaf(N, k)
  BY <1>9, <1>10, LeafUpdate
<1>12. M \in Seq(Message)
  BY <1>2, <1>5, <1>7, <1>10, MessagesType
<1>13. PICK y \in BOOLEAN : y = TRUE
  OBVIOUS
<1>14. r = Result(N, M, y)
  <2>1. r = Result([lf EXCEPT ![s] = Insert(lf[s], e)], Messages(s, NextId(lf[s]), e, f.out), TRUE)
    BY <1>1, <1>3, Zenon DEF Create
  <2> QED BY <1>8, <1>10, <1>13, <2>1, Zenon
<1>15. GoodResult(Result(N, M, y), k)
  <2>1. y \in BOOLEAN
    BY <1>13
  <2> QED BY <1>11, <1>12, <2>1, ResultGood
<1> QED BY <1>14, <1>15, Zenon

\* A terminal whose identifier is taken.
LEMMA CreateAmbiguousGood ==
    ASSUME NEW lf, NEW k, GoodLeaf(lf, k), NEW s \in Sides, NEW r, r = CreateAmbiguous(lf, s)
    PROVE  GoodResult(r, k)
<1>1. Sound(lf[s]) /\ (s = "Binding" => ShownIn(lf[s], k))
  BY SideOf
<1>2. Sound(Grow(lf[s])) /\ (s = "Binding" => ShownIn(Grow(lf[s]), k))
  <2>1. Sound(Grow(lf[s])) /\ Grow(lf[s]).elem = lf[s].elem
    BY <1>1, GrowSound
  <2> QED BY <1>1, <2>1 DEF ShownIn
<1>3. PICK N : N = [lf EXCEPT ![s] = Grow(lf[s])]
  OBVIOUS
<1>4. GoodLeaf(N, k)
  BY <1>2, <1>3, LeafUpdate
<1>5. PICK y \in BOOLEAN, o \in {<<>>} : y = TRUE /\ o = <<>>
  OBVIOUS
<1>6. r = Result(N, o, y)
  BY <1>3, <1>5, Zenon DEF CreateAmbiguous
<1>7. GoodResult(Result(N, o, y), k)
  <2>1. y \in BOOLEAN /\ o \in Seq(Message)
    BY <1>5
  <2> QED BY <1>4, <2>1, ResultGood
<1> QED BY <1>6, <1>7, Zenon

\* A binding that joins a group shows what the group shows.
LEMMA JoinGroupGood ==
    ASSUME NEW lf, NEW k, GoodLeaf(lf, k), NEW x, NEW b \in Members,
           Visible(lf["Binding"], x) # {}, NEW r, r = JoinGroup(lf, x, b)
    PROVE  GoodResult(r, k)
<1>0. "Binding" \in Sides
  BY DEF Sides
<1>1. Sound(lf["Binding"]) /\ ShownIn(lf["Binding"], k)
  BY <1>0, SideOf
<1>2. PICK g : g = Grow(lf["Binding"])
  OBVIOUS
<1>3. Sound(g) /\ g.elem = lf["Binding"].elem
  BY <1>1, <1>2, GrowSound
<1>4. ShownIn(g, k) /\ Visible(g, x) # {}
  BY <1>1, <1>3 DEF ShownIn, Visible
<1>5. PICK id : id = Find(g, x)
  OBVIOUS
<1>6. id \in DOMAIN g.elem /\ ~g.elem[id].hidden
  BY <1>4, <1>5, FindUsed
<1>7. PICK e : e = g.elem[id]
  OBVIOUS
<1>8. e \in Entry /\ Shows(e, k)
  <2>1. g.elem \in [DOMAIN g.elem -> Entry]
    BY <1>3, PartsOfSound
  <2> QED BY <1>4, <1>6, <1>7, <2>1 DEF ShownIn, Proper
<1>9. PICK n : n = [e EXCEPT !.bindings = e.bindings \cup {b},
                             !.published = IF e.established THEN e.published \cup {b}
                                                            ELSE e.published]
  OBVIOUS
<1>10. n \in Entry /\ Proper(n, k)
  <2>1. /\ n.identifier = e.identifier /\ n.hidden = e.hidden /\ n.fsm = e.fsm
        /\ n.established = e.established /\ n.sent = e.sent
        /\ n.bindings = e.bindings \cup {b}
        /\ n.published = IF e.established THEN e.published \cup {b} ELSE e.published
    BY <1>8, <1>9 DEF Entry
  <2>2. n \in Entry
    BY <1>8, <1>9 DEF Entry
  <2>3. Shows(n, k) /\ ~n.hidden
    BY <1>6, <1>7, <1>8, <2>1 DEF Shows, Published
  <2> QED BY <2>2, <2>3 DEF Proper
<1>11. PICK R : R = Put(g, id, n)
  OBVIOUS
<1>12. Sound(R) /\ ShownIn(R, k)
  BY <1>3, <1>4, <1>6, <1>10, <1>11, PutSound, PutShown
<1>13. PICK N : N = [lf EXCEPT !["Binding"] = R]
  OBVIOUS
<1>14. GoodLeaf(N, k)
  BY <1>0, <1>12, <1>13, LeafUpdate
<1>15. PICK y \in BOOLEAN, o \in {<<>>} : y = TRUE /\ o = <<>>
  OBVIOUS
<1>16. r = Result(N, o, y)
  BY <1>2, <1>5, <1>7, <1>9, <1>11, <1>13, <1>15, Zenon DEF JoinGroup
<1>17. GoodResult(Result(N, o, y), k)
  <2>1. y \in BOOLEAN /\ o \in Seq(Message)
    BY <1>15
  <2> QED BY <1>14, <2>1, ResultGood
<1> QED BY <1>16, <1>17, Zenon

\* A binding leaves a group that keeps others.
LEMMA LeaveGroupGood ==
    ASSUME NEW lf, NEW k, GoodLeaf(lf, k), NEW id \in DOMAIN lf["Binding"].elem, NEW b \in Members,
           NEW c \in BOOLEAN, NEW r, r = LeaveGroup(lf, id, b, c)
    PROVE  GoodResult(r, k)
<1>0. "Binding" \in Sides
  BY DEF Sides
<1>1. PICK g : g = lf["Binding"]
  OBVIOUS
<1>2. Sound(g) /\ ShownIn(g, k) /\ id \in DOMAIN g.elem
  BY <1>0, <1>1, SideOf
<1>3. PICK e : e = g.elem[id]
  OBVIOUS
<1>4. e \in Entry /\ Proper(e, k)
  <2>1. g.elem \in [DOMAIN g.elem -> Entry]
    BY <1>2, PartsOfSound
  <2> QED BY <1>2, <1>3, <2>1 DEF ShownIn
<1>5. PICK n : n = [e EXCEPT !.bindings = e.bindings \ {b}, !.published = e.published \ {b}]
  OBVIOUS
<1>6. n \in Entry /\ Proper(n, k)
  <2>1. /\ n.identifier = e.identifier /\ n.hidden = e.hidden /\ n.fsm = e.fsm
        /\ n.established = e.established /\ n.sent = e.sent
        /\ n.bindings = e.bindings \ {b} /\ n.published = e.published \ {b}
    BY <1>4, <1>5 DEF Entry
  <2>2. n \in Entry
    BY <1>4, <1>5 DEF Entry
  <2>3. Proper(n, k)
    BY <1>4, <2>1 DEF Proper, Shows, Published
  <2> QED BY <2>2, <2>3
<1>7. PICK R : R = Put(g, id, n)
  OBVIOUS
<1>8. Sound(R) /\ ShownIn(R, k)
  BY <1>2, <1>6, <1>7, PutSound, PutShown
<1>9. PICK N : N = [lf EXCEPT !["Binding"] = R, !.ops = lf.ops]
  OBVIOUS
<1>10. GoodLeaf(N, k)
  BY <1>0, <1>8, <1>9, LeafUpdate
<1>11. PICK y \in BOOLEAN, o \in {<<>>} : y = TRUE /\ o = <<>>
  OBVIOUS
<1>12. r = Result(N, o, y)
  <2>1. Answered(lf, id, b, c) = OpsStep(lf.ops, <<>>, TRUE)
    BY PairAssumption, Zenon DEF Answered
  <2>2. PICK a : a = OpsStep(lf.ops, o, y)
    OBVIOUS
  <2>3. a.ops = lf.ops /\ a.out = o /\ a.ok = y
    BY <2>2 DEF OpsStep
  <2>4. a = Answered(lf, id, b, c)
    BY <1>11, <2>1, <2>2, Zenon
  <2>5. r = Result([lf EXCEPT !["Binding"] = Put(g, id, n), !.ops = a.ops], a.out, a.ok)
    BY <1>1, <1>3, <1>5, <2>4, Zenon DEF LeaveGroup
  <2> QED BY <1>7, <1>9, <2>3, <2>5, Zenon
<1>13. GoodResult(Result(N, o, y), k)
  <2>1. y \in BOOLEAN /\ o \in Seq(Message)
    BY <1>11
  <2> QED BY <1>10, <2>1, ResultGood
<1> QED BY <1>12, <1>13, Zenon

\* To hide an element is to replace it.
LEMMA HideIsPut ==
    ASSUME NEW g, Sound(g), NEW id \in DOMAIN g.elem, NEW e \in Entry
    PROVE  Hide(Put(g, id, e), id) = Put(g, id, [e EXCEPT !.hidden = TRUE])
<1>1. g = [size |-> g.size, free |-> g.free, elem |-> g.elem]
  BY PartsOfSound
<1>2. Put(g, id, e) = [size |-> g.size, free |-> g.free, elem |-> [g.elem EXCEPT ![id] = e]]
  BY <1>1 DEF Put
<1>3. PICK n : n = [e EXCEPT !.hidden = TRUE]
  OBVIOUS
<1>4. Put(g, id, n) = [size |-> g.size, free |-> g.free, elem |-> [g.elem EXCEPT ![id] = n]]
  BY <1>1 DEF Put
<1>5. Hide(Put(g, id, e), id)
        = [size |-> g.size, free |-> g.free,
           elem |-> [[g.elem EXCEPT ![id] = e] EXCEPT ![id] = n]]
  BY <1>2, <1>3 DEF Hide
<1>6. [[g.elem EXCEPT ![id] = e] EXCEPT ![id] = n] = [g.elem EXCEPT ![id] = n]
  OBVIOUS
<1> QED BY <1>3, <1>4, <1>5, <1>6, Zenon

\* A destroyed object is hidden while its machine lives, or erased.
LEMMA DestroyGood ==
    ASSUME NEW lf, NEW k, GoodLeaf(lf, k), NEW s \in Sides, NEW id \in DOMAIN lf[s].elem,
           NEW c \in BOOLEAN, NEW r, r = Destroy(lf, s, id, c)
    PROVE  GoodResult(r, k)
<1>1. PICK e : e = lf[s].elem[id]
  OBVIOUS
<1>2. /\ Sound(lf[s]) /\ id \in Nat /\ e \in Entry
      /\ s = "Binding" => ShownIn(lf[s], k)
  BY <1>1, SideOf
<1>3. PICK st : st = IF c THEN process_object_destroyed(e.fsm) ELSE Dead(e.fsm)
  OBVIOUS
<1>4. st \in FsmSteps
  <2>1. e.fsm \in Fsm
    BY <1>2 DEF Entry
  <2> QED BY <1>3, <2>1, DestroyedSteps, StepEnds DEF Legal
<1>5. /\ st.fsm \in Fsm /\ st.out \in Seq(Outs) /\ st.alive \in BOOLEAN /\ st.ok \in BOOLEAN
  BY <1>4 DEF FsmSteps
<1>6. PICK n : n = [[e EXCEPT !.bindings = {}, !.published = {}] EXCEPT !.fsm = st.fsm]
  OBVIOUS
<1>7. n \in Entry
  BY <1>2, <1>5, <1>6 DEF Entry
<1>8. PICK h : h = [n EXCEPT !.hidden = TRUE]
  OBVIOUS
<1>9. h \in Entry /\ Proper(h, k)
  <2>1. h.hidden /\ h.bindings = {}
    BY <1>2, <1>5, <1>6, <1>8 DEF Entry
  <2> QED BY <1>7, <1>8, <2>1 DEF Entry, Proper
<1>10. PICK R : R = IF st.alive THEN Hide(Put(lf[s], id, n), id) ELSE Erase(Put(lf[s], id, n), id)
  OBVIOUS
<1>11. Sound(R) /\ (s = "Binding" => ShownIn(R, k))
  <2>1. CASE st.alive
    <3>1. R = Put(lf[s], id, h)
      BY <1>2, <1>7, <1>8, <1>10, <2>1, HideIsPut
    <3> QED BY <1>2, <1>9, <3>1, PutSound, PutShown
  <2>2. CASE ~st.alive
    <3>1. PICK P : P = Put(lf[s], id, n)
      OBVIOUS
    <3>2. /\ Sound(P) /\ DOMAIN P.elem = DOMAIN lf[s].elem
          /\ \A i \in DOMAIN lf[s].elem \ {id} : P.elem[i] = lf[s].elem[i]
      BY <1>2, <1>7, <3>1, PutSound
    <3>3. R = Erase(P, id)
      BY <1>10, <2>2, <3>1
    <3>4. /\ Sound(R) /\ DOMAIN R.elem = DOMAIN P.elem \ {id}
          /\ \A i \in DOMAIN P.elem \ {id} : R.elem[i] = P.elem[i]
      BY <3>2, <3>3, EraseSound
    <3> QED BY <1>2, <3>2, <3>4 DEF ShownIn
  <2> QED BY <2>1, <2>2
<1>12. PICK N, M : N = [lf EXCEPT ![s] = R, !.ops = lf.ops] /\ M = Messages(s, id, e, st.out)
  OBVIOUS
<1>13. GoodLeaf(N, k)
  BY <1>11, <1>12, LeafUpdate
<1>14. M \in Seq(Message)
  BY <1>2, <1>5, <1>12, MessagesType DEF Entry
<1>15. <<>> \o M = M
  BY <1>14
<1>16. PICK y \in BOOLEAN, o \in {<<>>} : y = TRUE /\ o = <<>>
  OBVIOUS
<1>17. PICK a : a = OpsStep(lf.ops, o, y)
  OBVIOUS
<1>18. a.ops = lf.ops /\ a.out = o /\ a.ok = y
  BY <1>17 DEF OpsStep
<1>19. a = CASE s = "Terminal" /\ Scattering -> on_terminal_removed(lf.ops, id)
             [] s = "Binding" -> Answered(lf, id, CHOOSE b \in e.bindings : TRUE, c)
             [] OTHER -> OpsStep(lf.ops, <<>>, TRUE)
  <2>0. a = OpsStep(lf.ops, <<>>, TRUE)
    BY <1>16, <1>17, Zenon
  <2>1. CASE s = "Terminal"
    BY <2>0, <2>1, PairAssumption, Zenon
  <2>2. CASE s = "Binding"
    <3>1. Answered(lf, id, CHOOSE b \in e.bindings : TRUE, c) = OpsStep(lf.ops, <<>>, TRUE)
      BY PairAssumption, Zenon DEF Answered
    <3> QED BY <2>0, <2>2, <3>1, PairAssumption, Zenon
  <2> QED BY <2>1, <2>2, SidesFacts
<1>20. PICK K \in BOOLEAN : K = (a.ok /\ st.ok)
  OBVIOUS
<1>21. r = Result(N, M, K)
  <2>1. r = Result([lf EXCEPT ![s] = R, !.ops = a.ops], a.out \o M, a.ok /\ st.ok)
    BY <1>1, <1>3, <1>6, <1>10, <1>12, <1>19, Zenon DEF Destroy
  <2> QED BY <1>12, <1>15, <1>16, <1>18, <1>20, <2>1, Zenon
<1>22. GoodResult(Result(N, M, K), k)
  <2>1. K \in BOOLEAN
    BY <1>20
  <2> QED BY <1>13, <1>14, <2>1, ResultGood
<1> QED BY <1>21, <1>22, Zenon

----------------------------------------------------------------------------
(* The connection starts and ends.                                         *)

\* All elements of a register are replaced at once.
LEMMA ElemReplaced ==
    ASSUME NEW g, Sound(g), NEW E \in [DOMAIN g.elem -> Entry]
    PROVE  Sound([g EXCEPT !.elem = E]) /\ [g EXCEPT !.elem = E].elem = E
<1>1. /\ g = [size |-> g.size, free |-> g.free, elem |-> g.elem]
      /\ g.size \in Nat /\ g.free \in Seq(1..g.size)
      /\ DOMAIN g.elem \subseteq 1..g.size
      /\ \A i, j \in 1..Len(g.free) : g.free[i] = g.free[j] => i = j
      /\ \A i \in 1..Len(g.free) : g.free[i] \notin DOMAIN g.elem
      /\ \A id \in 1..g.size :
            id \in DOMAIN g.elem \/ \E i \in 1..Len(g.free) : g.free[i] = id
  BY PartsOfSound
<1>2. DOMAIN E = DOMAIN g.elem
  OBVIOUS
<1>3. [g EXCEPT !.elem = E] = [size |-> g.size, free |-> g.free, elem |-> E]
  BY <1>1
<1>4. Sound([size |-> g.size, free |-> g.free, elem |-> E])
  <2>1. DOMAIN E \subseteq 1..g.size /\ E \in [DOMAIN E -> Entry]
    BY <1>1, <1>2
  <2>2. \A i \in 1..Len(g.free) : g.free[i] \notin DOMAIN E
    BY <1>1, <1>2
  <2>3. \A id \in 1..g.size : id \in DOMAIN E \/ \E i \in 1..Len(g.free) : g.free[i] = id
    BY <1>1, <1>2
  <2> QED BY <1>1, <2>1, <2>2, <2>3, SoundParts
<1> QED BY <1>3, <1>4

\* The machines of one side are reset: none is mapped, all else stays.
Reset(e, n) ==
    /\ n \in Entry /\ ~is_mapped(n.fsm) /\ SameObject(e, n)
    /\ n.established = e.established /\ n.published = e.published

\* The machines of one side of a Leaf are reset.
LEMMA ResetSideSound ==
    ASSUME NEW lf, SoundLeaf(lf), NEW s \in Sides, NEW h \in BOOLEAN,
           NEW n, n = ResetSide(lf, s, h)
    PROVE  /\ SoundLeaf(n) /\ n[Opposite(s)] = lf[Opposite(s)]
           /\ DOMAIN n[s].elem = DOMAIN lf[s].elem
           /\ \A id \in DOMAIN lf[s].elem :
                 /\ Reset(lf[s].elem[id], n[s].elem[id])
                 /\ n[s].elem[id].fsm = reset(lf[s].elem[id].fsm, h).fsm
<1>1. PICK g : g = lf[s]
  OBVIOUS
<1>2. Sound(g) /\ DOMAIN lf = {"Terminal", "Binding", "ops"} /\ IsOps(lf.ops)
  BY <1>1 DEF SoundLeaf
<1>3. g.elem \in [DOMAIN g.elem -> Entry]
  BY <1>2, PartsOfSound
<1>4. PICK E : E = [id \in DOMAIN g.elem |->
                      [g.elem[id] EXCEPT !.fsm = reset(g.elem[id].fsm, h).fsm]]
  OBVIOUS
<1>5. \A id \in DOMAIN g.elem : /\ Reset(g.elem[id], E[id])
                                /\ E[id].fsm = reset(g.elem[id].fsm, h).fsm
  <2> SUFFICES ASSUME NEW id \in DOMAIN g.elem
               PROVE  Reset(g.elem[id], E[id]) /\ E[id].fsm = reset(g.elem[id].fsm, h).fsm
    OBVIOUS
  <2>1. PICK f : f = reset(g.elem[id].fsm, h).fsm
    OBVIOUS
  <2>2. f \in Fsm /\ ~is_mapped(f)
    BY <2>1, ResetFsm
  <2>3. E[id] = [g.elem[id] EXCEPT !.fsm = f]
    BY <1>4, <2>1
  <2>4. g.elem[id] \in Entry
    BY <1>3
  <2>5. E[id].fsm = f
    BY <2>3, <2>4 DEF Entry
  <2> QED BY <2>1, <2>2, <2>3, <2>4, <2>5 DEF Reset, Entry, SameObject
<1>6. E \in [DOMAIN g.elem -> Entry]
  <2>1. \A id \in DOMAIN g.elem : E[id] \in Entry
    BY <1>5 DEF Reset
  <2> QED BY <1>4, <2>1
<1>7. PICK R : R = [g EXCEPT !.elem = E]
  OBVIOUS
<1>8. Sound(R) /\ R.elem = E
  BY <1>2, <1>6, <1>7, ElemReplaced
<1>9. n = [lf EXCEPT ![s] = R]
  <2>1. n = [lf EXCEPT ![s].elem = E]
    BY <1>1, <1>4 DEF ResetSide
  <2>2. s \in DOMAIN lf
    BY <1>2 DEF Sides
  <2> QED BY <1>1, <1>7, <2>1, <2>2
<1>10. /\ DOMAIN n = DOMAIN lf /\ n.ops = lf.ops /\ n[s] = R
       /\ \A t \in Sides : t # s => n[t] = lf[t]
  BY <1>2, <1>9 DEF Sides
<1>11. SoundLeaf(n)
  BY <1>2, <1>8, <1>10 DEF SoundLeaf
<1>12. n[Opposite(s)] = lf[Opposite(s)]
  BY <1>10, SidesFacts
<1>13. n[s].elem = E /\ DOMAIN E = DOMAIN g.elem
  BY <1>4, <1>8, <1>10
<1> QED BY <1>1, <1>5, <1>11, <1>12, <1>13

\* The descriptions of a side.
LEMMA DescriptionsType ==
    ASSUME NEW lf, SoundLeaf(lf), NEW s \in Sides, NEW h \in BOOLEAN
    PROVE  Descriptions(lf, s, h) \in Seq(Message)
<1>1. PICK D : D = DOMAIN lf[s].elem
  OBVIOUS
<1>2. /\ IsFiniteSet(D) /\ D \in SUBSET Nat
      /\ \A id \in D : id \in Nat /\ lf[s].elem[id] \in Entry
  <2>1. Sound(lf[s])
    BY DEF SoundLeaf
  <2>2. /\ IsFiniteSet(D) /\ D \subseteq 1..lf[s].size /\ lf[s].size \in Nat
        /\ lf[s].elem \in [D -> Entry]
    BY <1>1, <2>1, FiniteDomain
  <2>3. \A id \in D : id \in Nat
    BY <2>2
  <2>4. \A id \in D : lf[s].elem[id] \in Entry
    BY <2>2
  <2> QED BY <2>2, <2>3, <2>4
<1>3. PICK ids : ids = IF h THEN <<>> ELSE Ascending(D)
  OBVIOUS
<1>4. ids \in Seq(D) /\ Len(ids) \in Nat
  <2>1. CASE h
    <3>1. ids = <<>>
      BY <1>3, <2>1
    <3> QED BY <3>1
  <2>2. CASE ~h
    <3>1. ids \in [1..Cardinality(D) -> D] /\ Cardinality(D) \in Nat
      BY <1>2, <1>3, <2>2, AscendingBijection, FS_CardinalityType
    <3> QED BY <3>1, FunctionIsSeq
  <2> QED BY <2>1, <2>2
<1>5. PICK F : F = [i \in 1..Len(ids) |-> Description(s, ids[i], lf[s].elem[ids[i]].identifier)]
  OBVIOUS
<1>6. F \in [1..Len(ids) -> Message]
  <2>1. ASSUME NEW i \in 1..Len(ids)
        PROVE  Description(s, ids[i], lf[s].elem[ids[i]].identifier) \in Message
    <3>1. PICK id \in D : id = ids[i]
      BY <1>4
    <3>2. id \in Nat /\ lf[s].elem[id].identifier \in Identifiers
      BY <1>2 DEF Entry
    <3>3. Opposite(s) \in Sides
      BY SidesFacts
    <3>4. Description(s, id, lf[s].elem[id].identifier) \in Message
      BY <3>2, <3>3 DEF Description, Message
    <3> QED BY <3>1, <3>4
  <2> QED BY <1>5, <2>1
<1>7. Descriptions(lf, s, h) = F
  BY <1>1, <1>3, <1>5, Zenon DEF Descriptions
<1> QED BY <1>4, <1>6, <1>7, FunctionIsSeq

\* The end of the connection starts: every machine is reset, so no group is
\* mapped, and none was shown to be.
LEMMA StartedGood ==
    ASSUME NEW lf, NEW k, k = "new", GoodLeaf(lf, k), NEW kk, kk = "started",
           NEW r, r = on_connection_started(lf, RemoteIsNode)
    PROVE  GoodResult(r, kk)
<1>0. "Terminal" \in Sides /\ "Binding" \in Sides
      /\ Opposite("Terminal") = "Binding" /\ Opposite("Binding") = "Terminal"
  BY DEF Sides, Opposite
<1>1. PICK h \in BOOLEAN, z \in BOOLEAN : h = ~RemoteIsNode /\ z = FALSE
  BY DEF RemoteIsNode
<1>2. h \in BOOLEAN /\ z \in BOOLEAN
  BY <1>1
<1>3. PICK A : A = ResetSide(lf, "Terminal", h)
  OBVIOUS
<1>4. PICK N : N = ResetSide(A, "Binding", z)
  OBVIOUS
<1>5. SoundLeaf(lf) /\ ShownIn(lf["Binding"], k)
  BY DEF GoodLeaf
<1>6. SoundLeaf(A) /\ A["Binding"] = lf["Binding"]
  BY <1>0, <1>2, <1>3, <1>5, ResetSideSound
<1>7. /\ SoundLeaf(N) /\ DOMAIN N["Binding"].elem = DOMAIN A["Binding"].elem
      /\ \A id \in DOMAIN A["Binding"].elem :
            Reset(A["Binding"].elem[id], N["Binding"].elem[id])
  BY <1>0, <1>2, <1>4, <1>6, ResetSideSound, SMTT(30)
<1>8. ShownIn(N["Binding"], kk)
  <2> SUFFICES ASSUME NEW id \in DOMAIN N["Binding"].elem
               PROVE  Proper(N["Binding"].elem[id], kk)
    BY DEF ShownIn
  <2>1. PICK e, n : e = lf["Binding"].elem[id] /\ n = N["Binding"].elem[id]
    OBVIOUS
  <2>2. Reset(e, n)
    BY <1>6, <1>7, <2>1
  <2>3. Proper(e, k)
    BY <1>5, <1>6, <1>7, <2>1 DEF ShownIn
  <2>4. Proper(n, kk)
    BY <2>2, <2>3 DEF Proper, Reset, SameObject, Shows, Published
  <2> QED BY <2>1, <2>4
<1>9. GoodLeaf(N, kk)
  BY <1>7, <1>8 DEF GoodLeaf
<1>10. PICK o : o = Descriptions(lf, "Terminal", h) \o Descriptions(lf, "Binding", z)
  OBVIOUS
<1>11. o \in Seq(Message)
  <2>1. Descriptions(lf, "Terminal", h) \in Seq(Message)
           /\ Descriptions(lf, "Binding", z) \in Seq(Message)
    BY <1>0, <1>2, <1>5, DescriptionsType
  <2> QED BY <1>10, <2>1, ConcatParts
<1>12. PICK K \in BOOLEAN :
          K = (\A s \in Sides : \A id \in DOMAIN lf[s].elem : ~lf[s].elem[id].hidden)
  OBVIOUS
<1>13. r = Result(N, o, K)
  BY <1>1, <1>3, <1>4, <1>10, <1>12, Zenon DEF on_connection_started
<1>14. GoodResult(Result(N, o, K), kk)
  <2>1. K \in BOOLEAN
    BY <1>12
  <2> QED BY <1>9, <1>11, <2>1, ResultGood
<1> QED BY <1>13, <1>14, Zenon

\* A register without its hidden elements.
LEMMA VisibleRest ==
    ASSUME NEW g, Sound(g), NEW t, t = EraseHidden(g)
    PROVE  /\ Sound(t) /\ t.elem \in [DOMAIN t.elem -> Entry]
           /\ \A id \in DOMAIN t.elem : /\ id \in DOMAIN g.elem /\ t.elem[id] = g.elem[id]
                                        /\ ~t.elem[id].hidden
<1>1. /\ Sound(t) /\ DOMAIN t.elem = DOMAIN g.elem \ Hidden(g)
      /\ \A i \in DOMAIN g.elem \ Hidden(g) : t.elem[i] = g.elem[i]
  BY EraseHiddenSound
<1>2. t.elem \in [DOMAIN t.elem -> Entry]
  BY <1>1, PartsOfSound
<1> QED BY <1>1, <1>2 DEF Hidden

\* The end of a connection: hidden elements go, the groups that were established
\* are released.
LEMMA DestroyedGood ==
    ASSUME NEW lf, NEW k, GoodLeaf(lf, k), NEW kk, kk = "none",
           NEW r, r = on_connection_destroyed(lf)
    PROVE  GoodResult(r, kk)
<1>0. "Terminal" \in Sides /\ "Binding" \in Sides
  BY DEF Sides
<1>1. PICK t, b : t = EraseHidden(lf["Terminal"]) /\ b = EraseHidden(lf["Binding"])
  OBVIOUS
<1>2. /\ Sound(t) /\ t.elem \in [DOMAIN t.elem -> Entry]
      /\ Sound(b) /\ b.elem \in [DOMAIN b.elem -> Entry]
      /\ \A id \in DOMAIN b.elem : Shows(b.elem[id], k) /\ ~b.elem[id].hidden
      /\ IsOps(lf.ops)
  <2>1. Sound(lf["Terminal"]) /\ Sound(lf["Binding"]) /\ ShownIn(lf["Binding"], k) /\ IsOps(lf.ops)
    BY <1>0, SideOf
  <2>2. Sound(t) /\ t.elem \in [DOMAIN t.elem -> Entry]
    BY <1>1, <2>1, VisibleRest
  <2>3. /\ Sound(b) /\ b.elem \in [DOMAIN b.elem -> Entry]
        /\ \A id \in DOMAIN b.elem : /\ id \in DOMAIN lf["Binding"].elem
                                     /\ b.elem[id] = lf["Binding"].elem[id]
                                     /\ ~b.elem[id].hidden
    BY <1>1, <2>1, VisibleRest
  <2> QED BY <2>1, <2>2, <2>3 DEF ShownIn, Proper
<1>3. PICK T : T = [id \in DOMAIN t.elem |->
                      [t.elem[id] EXCEPT !.fsm = InitialFsm,
                                         !.established = @ /\ ~is_mapped(t.elem[id].fsm)]]
  OBVIOUS
<1>4. T \in [DOMAIN t.elem -> Entry]
  <2>1. ASSUME NEW id \in DOMAIN t.elem PROVE T[id] \in Entry
    <3>1. PICK y \in BOOLEAN : y = (t.elem[id].established /\ ~is_mapped(t.elem[id].fsm))
      OBVIOUS
    <3>2. T[id] = [t.elem[id] EXCEPT !.fsm = InitialFsm, !.established = y]
      BY <1>3, <3>1
    <3>3. t.elem[id] \in Entry /\ InitialFsm \in Fsm /\ y \in BOOLEAN
      BY <1>2, <3>1 DEF InitialFsm, Fsm, States, NoId
    <3> QED BY <3>2, <3>3 DEF Entry
  <2> QED BY <1>3, <2>1
<1>5. PICK B : B = [id \in DOMAIN b.elem |-> update_binding_state(b.elem[id], FALSE)]
  OBVIOUS
<1>6. \A id \in DOMAIN b.elem : B[id] \in Entry /\ Shows(B[id], kk) /\ ~B[id].hidden
  <2> SUFFICES ASSUME NEW id \in DOMAIN b.elem
               PROVE  B[id] \in Entry /\ Shows(B[id], kk) /\ ~B[id].hidden
    OBVIOUS
  <2>1. PICK e : e = b.elem[id]
    OBVIOUS
  <2>2. e \in Entry /\ Shows(e, k) /\ ~e.hidden
    BY <1>2, <2>1
  <2>3. B[id] = update_binding_state(e, FALSE)
    BY <1>5, <2>1, Zenon
  <2>4. CASE e.established = FALSE
    <3>1. B[id] = e
      BY <2>3, <2>4, Zenon DEF update_binding_state
    <3>2. Shows(e, kk)
      BY <2>2, <2>4 DEF Shows
    <3> QED BY <2>2, <3>1, <3>2
  <2>5. CASE e.established # FALSE
    <3>1. B[id] = [e EXCEPT !.established = FALSE, !.published = {}]
      BY <2>3, <2>5 DEF update_binding_state
    <3>2. /\ B[id] \in Entry /\ B[id].established = FALSE /\ B[id].published = {}
          /\ ~B[id].hidden
      BY <2>2, <3>1 DEF Entry
    <3> QED BY <3>2 DEF Shows, Published
  <2> QED BY <2>4, <2>5
<1>7. B \in [DOMAIN b.elem -> Entry]
  BY <1>5, <1>6
<1>8. PICK RT, RB : RT = [t EXCEPT !.elem = T] /\ RB = [b EXCEPT !.elem = B]
  OBVIOUS
<1>9. Sound(RT) /\ Sound(RB) /\ RB.elem = B
  BY <1>2, <1>4, <1>7, <1>8, ElemReplaced
<1>10. PICK N : N = [Terminal |-> RT, Binding |-> RB, ops |-> lf.ops]
  OBVIOUS
<1>11. GoodLeaf(N, kk)
  <2>1. DOMAIN N = {"Terminal", "Binding", "ops"} /\ N["Terminal"] = RT /\ N["Binding"] = RB
           /\ N.ops = lf.ops
    BY <1>10
  <2>2. SoundLeaf(N)
    BY <1>2, <1>9, <2>1 DEF SoundLeaf, Sides
  <2>3. ShownIn(RB, kk)
    BY <1>6, <1>7, <1>9 DEF ShownIn, Proper
  <2> QED BY <2>1, <2>2, <2>3 DEF GoodLeaf
<1>12. PICK y \in BOOLEAN, o \in {<<>>} : y = TRUE /\ o = <<>>
  OBVIOUS
<1>13. PICK a : a = OpsStep(lf.ops, o, y)
  OBVIOUS
<1>14. a.ops = lf.ops /\ a.ok = y
  BY <1>13 DEF OpsStep
<1>15. OpsLost(lf, t, b) = a
  <2>1. OpsLost(lf, t, b) = OpsStep(lf.ops, <<>>, TRUE)
    BY PairAssumption, Zenon DEF OpsLost
  <2> QED BY <1>12, <1>13, <2>1, Zenon
<1>16. r = Result(N, o, y)
  <2>1. r = Result([Terminal |-> [t EXCEPT !.elem = T], Binding |-> [b EXCEPT !.elem = B],
                    ops |-> a.ops], <<>>, a.ok)
    BY <1>1, <1>3, <1>5, <1>15, Zenon DEF on_connection_destroyed
  <2> QED BY <1>8, <1>10, <1>12, <1>14, <2>1, Zenon
<1>17. GoodResult(Result(N, o, y), kk)
  <2>1. y \in BOOLEAN /\ o \in Seq(Message)
    BY <1>12
  <2> QED BY <1>11, <2>1, ResultGood
<1> QED BY <1>16, <1>17, Zenon

----------------------------------------------------------------------------
(* The pair.                                                               *)

\* Whatever the two ends do and however their messages interleave, the registers
\* of each are sound and its bindings show what their machines know.  It speaks
\* of each end alone: nothing is assumed of the messages but their form.
IInv ==
    /\ DOMAIN leaf = Leafs
    /\ conn \in [Leafs -> {"none", "new", "started"}]
    /\ inbox \in [Leafs -> Seq(Message)]
    /\ made \in Nat
    /\ failed \in BOOLEAN
    /\ \A l \in Leafs : GoodLeaf(leaf[l], conn[l])

\* The two ends.
LEMMA OtherEnd ==
    ASSUME NEW l \in Leafs
    PROVE  /\ Other(l) \in Leafs /\ Other(l) # l /\ Other(Other(l)) = l
           /\ \A k \in Leafs : k = l \/ k = Other(l)
BY LeafsAssumption DEF Other

\* What is sent to an end that is gone is lost.
LEMMA DeliverableType ==
    ASSUME NEW l \in Leafs, NEW out \in Seq(Message)
    PROVE  Deliverable(l, out) \in Seq(Message)
BY DEF Deliverable

\* An end has run an operation for its user.
LEMMA UserStepKeeps ==
    ASSUME IInv, NEW l \in Leafs, NEW r, GoodResult(r, conn[l]), UserStep(l, r)
    PROVE  IInv'
<1>1. GoodLeaf(r.leaf, conn[l]) /\ r.out \in Seq(Message) /\ r.ok \in BOOLEAN
  BY DEF GoodResult
<1>2. conn' = conn /\ made' = made /\ failed' \in BOOLEAN
  BY DEF UserStep
<1>3. PICK k \in Leafs : k = Other(l)
  BY OtherEnd
<1>4. PICK o \in Seq(Message) : o = Deliverable(k, r.out)
  BY <1>1, DeliverableType
<1>5. inbox' \in [Leafs -> Seq(Message)]
  <2>1. inbox' = [inbox EXCEPT ![k] = inbox[k] \o o]
    BY <1>3, <1>4 DEF UserStep
  <2>2. inbox[k] \o o \in Seq(Message)
    BY <1>4, ConcatParts DEF IInv
  <2> QED BY <2>1, <2>2 DEF IInv
<1>6. DOMAIN leaf' = Leafs /\ \A i \in Leafs : GoodLeaf(leaf'[i], conn'[i])
  <2>1. leaf' = [leaf EXCEPT ![l] = r.leaf]
    BY DEF UserStep
  <2>2. DOMAIN leaf' = Leafs
    BY <2>1 DEF IInv
  <2>3. \A i \in Leafs : leaf'[i] = IF i = l THEN r.leaf ELSE leaf[i]
    BY <2>1 DEF IInv
  <2> QED BY <1>1, <1>2, <2>2, <2>3 DEF IInv
<1> QED BY <1>2, <1>5, <1>6 DEF IInv

\* An end has handled a message.
LEMMA HandledKeeps ==
    ASSUME IInv, NEW l \in Leafs, NEW r, GoodResult(r, conn[l]), Handled(l, r), inbox[l] # <<>>
    PROVE  IInv'
<1>1. GoodLeaf(r.leaf, conn[l]) /\ r.out \in Seq(Message) /\ r.ok \in BOOLEAN
  BY DEF GoodResult
<1>2. conn' = conn /\ made' = made /\ failed' \in BOOLEAN
  BY DEF Handled
<1>3. PICK k \in Leafs : k = Other(l)
  BY OtherEnd
<1>4. PICK o \in Seq(Message) : o = Deliverable(k, r.out)
  BY <1>1, DeliverableType
<1>5. inbox' \in [Leafs -> Seq(Message)]
  <2>1. inbox' = [inbox EXCEPT ![l] = Tail(@), ![k] = @ \o o]
    BY <1>3, <1>4 DEF Handled
  <2>2. inbox[k] \in Seq(Message) /\ inbox[l] \in Seq(Message)
    BY DEF IInv
  <2>3. inbox[k] \o o \in Seq(Message) /\ Tail(inbox[l]) \in Seq(Message)
    BY <1>4, <2>2, ConcatParts
  <2>4. k # l
    BY <1>3, OtherEnd
  <2> QED BY <2>1, <2>3, <2>4 DEF IInv
<1>6. DOMAIN leaf' = Leafs /\ \A i \in Leafs : GoodLeaf(leaf'[i], conn'[i])
  <2>1. leaf' = [leaf EXCEPT ![l] = r.leaf]
    BY DEF Handled
  <2>2. DOMAIN leaf' = Leafs
    BY <2>1 DEF IInv
  <2>3. \A i \in Leafs : leaf'[i] = IF i = l THEN r.leaf ELSE leaf[i]
    BY <2>1 DEF IInv
  <2> QED BY <1>1, <1>2, <2>2, <2>3 DEF IInv
<1> QED BY <1>2, <1>5, <1>6 DEF IInv

\* The Leafs start empty.
LEMMA InitKeeps == Init => IInv
<1> SUFFICES ASSUME Init PROVE IInv
  OBVIOUS
<1>1. GoodLeaf(EmptyLeaf, "none")
  <2>1. /\ DOMAIN EmptyLeaf = {"Terminal", "Binding", "ops"} /\ EmptyLeaf.ops = EmptyOps
        /\ EmptyLeaf["Terminal"] = EmptyRegister /\ EmptyLeaf["Binding"] = EmptyRegister
    BY DEF EmptyLeaf
  <2>2. IsOps(EmptyOps)
    <3>1. /\ DOMAIN EmptyOps = {"scatters", "gathers", "open"}
          /\ EmptyOps.scatters = EmptyRegister /\ EmptyOps.gathers = {} /\ EmptyOps.open = {}
      BY DEF EmptyOps
    <3>2. IsRegister(EmptyRegister, [terminal : Nat, call : Nat])
      BY DEF IsRegister, EmptyRegister
    <3> QED BY <3>1, <3>2 DEF IsOps
  <2>3. SoundLeaf(EmptyLeaf)
    BY <2>1, <2>2, EmptyIsSound DEF SoundLeaf, Sides
  <2>4. ShownIn(EmptyRegister, "none")
    BY DEF ShownIn, EmptyRegister
  <2> QED BY <2>1, <2>3, <2>4 DEF GoodLeaf
<1>2. /\ DOMAIN leaf = Leafs /\ conn \in [Leafs -> {"none", "new", "started"}]
      /\ inbox \in [Leafs -> Seq(Message)] /\ made \in Nat /\ failed \in BOOLEAN
  <2>1. leaf = [l \in Leafs |-> EmptyLeaf] /\ conn = [l \in Leafs |-> "none"]
        /\ inbox = [l \in Leafs |-> <<>>]
    BY DEF Init
  <2>2. made \in Nat /\ failed \in BOOLEAN
    BY DEF Init
  <2>3. <<>> \in Seq(Message)
    OBVIOUS
  <2> QED BY <2>1, <2>2, <2>3
<1>3. \A l \in Leafs : leaf[l] = EmptyLeaf /\ conn[l] = "none"
  BY DEF Init
<1> QED BY <1>1, <1>2, <1>3 DEF IInv

\* The operations of the user keep the invariant.
LEMMA UserKeeps ==
    ASSUME IInv, NEW l \in Leafs, UserNext(l)
    PROVE  IInv'
<1>0. "Terminal" \in Sides /\ "Binding" \in Sides /\ GoodLeaf(leaf[l], conn[l])
  BY DEF Sides, IInv
<1>1. PICK c \in BOOLEAN : c = (conn[l] = "started")
  OBVIOUS
<1>2. c \in BOOLEAN
  BY <1>1
<1>3. ASSUME NEW x \in TerminalNames[l], NewTerminal(l, x)
      PROVE  IInv'
  <2>0. PICK B \in SUBSET Members : B = {}
    OBVIOUS
  <2>1. PICK r : r = Create(leaf[l], "Terminal", x, B, c)
    OBVIOUS
  <2>2. x \in Identifiers
    BY NamesAssumption
  <2>3. GoodResult(r, conn[l])
    BY <1>0, <1>2, <2>0, <2>1, <2>2, CreateGood
  <2>4. UserStep(l, r)
    BY <1>1, <1>3, <2>0, <2>1, Zenon DEF NewTerminal
  <2> QED BY <2>3, <2>4, UserStepKeeps
<1>4. ASSUME NEW x \in TerminalNames[l], NewTerminalAmbiguous(l, x)
      PROVE  IInv'
  <2>1. PICK r : r = CreateAmbiguous(leaf[l], "Terminal")
    OBVIOUS
  <2>2. GoodResult(r, conn[l])
    BY <1>0, <2>1, CreateAmbiguousGood
  <2>3. UserStep(l, r)
    BY <1>4, <2>1, Zenon DEF NewTerminalAmbiguous
  <2> QED BY <2>2, <2>3, UserStepKeeps
<1>5. ASSUME NEW id \in Elements(l, "Terminal"), DestroyTerminal(l, id)
      PROVE  IInv'
  <2>1. PICK r : r = Destroy(leaf[l], "Terminal", id, c)
    OBVIOUS
  <2>2. GoodResult(r, conn[l])
    BY <1>0, <1>2, <2>1, DestroyGood DEF Elements
  <2>3. UserStep(l, r)
    BY <1>1, <1>5, <2>1, Zenon DEF DestroyTerminal
  <2> QED BY <2>2, <2>3, UserStepKeeps
<1>6. ASSUME NEW x \in BindingNames[l], NEW b \in Members, NewBinding(l, x, b)
      PROVE  IInv'
  <2>0. PICK B \in SUBSET Members : B = {b}
    OBVIOUS
  <2>1. PICK r : r = Create(leaf[l], "Binding", x, B, c)
    OBVIOUS
  <2>2. x \in Identifiers
    BY NamesAssumption
  <2>3. GoodResult(r, conn[l])
    BY <1>0, <1>2, <2>0, <2>1, <2>2, CreateGood
  <2>4. UserStep(l, r)
    BY <1>1, <1>6, <2>0, <2>1, Zenon DEF NewBinding
  <2> QED BY <2>3, <2>4, UserStepKeeps
<1>7. ASSUME NEW x \in BindingNames[l], NEW b \in Members, NewBindingInGroup(l, x, b)
      PROVE  IInv'
  <2>1. PICK r : r = JoinGroup(leaf[l], x, b)
    OBVIOUS
  <2>2. Visible(leaf[l]["Binding"], x) # {} /\ UserStep(l, r)
    BY <1>7, <2>1, Zenon DEF NewBindingInGroup
  <2>3. GoodResult(r, conn[l])
    BY <1>0, <2>1, <2>2, JoinGroupGood
  <2> QED BY <2>2, <2>3, UserStepKeeps
<1>8. ASSUME NEW id \in Elements(l, "Binding"), NEW b \in Members, DestroyBinding(l, id, b)
      PROVE  IInv'
  <2>0. id \in DOMAIN leaf[l]["Binding"].elem
    BY DEF Elements
  <2>1. PICK d, g : /\ d = Destroy(leaf[l], "Binding", id, c)
                    /\ g = LeaveGroup(leaf[l], id, b, c)
    OBVIOUS
  <2>2. GoodResult(d, conn[l])
    BY <1>0, <1>2, <2>0, <2>1, DestroyGood
  <2>3. GoodResult(g, conn[l])
    BY <1>0, <1>2, <2>0, <2>1, LeaveGroupGood
  <2>4. UserStep(l, d) \/ UserStep(l, g)
    <3>1. UserStep(l, IF leaf[l]["Binding"].elem[id].bindings = {b}
                        THEN Destroy(leaf[l], "Binding", id, c)
                        ELSE LeaveGroup(leaf[l], id, b, c))
      BY <1>1, <1>8, Zenon DEF DestroyBinding
    <3>2. CASE leaf[l]["Binding"].elem[id].bindings = {b}
      BY <2>1, <3>1, <3>2, Zenon
    <3>3. CASE leaf[l]["Binding"].elem[id].bindings # {b}
      BY <2>1, <3>1, <3>3, Zenon
    <3> QED BY <3>2, <3>3
  <2> QED BY <2>2, <2>3, <2>4, UserStepKeeps
<1> QED BY <1>3, <1>4, <1>5, <1>6, <1>7, <1>8, Zenon DEF UserNext

\* The messages keep the invariant.
LEMMA ReceiveKeeps ==
    ASSUME IInv, NEW l \in Leafs, Receive(l)
    PROVE  IInv'
<1>1. conn[l] = "started" /\ inbox[l] # <<>>
  BY DEF Receive, Receives, ReceiveDescription, ReceiveMapping, ReceiveNoticed, ReceiveRemoved,
         ReceiveRemovedAck
<1>2. PICK m \in Message : m = Head(inbox[l])
  BY <1>1 DEF IInv
<1>3. PICK k : k = conn[l]
  OBVIOUS
<1>4. GoodLeaf(leaf[l], k) /\ k = "started"
  BY <1>1, <1>3 DEF IInv
<1>5. \A r : Handled(l, r) /\ GoodResult(r, k) => IInv'
  BY <1>1, <1>3, HandledKeeps
<1>6. CASE ReceiveDescription(l)
  <2>1. PICK r : r = OnDescription(leaf[l], m, RemoteIsNode)
    OBVIOUS
  <2>2. m.type = "Description" /\ Handled(l, r)
    BY <1>2, <1>6, <2>1, Zenon DEF ReceiveDescription, Receives
  <2>3. GoodResult(OnDescription(leaf[l], m, RemoteIsNode), k)
    BY <1>4, <2>2, OnDescriptionGood
  <2> QED BY <1>5, <2>1, <2>2, <2>3, Zenon
<1>7. /\ m.type = "Mapping" => GoodResult(OnMapping(leaf[l], m, RemoteIsNode), k)
      /\ m.type = "Noticed" => GoodResult(OnNoticed(leaf[l], m, RemoteIsNode), k)
      /\ m.type = "Removed" => GoodResult(OnRemoved(leaf[l], m, RemoteIsNode), k)
      /\ m.type = "RemovedAck" => GoodResult(OnRemovedAck(leaf[l], m, RemoteIsNode), k)
  BY <1>4, OnMessageGood
<1>8. CASE ReceiveMapping(l)
  <2>1. m.type = "Mapping" /\ Handled(l, OnMapping(leaf[l], m, RemoteIsNode))
    BY <1>2, <1>8, Zenon DEF ReceiveMapping, Receives
  <2> QED BY <1>5, <1>7, <2>1, Zenon
<1>9. CASE ReceiveNoticed(l)
  <2>1. m.type = "Noticed" /\ Handled(l, OnNoticed(leaf[l], m, RemoteIsNode))
    BY <1>2, <1>9, Zenon DEF ReceiveNoticed, Receives
  <2> QED BY <1>5, <1>7, <2>1, Zenon
<1>10. CASE ReceiveRemoved(l)
  <2>1. m.type = "Removed" /\ Handled(l, OnRemoved(leaf[l], m, RemoteIsNode))
    BY <1>2, <1>10, Zenon DEF ReceiveRemoved, Receives
  <2> QED BY <1>5, <1>7, <2>1, Zenon
<1>11. CASE ReceiveRemovedAck(l)
  <2>1. m.type = "RemovedAck" /\ Handled(l, OnRemovedAck(leaf[l], m, RemoteIsNode))
    BY <1>2, <1>11, Zenon DEF ReceiveRemovedAck, Receives
  <2> QED BY <1>5, <1>7, <2>1, Zenon
<1> QED BY <1>6, <1>8, <1>9, <1>10, <1>11 DEF Receive

\* The connection keeps the invariant.
LEMMA ConnectionKeeps ==
    ASSUME IInv, Connect \/ \E l \in Leafs : Start(l) \/ Disconnect(l)
    PROVE  IInv'
<1>1. CASE Connect
  <2>1. /\ leaf' = leaf /\ failed' = failed /\ made' = made + 1
        /\ conn' = [l \in Leafs |-> "new"] /\ inbox' = [l \in Leafs |-> <<>>]
        /\ \A l \in Leafs : conn[l] = "none"
    BY <1>1 DEF Connect
  <2>2. <<>> \in Seq(Message)
    OBVIOUS
  <2>3. /\ conn' \in [Leafs -> {"none", "new", "started"}]
        /\ inbox' \in [Leafs -> Seq(Message)]
    BY <2>1, <2>2
  <2>4. \A lf : GoodLeaf(lf, "none") => GoodLeaf(lf, "new")
    BY DEF GoodLeaf, ShownIn, Proper, Shows
  <2>5. \A l \in Leafs : GoodLeaf(leaf'[l], conn'[l])
    BY <2>1, <2>4 DEF IInv
  <2> QED BY <2>1, <2>3, <2>5 DEF IInv
<1>2. ASSUME NEW l \in Leafs, Start(l)
      PROVE  IInv'
  <2>1. PICK r : r = on_connection_started(leaf[l], RemoteIsNode)
    OBVIOUS
  <2>2. PICK k, kk : k = "new" /\ kk = "started"
    OBVIOUS
  <2>3. /\ conn[l] = k /\ conn' = [conn EXCEPT ![l] = kk] /\ made' = made
        /\ leaf' = [leaf EXCEPT ![l] = r.leaf] /\ failed' \in BOOLEAN
        /\ inbox' = [inbox EXCEPT ![Other(l)] = @ \o Deliverable(Other(l), r.out)]
    BY <1>2, <2>1, <2>2, Zenon DEF Start
  <2>4. GoodResult(r, kk)
    BY <2>1, <2>2, <2>3, StartedGood DEF IInv
  <2>5. GoodLeaf(r.leaf, kk) /\ r.out \in Seq(Message)
    BY <2>4 DEF GoodResult
  <2>6. PICK j \in Leafs : j = Other(l)
    BY OtherEnd
  <2>7. PICK o \in Seq(Message) : o = Deliverable(j, r.out)
    BY <2>5, DeliverableType
  <2>8. inbox' \in [Leafs -> Seq(Message)]
    <3>1. inbox' = [inbox EXCEPT ![j] = inbox[j] \o o]
      BY <2>3, <2>6, <2>7
    <3>2. inbox[j] \o o \in Seq(Message)
      BY <2>7, ConcatParts DEF IInv
    <3> QED BY <3>1, <3>2 DEF IInv
  <2>9. /\ DOMAIN leaf' = Leafs /\ conn' \in [Leafs -> {"none", "new", "started"}]
        /\ \A i \in Leafs : GoodLeaf(leaf'[i], conn'[i])
    <3>1. DOMAIN leaf' = Leafs /\ \A i \in Leafs : leaf'[i] = IF i = l THEN r.leaf ELSE leaf[i]
      BY <2>3 DEF IInv
    <3>2. /\ conn' \in [Leafs -> {"none", "new", "started"}]
          /\ \A i \in Leafs : conn'[i] = IF i = l THEN kk ELSE conn[i]
      BY <2>2, <2>3 DEF IInv
    <3> QED BY <2>5, <3>1, <3>2 DEF IInv
  <2> QED BY <2>3, <2>8, <2>9 DEF IInv
<1>3. ASSUME NEW l \in Leafs, Disconnect(l)
      PROVE  IInv'
  <2>1. PICK r : r = IF conn[l] = "started" THEN on_connection_destroyed(leaf[l])
                                            ELSE Result(leaf[l], <<>>, TRUE)
    OBVIOUS
  <2>2. PICK k, kk : k = conn[l] /\ kk = "none"
    OBVIOUS
  <2>3. /\ conn[l] # kk /\ conn' = [conn EXCEPT ![l] = kk] /\ made' = made
        /\ leaf' = [leaf EXCEPT ![l] = r.leaf] /\ failed' \in BOOLEAN
        /\ inbox' = [inbox EXCEPT ![l] = <<>>]
    BY <1>3, <2>1, <2>2, Zenon DEF Disconnect
  <2>4. GoodLeaf(r.leaf, kk)
    <3>1. GoodLeaf(leaf[l], k)
      BY <2>2 DEF IInv
    <3>2. CASE conn[l] = "started"
      <4>1. r = on_connection_destroyed(leaf[l])
        BY <2>1, <3>2, Zenon
      <4> QED BY <2>2, <3>1, <4>1, DestroyedGood DEF GoodResult
    <3>3. CASE conn[l] # "started"
      <4>1. r = Result(leaf[l], <<>>, TRUE)
        BY <2>1, <3>3, Zenon
      <4>2. r.leaf = leaf[l]
        BY <4>1 DEF Result
      <4>3. GoodLeaf(leaf[l], kk)
        BY <2>2, <3>1, <3>3 DEF GoodLeaf, ShownIn, Proper, Shows
      <4> QED BY <4>2, <4>3
    <3> QED BY <3>2, <3>3
  <2>5. inbox' \in [Leafs -> Seq(Message)]
    <3>1. <<>> \in Seq(Message)
      OBVIOUS
    <3> QED BY <2>3, <3>1 DEF IInv
  <2>6. /\ DOMAIN leaf' = Leafs /\ conn' \in [Leafs -> {"none", "new", "started"}]
        /\ \A i \in Leafs : GoodLeaf(leaf'[i], conn'[i])
    <3>1. DOMAIN leaf' = Leafs /\ \A i \in Leafs : leaf'[i] = IF i = l THEN r.leaf ELSE leaf[i]
      BY <2>3 DEF IInv
    <3>2. /\ conn' \in [Leafs -> {"none", "new", "started"}]
          /\ \A i \in Leafs : conn'[i] = IF i = l THEN kk ELSE conn[i]
      BY <2>2, <2>3 DEF IInv
    <3> QED BY <2>4, <3>1, <3>2 DEF IInv
  <2> QED BY <2>3, <2>5, <2>6 DEF IInv
<1> QED BY <1>1, <1>2, <1>3

\* Each step keeps the invariant.
LEMMA NextKeeps == IInv /\ [Next]_vars => IInv'
<1> SUFFICES ASSUME IInv, [Next]_vars PROVE IInv'
  OBVIOUS
<1>1. CASE UNCHANGED vars
  BY <1>1 DEF IInv, vars
<1>2. CASE Next
  BY <1>2, ConnectionKeeps, ReceiveKeeps, UserKeeps, Zenon DEF Next
<1> QED BY <1>1, <1>2

\* The inductive invariant holds of every behaviour.
LEMMA Invariance == Spec => []IInv
BY InitKeeps, NextKeeps, PTL DEF Spec

\* Type correctness: whatever messages cross, each end keeps well-formed
\* registers and sends well-formed messages.
THEOREM TypeCorrect == Spec => []TypeOK
<1>1. IInv => TypeOK
  <2> SUFFICES ASSUME IInv PROVE TypeOK
    OBVIOUS
  <2>1. ASSUME NEW l \in Leafs PROVE IsLeaf(leaf[l])
    <3>1. DOMAIN EmptyLeaf = {"Terminal", "Binding", "ops"}
      BY DEF EmptyLeaf
    <3>2. /\ DOMAIN leaf[l] = DOMAIN EmptyLeaf /\ IsOps(leaf[l].ops)
          /\ \A s \in Sides : Sound(leaf[l][s])
      BY <3>1 DEF IInv, GoodLeaf, SoundLeaf
    <3> QED BY <3>2 DEF IsLeaf, Sound
  <2> QED BY <2>1 DEF IInv, TypeOK
<1> QED BY <1>1, Invariance, PTL

\* IdentifiedObjectRegister neither loses an id nor gives it out twice: for every
\* number of ids and objects, whatever the peer sends, also when an insertion
\* fails and when the end of the connection erases the hidden entries.
THEOREM IdsAreConserved == Spec => []IdsConserved
<1>1. IInv => IdsConserved
  <2> SUFFICES ASSUME IInv, NEW l \in Leafs, NEW s \in Sides
               PROVE  /\ Cardinality(DOMAIN leaf[l][s].elem) + Len(leaf[l][s].free)
                             = leaf[l][s].size
                      /\ DOMAIN leaf[l][s].elem \cup FreeIds(leaf[l][s]) = 1..leaf[l][s].size
    BY Zenon DEF IdsConserved
  <2>1. Sound(leaf[l][s])
    BY DEF IInv, GoodLeaf, SoundLeaf
  <2>2. Cardinality(DOMAIN leaf[l][s].elem) + Len(leaf[l][s].free) = leaf[l][s].size
    BY <2>1, ConservedCounts
  <2>3. DOMAIN leaf[l][s].elem \cup FreeIds(leaf[l][s]) = 1..leaf[l][s].size
    BY <2>1 DEF Sound, Conserved
  <2> QED BY <2>2, <2>3
<1> QED BY <1>1, Invariance, PTL

\* What on_binding_state_changed tells the users of a group: every binding of a
\* living group is ESTABLISHED exactly while the group is mapped on a started
\* connection, whichever order creations, descriptions and ends come in.
THEOREM BindingsShowTheMapping == Spec => []BindingStates
<1>1. IInv => BindingStates
  <2> SUFFICES ASSUME IInv, NEW l \in Leafs, NEW id \in Elements(l, "Binding"),
                      ~leaf[l]["Binding"].elem[id].hidden
               PROVE  /\ leaf[l]["Binding"].elem[id].established
                           = (conn[l] = "started" /\ is_mapped(leaf[l]["Binding"].elem[id].fsm))
                      /\ leaf[l]["Binding"].elem[id].published
                           = IF leaf[l]["Binding"].elem[id].established
                               THEN leaf[l]["Binding"].elem[id].bindings ELSE {}
    BY Zenon DEF BindingStates
  <2>1. PICK e : e = leaf[l]["Binding"].elem[id]
    OBVIOUS
  <2>2. GoodLeaf(leaf[l], conn[l]) /\ "Binding" \in Sides
    BY DEF IInv, Sides
  <2>3. e \in Entry
    BY <2>1, <2>2, SideOf DEF Elements
  <2>4. Shows(e, conn[l])
    BY <2>1, <2>2 DEF GoodLeaf, ShownIn, Proper, Elements
  <2>5. e.established \in BOOLEAN
    BY <2>3 DEF Entry
  <2>6. e.established = (conn[l] = "started" /\ is_mapped(e.fsm))
    BY <2>4, <2>5 DEF Shows
  <2>7. e.published = IF e.established THEN e.bindings ELSE {}
    BY <2>4 DEF Shows, Published
  <2> QED BY <2>1, <2>6, <2>7, Zenon
<1> QED BY <1>1, Invariance, PTL

----------------------------------------------------------------------------
(* The messages to one of the two registers of a Leaf.                     *)

\* The messages of the inbox b that are addressed to side s, as a queue whose
\* places count all the messages that were received before, lo of them.
Window(b, s, lo) ==
    [p \in {n \in Nat : n - lo \in 1..Len(b) /\ b[n - lo].to = s} |-> b[p - lo]]

\* Its places and messages.
LEMMA WindowParts ==
    ASSUME NEW b \in Seq(Message), NEW s, NEW lo \in Nat
    PROVE  /\ \A p : p \in Places(Window(b, s, lo))
                       <=> p \in Nat /\ p - lo \in 1..Len(b) /\ b[p - lo].to = s
           /\ \A p \in Places(Window(b, s, lo)) : Window(b, s, lo)[p] = b[p - lo]
           /\ \A p \in Places(Window(b, s, lo)) : p \in Nat /\ lo < p /\ p <= lo + Len(b)
           /\ Queue(Window(b, s, lo))
<1>1. /\ \A p : p \in Places(Window(b, s, lo))
                  <=> p \in Nat /\ p - lo \in 1..Len(b) /\ b[p - lo].to = s
      /\ \A p \in Places(Window(b, s, lo)) : Window(b, s, lo)[p] = b[p - lo]
  BY DEF Window, Places
<1>2. Len(b) \in Nat
  OBVIOUS
<1>3. \A p \in Places(Window(b, s, lo)) : p \in Nat /\ lo < p /\ p <= lo + Len(b)
  BY <1>1, <1>2
<1>4. Queue(Window(b, s, lo))
  <2>1. Places(Window(b, s, lo)) \subseteq lo..(lo + Len(b))
    BY <1>2, <1>3
  <2>2. IsFiniteSet(lo..(lo + Len(b)))
    BY <1>2, FS_Interval
  <2>3. IsFiniteSet(Places(Window(b, s, lo)))
    BY <2>1, <2>2, FS_Subset
  <2> QED BY <1>3, <2>3 DEF Queue
<1> QED BY <1>1, <1>3, <1>4

\* Windows are equal if their places and messages are.
LEMMA WindowEqual ==
    ASSUME NEW a, NEW b, NEW s, NEW lo, NEW hi,
           Places(Window(a, s, lo)) = Places(Window(b, s, hi)),
           \A p \in Places(Window(a, s, lo)) : Window(a, s, lo)[p] = Window(b, s, hi)[p]
    PROVE  Window(a, s, lo) = Window(b, s, hi)
BY DEF Window, Places

\* A message is put at the end.
LEMMA WindowAppend ==
    ASSUME NEW b \in Seq(Message), NEW s, NEW lo \in Nat, NEW m \in Message
    PROVE  /\ Append(b, m) \in Seq(Message)
           /\ m.to = s => Pushed(Window(b, s, lo), Window(Append(b, m), s, lo), lo + Len(b) + 1, m)
           /\ m.to # s => Window(Append(b, m), s, lo) = Window(b, s, lo)
<1>1. PICK a \in Seq(Message) : a = Append(b, m)
  BY AppendProperties
<1>2. /\ Len(b) \in Nat /\ Len(a) = Len(b) + 1 /\ a[Len(b) + 1] = m
      /\ \A k \in 1..Len(b) : a[k] = b[k]
  BY <1>1, AppendProperties
<1>3. PICK W, V : W = Window(b, s, lo) /\ V = Window(a, s, lo)
  OBVIOUS
<1>4. /\ \A p : p \in Places(W) <=> p \in Nat /\ p - lo \in 1..Len(b) /\ b[p - lo].to = s
      /\ \A p \in Places(W) : W[p] = b[p - lo]
      /\ \A p \in Places(W) : p \in Nat /\ lo < p /\ p <= lo + Len(b)
  BY <1>3, WindowParts
<1>5. /\ \A p : p \in Places(V) <=> p \in Nat /\ p - lo \in 1..Len(a) /\ a[p - lo].to = s
      /\ \A p \in Places(V) : V[p] = a[p - lo]
  BY <1>3, WindowParts
<1>6. \A p : p \in Places(V) <=> p \in Places(W) \/ (p = lo + Len(b) + 1 /\ m.to = s)
  <2>1. \A p \in Nat : p - lo \in 1..Len(a) <=> p - lo \in 1..Len(b) \/ p = lo + Len(b) + 1
    <3>1. \A n, p \in Nat : p - lo \in 1..(n + 1) <=> p - lo \in 1..n \/ p = lo + n + 1
      OBVIOUS
    <3> QED BY <1>2, <3>1
  <2>2. lo + Len(b) + 1 \in Nat /\ (lo + Len(b) + 1) - lo = Len(b) + 1
        /\ ~((lo + Len(b) + 1) - lo \in 1..Len(b))
    BY <1>2
  <2> QED BY <1>2, <1>4, <1>5, <2>1, <2>2
<1>7. \A p \in Places(W) : V[p] = W[p]
  BY <1>2, <1>4, <1>5, <1>6
<1>8. ASSUME m.to = s
      PROVE  Pushed(W, V, lo + Len(b) + 1, m)
  <2>1. lo + Len(b) + 1 \in Nat /\ (lo + Len(b) + 1) - lo = Len(b) + 1
    BY <1>2
  <2>2. Places(V) = Places(W) \cup {lo + Len(b) + 1}
    BY <1>6, <1>8
  <2>3. V[lo + Len(b) + 1] = m
    BY <1>2, <1>5, <2>1, <2>2
  <2>4. \A p \in Places(W) : p < lo + Len(b) + 1
    BY <1>2, <1>4
  <2> QED BY <1>7, <2>1, <2>2, <2>3, <2>4 DEF Pushed
<1>9. ASSUME m.to # s
      PROVE  V = W
  <2>1. Places(V) = Places(W)
    BY <1>6, <1>9
  <2> QED BY <1>3, <1>7, <2>1, WindowEqual
<1> QED BY <1>1, <1>3, <1>8, <1>9

\* The first message is taken.
LEMMA WindowTail ==
    ASSUME NEW b \in Seq(Message), b # <<>>, NEW s, NEW lo \in Nat
    PROVE  /\ Tail(b) \in Seq(Message) /\ Head(b) \in Message
           /\ Head(b).to = s => /\ Popped(Window(b, s, lo), Window(Tail(b), s, lo + 1), lo + 1)
                                /\ Window(b, s, lo)[lo + 1] = Head(b)
           /\ Head(b).to # s => Window(Tail(b), s, lo + 1) = Window(b, s, lo)
<1>1. PICK a \in Seq(Message) : a = Tail(b)
  BY HeadTailProperties
<1>2. PICK m \in Message : m = Head(b)
  BY HeadTailProperties
<1>3. /\ Len(b) \in Nat /\ Len(b) >= 1 /\ Len(a) = Len(b) - 1 /\ m = b[1]
      /\ \A k \in 1..Len(a) : a[k] = b[k + 1]
  BY <1>1, <1>2
<1>4. PICK W, V : W = Window(b, s, lo) /\ V = Window(a, s, lo + 1)
  OBVIOUS
<1>5. /\ \A p : p \in Places(W) <=> p \in Nat /\ p - lo \in 1..Len(b) /\ b[p - lo].to = s
      /\ \A p \in Places(W) : W[p] = b[p - lo]
  BY <1>4, WindowParts
<1>6. /\ \A p : p \in Places(V)
             <=> p \in Nat /\ p - (lo + 1) \in 1..Len(a) /\ a[p - (lo + 1)].to = s
      /\ \A p \in Places(V) : V[p] = a[p - (lo + 1)]
      /\ \A p \in Places(V) : p \in Nat /\ lo + 1 < p
  BY <1>4, WindowParts
<1>7. \A p \in Nat : /\ p - (lo + 1) \in 1..Len(a) <=> p - lo \in 1..Len(b) /\ p # lo + 1
                     /\ p - (lo + 1) \in 1..Len(a) => a[p - (lo + 1)] = b[p - lo]
  <2>1. ASSUME NEW p \in Nat
        PROVE  p - (lo + 1) \in 1..Len(a) <=> p - lo \in 1..Len(b) /\ p # lo + 1
    BY <1>3
  <2>2. ASSUME NEW p \in Nat, p - (lo + 1) \in 1..Len(a)
        PROVE  a[p - (lo + 1)] = b[p - lo]
    <3>1. (p - (lo + 1)) + 1 = p - lo
      OBVIOUS
    <3> QED BY <1>3, <2>2, <3>1
  <2> QED BY <2>1, <2>2
<1>8. \A p : p \in Places(V) <=> p \in Places(W) /\ p # lo + 1
  <2>1. ASSUME NEW p \in Nat
        PROVE  p \in Places(V) <=> p \in Places(W) /\ p # lo + 1
    <3>1. p - (lo + 1) \in 1..Len(a) => a[p - (lo + 1)].to = b[p - lo].to
      BY <1>7, <2>1
    <3> QED BY <1>5, <1>6, <1>7, <2>1, <3>1
  <2>2. \A p : p \in Places(V) \/ p \in Places(W) => p \in Nat
    BY <1>5, <1>6
  <2> QED BY <2>1, <2>2
<1>9. \A p \in Places(V) : V[p] = W[p]
  BY <1>5, <1>6, <1>7, <1>8
<1>10. /\ lo + 1 \in Nat /\ (lo + 1) - lo = 1 /\ (lo + 1) - lo \in 1..Len(b)
  BY <1>3
<1>11. ASSUME m.to = s
       PROVE  Popped(W, V, lo + 1) /\ W[lo + 1] = m
  <2>1. lo + 1 \in Places(W) /\ W[lo + 1] = m
    BY <1>3, <1>5, <1>10, <1>11
  <2>2. Places(V) = Places(W) \ {lo + 1}
    BY <1>8
  <2> QED BY <1>6, <1>9, <2>1, <2>2 DEF Popped
<1>12. ASSUME m.to # s
       PROVE  V = W
  <2>1. lo + 1 \notin Places(W)
    BY <1>3, <1>5, <1>10, <1>12
  <2>2. Places(V) = Places(W)
    BY <1>8, <2>1
  <2> QED BY <1>4, <1>9, <2>2, WindowEqual
<1> QED BY <1>1, <1>2, <1>4, <1>11, <1>12

----------------------------------------------------------------------------
(* The registers of a Leaf as MappingInvariant sees them.                  *)

\* What MappingInvariant tells apart of an element and of a register.
Core(e) == [identifier |-> e.identifier, hidden |-> e.hidden, fsm |-> e.fsm]

Cores(g) == [i \in DOMAIN g.elem |-> Core(g.elem[i])]

\* The parts of an element.
LEMMA CoresParts ==
    ASSUME NEW g
    PROVE  /\ DOMAIN Cores(g) = DOMAIN g.elem
           /\ \A i \in DOMAIN g.elem : /\ Cores(g)[i].identifier = g.elem[i].identifier
                                       /\ Cores(g)[i].hidden = g.elem[i].hidden
                                       /\ Cores(g)[i].fsm = g.elem[i].fsm
                                       /\ Cores(g)[i] = Core(g.elem[i])
BY DEF Cores, Core

\* Their types.
LEMMA CoresTyped ==
    ASSUME NEW g, Sound(g)
    PROVE  /\ Typed(Cores(g))
           /\ \A i \in DOMAIN Cores(g) : /\ Cores(g)[i].fsm \in Fsm /\ i \in Nat \ {NoId}
                                         /\ Cores(g)[i].hidden \in BOOLEAN
<1>1. /\ IsFiniteSet(DOMAIN g.elem) /\ DOMAIN g.elem \subseteq 1..g.size /\ g.size \in Nat
      /\ g.elem \in [DOMAIN g.elem -> Entry]
  BY FiniteDomain
<1>2. \A i \in DOMAIN g.elem : g.elem[i].fsm \in Fsm /\ g.elem[i].hidden \in BOOLEAN
  BY <1>1 DEF Entry
<1>3. \A i \in DOMAIN g.elem : i \in Nat \ {NoId}
  BY <1>1 DEF NoId
<1>4. \A i \in DOMAIN Cores(g) : /\ Cores(g)[i].fsm \in Fsm /\ i \in Nat \ {NoId}
                                 /\ Cores(g)[i].hidden \in BOOLEAN
  BY <1>2, <1>3, CoresParts
<1>5. Typed(Cores(g))
  BY <1>1, <1>4, CoresParts DEF Typed, Fsm
<1> QED BY <1>4, <1>5

\* An element is replaced by one that is the same object.
LEMMA CoresPut ==
    ASSUME NEW g, Sound(g), NEW i \in DOMAIN g.elem, NEW e \in Entry,
           e.identifier = g.elem[i].identifier
    PROVE  /\ e.hidden = g.elem[i].hidden => Becomes(Cores(g), Cores(Put(g, i, e)), i, e.fsm)
           /\ e.hidden = TRUE => Hides(Cores(g), Cores(Put(g, i, e)), i, e.fsm)
<1>1. PICK h : h = Put(g, i, e)
  OBVIOUS
<1>2. /\ DOMAIN h.elem = DOMAIN g.elem /\ h.elem[i] = e
      /\ \A k \in DOMAIN g.elem \ {i} : h.elem[k] = g.elem[k]
  BY <1>1, PutSound
<1>3. /\ DOMAIN Cores(h) = DOMAIN Cores(g) /\ i \in DOMAIN Cores(g)
      /\ \A k \in DOMAIN Cores(g) \ {i} : Cores(h)[k] = Cores(g)[k]
      /\ Cores(h)[i].identifier = Cores(g)[i].identifier
      /\ Cores(h)[i].fsm = e.fsm /\ Cores(h)[i].hidden = e.hidden
      /\ Cores(g)[i].hidden = g.elem[i].hidden
  <2>1. DOMAIN Cores(h) = DOMAIN h.elem /\ DOMAIN Cores(g) = DOMAIN g.elem
    BY CoresParts
  <2>2. ASSUME NEW k \in DOMAIN Cores(g) \ {i}
        PROVE  Cores(h)[k] = Cores(g)[k]
    <3>1. k \in DOMAIN h.elem /\ k \in DOMAIN g.elem /\ h.elem[k] = g.elem[k]
      BY <1>2, <2>1, <2>2
    <3>2. Cores(h)[k] = Core(h.elem[k]) /\ Cores(g)[k] = Core(g.elem[k])
      BY <3>1, CoresParts
    <3> QED BY <3>1, <3>2
  <2>3. /\ Cores(h)[i].identifier = e.identifier /\ Cores(h)[i].fsm = e.fsm
        /\ Cores(h)[i].hidden = e.hidden
    BY <1>2, CoresParts
  <2>4. Cores(g)[i].hidden = g.elem[i].hidden /\ Cores(g)[i].identifier = g.elem[i].identifier
    BY CoresParts
  <2> QED BY <1>2, <2>1, <2>2, <2>3, <2>4
<1> QED BY <1>1, <1>3 DEF Becomes, Hides

\* It is erased.
LEMMA CoresErase ==
    ASSUME NEW g, Sound(g), NEW i \in DOMAIN g.elem
    PROVE  Erases(Cores(g), Cores(Erase(g, i)), i)
<1>1. PICK h : h = Erase(g, i)
  OBVIOUS
<1>2. /\ DOMAIN h.elem = DOMAIN g.elem \ {i}
      /\ \A k \in DOMAIN g.elem \ {i} : h.elem[k] = g.elem[k]
  BY <1>1, EraseSound
<1>3. /\ DOMAIN Cores(h) = DOMAIN Cores(g) \ {i}
      /\ \A k \in DOMAIN Cores(h) : Cores(h)[k] = Cores(g)[k]
  <2>1. DOMAIN Cores(h) = DOMAIN h.elem /\ DOMAIN Cores(g) = DOMAIN g.elem
    BY CoresParts
  <2>2. ASSUME NEW k \in DOMAIN Cores(h)
        PROVE  Cores(h)[k] = Cores(g)[k]
    <3>1. k \in DOMAIN h.elem /\ k \in DOMAIN g.elem /\ h.elem[k] = g.elem[k]
      BY <1>2, <2>1, <2>2
    <3>2. Cores(h)[k] = Core(h.elem[k]) /\ Cores(g)[k] = Core(g.elem[k])
      BY <3>1, CoresParts
    <3> QED BY <3>1, <3>2
  <2> QED BY <1>2, <2>1, <2>2
<1> QED BY <1>1, <1>3 DEF Erases

\* An element makes a step.
LEMMA EvaluateCores ==
    ASSUME NEW lf, NEW k, k = "started", GoodLeaf(lf, k), NEW s \in Sides,
           NEW id \in DOMAIN lf[s].elem, NEW st, Legal(lf[s].elem[id].fsm, st),
           NEW r, r = Evaluate(lf, s, id, st, RemoteIsNode)
    PROVE  /\ r.leaf[Opposite(s)] = lf[Opposite(s)]
           /\ r.out = Messages(s, id, lf[s].elem[id], st.out)
           /\ r.ok <=> st.ok
           /\ IF st.alive THEN Becomes(Cores(lf[s]), Cores(r.leaf[s]), id, st.fsm)
                          ELSE Erases(Cores(lf[s]), Cores(r.leaf[s]), id)
<1> DEFINE e == lf[s].elem[id]
<1>1. /\ Sound(lf[s]) /\ id \in Nat /\ e \in Entry
  BY SideOf
<1>2. /\ st.fsm \in Fsm /\ st.out \in Seq(Outs) /\ st.changes \in Changes
      /\ st.alive \in BOOLEAN /\ st.ok \in BOOLEAN
  BY DEF Legal, FsmSteps
<1>3. PICK E : E = [e EXCEPT !.fsm = st.fsm]
  OBVIOUS
<1>4. E \in Entry /\ SameObject(e, E) /\ E.fsm = st.fsm
  BY <1>1, <1>2, <1>3 DEF Entry, SameObject
<1>5. PICK S : S = [e |-> E, ops |-> lf.ops, ok |-> st.ok]
  OBVIOUS
<1>6. S.e = E /\ S.ops = lf.ops /\ S.ok = st.ok
  BY <1>5
<1>7. PICK n : n = AllChanged(S, s, id, st.changes, RemoteIsNode)
  OBVIOUS
<1>8. /\ n.e \in Entry /\ SameObject(E, n.e) /\ n.e.fsm = E.fsm
      /\ n.ops = lf.ops /\ (n.ok <=> st.ok)
  <2>1. S.e \in Entry /\ S.ok \in BOOLEAN
    BY <1>2, <1>4, <1>6
  <2>2. CallsDone(S, s, st.changes, AllChanged(S, s, id, st.changes, RemoteIsNode))
    BY <1>2, <2>1, AllChangedEntry
  <2>3. CallsDone(S, s, st.changes, n)
    BY <1>7, <2>2, Zenon
  <2> QED BY <1>6, <2>3, Zenon DEF CallsDone
<1>9. n.e.identifier = e.identifier /\ n.e.hidden = e.hidden /\ n.e.fsm = st.fsm
  BY <1>4, <1>8 DEF SameObject
<1>10. PICK R : R = IF st.alive THEN Put(lf[s], id, n.e) ELSE Erase(lf[s], id)
  OBVIOUS
<1>11. IF st.alive THEN Becomes(Cores(lf[s]), Cores(R), id, st.fsm)
                   ELSE Erases(Cores(lf[s]), Cores(R), id)
  <2>1. CASE st.alive
    <3>1. Becomes(Cores(lf[s]), Cores(Put(lf[s], id, n.e)), id, n.e.fsm)
      BY <1>1, <1>8, <1>9, CoresPut
    <3> QED BY <1>9, <1>10, <2>1, <3>1
  <2>2. CASE ~st.alive
    <3>1. Erases(Cores(lf[s]), Cores(Erase(lf[s], id)), id)
      BY <1>1, CoresErase
    <3> QED BY <1>10, <2>2, <3>1
  <2> QED BY <2>1, <2>2
<1>12. r = Result([lf EXCEPT ![s] = R, !.ops = lf.ops], Messages(s, id, e, st.out), n.ok)
  <2>1. r = Result([lf EXCEPT ![s] = IF st.alive THEN Put(@, id, n.e) ELSE Erase(@, id),
                              !.ops = n.ops], Messages(s, id, e, st.out), n.ok)
    BY <1>3, <1>5, <1>7, Zenon DEF Evaluate
  <2> QED BY <1>8, <1>10, <2>1
<1>13. PICK N : N = [lf EXCEPT ![s] = R, !.ops = lf.ops]
  OBVIOUS
<1>14. r.leaf = N /\ r.out = Messages(s, id, e, st.out) /\ r.ok = n.ok
  <2>1. r = Result(N, Messages(s, id, e, st.out), n.ok)
    BY <1>12, <1>13, Zenon
  <2>2. PICK M, K : M = Messages(s, id, e, st.out) /\ K = n.ok
    OBVIOUS
  <2>3. Result(N, M, K).leaf = N /\ Result(N, M, K).out = M /\ Result(N, M, K).ok = K
    BY ResultParts
  <2> QED BY <2>1, <2>2, <2>3, Zenon
<1>15. N[s] = R /\ N[Opposite(s)] = lf[Opposite(s)]
  <2>1. SoundLeaf(lf)
    BY DEF GoodLeaf
  <2>2. DOMAIN lf = {"Terminal", "Binding", "ops"}
    BY <2>1 DEF SoundLeaf
  <2>3. Opposite(s) \in Sides /\ Opposite(s) # s /\ s # "ops" /\ Opposite(s) # "ops"
    BY SidesFacts
  <2> QED BY <1>13, <2>2, <2>3 DEF Sides
<1>16. r.ok <=> st.ok
  BY <1>8, <1>14
<1> QED BY <1>11, <1>14, <1>15, <1>16, Zenon

----------------------------------------------------------------------------
(* What a machine sends in one step.                                       *)

\* A message that a machine sends when it handles one.
Sendable(o) == o.type \in {"Mapping", "Removed", "RemovedAck"} /\ o.id \in Nat

\* Nothing, a message or two.
Few(out) ==
    \/ out = <<>>
    \/ \E o : out = <<o>> /\ Sendable(o)
    \/ \E o, p : out = <<o, p>> /\ Sendable(o) /\ Sendable(p)

\* What the steps of a machine are made of sends few messages.
LEMMA StepsFew ==
    ASSUME NEW f, NEW g, NEW c
    PROVE  /\ Few(Step(g, <<>>, c).out) /\ Few(Dead(f).out) /\ Few(NeverReached(f).out)
           /\ \A ty \in {"Mapping", "Removed", "RemovedAck"}, a \in Nat :
                 Few(Step(g, <<Out(ty, a)>>, c).out)
           /\ \A ty, tz \in {"Mapping", "Removed", "RemovedAck"}, a, b \in Nat :
                 Few(Step(g, <<Out(ty, a), Out(tz, b)>>, c).out)
<1>1. /\ Step(g, <<>>, c).out = <<>> /\ Dead(f).out = <<>> /\ NeverReached(f).out = <<>>
  BY DEF Step, Dead, NeverReached
<1>2. \A ty \in {"Mapping", "Removed", "RemovedAck"}, a \in Nat : Sendable(Out(ty, a))
  BY DEF Sendable, Out
<1>3. \A o : Step(g, <<o>>, c).out = <<o>>
  BY DEF Step
<1>4. \A o, p : Step(g, <<o, p>>, c).out = <<o, p>>
  BY DEF Step
<1> QED BY <1>1, <1>2, <1>3, <1>4 DEF Few

\* So do the machines.
LEMMA MachineFew ==
    ASSUME NEW f \in Fsm, NEW id \in Nat
    PROVE  /\ Few(process_rcvd_description(f, id).out) /\ Few(process_rcvd_mapping(f, id).out)
           /\ Few(process_rcvd_noticed(f).out) /\ Few(process_rcvd_removed(f).out)
           /\ Few(process_rcvd_removed_ack(f).out) /\ Few(process_object_destroyed(f).out)
<1>0. f.mapped \in Nat
  BY DEF Fsm
<1>1. Few(process_rcvd_description(f, id).out)
  BY <1>0, StepsFew DEF process_rcvd_description
<1>2. Few(process_rcvd_mapping(f, id).out)
  BY <1>0, StepsFew DEF process_rcvd_mapping, Asserting
<1>3. Few(process_rcvd_noticed(f).out)
  BY <1>0, StepsFew DEF process_rcvd_noticed
<1>4. Few(process_rcvd_removed(f).out)
  BY <1>0, StepsFew DEF process_rcvd_removed, Asserting
<1>5. Few(process_rcvd_removed_ack(f).out)
  BY <1>0, StepsFew DEF process_rcvd_removed_ack, Asserting
<1>6. Few(process_object_destroyed(f).out)
  BY <1>0, StepsFew DEF process_object_destroyed
<1> QED BY <1>1, <1>2, <1>3, <1>4, <1>5, <1>6

\* The message of element id of side s that o stands for.
Sent(s, id, o) ==
    IF o.type = "Mapping" THEN [type |-> "Mapping", to |-> Opposite(s), id |-> o.id, own |-> id]
                          ELSE [type |-> o.type, to |-> Opposite(s), id |-> o.id]

\* It is a message to the other side.
LEMMA SentParts ==
    ASSUME NEW s \in Sides, NEW id \in Nat, NEW o, Sendable(o), NEW m, m = Sent(s, id, o)
    PROVE  /\ m \in Message /\ m.to = Opposite(s) /\ m.type = o.type /\ m.id = o.id
           /\ o.type = "Mapping" => m.own = id
<1>1. Opposite(s) \in Sides
  BY SidesFacts
<1>2. CASE o.type = "Mapping"
  BY <1>1, <1>2 DEF Sent, Sendable, Message
<1>3. CASE o.type # "Mapping"
  BY <1>1, <1>3 DEF Sent, Sendable, Message
<1> QED BY <1>2, <1>3

\* The messages of a step.
LEMMA MessagesFew ==
    ASSUME NEW s \in Sides, NEW id \in Nat, NEW e
    PROVE  /\ Messages(s, id, e, <<>>) = <<>>
           /\ \A o : Sendable(o) => Messages(s, id, e, <<o>>) = <<Sent(s, id, o)>>
<1>1. Messages(s, id, e, <<>>) = <<>>
  BY DEF Messages
<1>2. ASSUME NEW o, Sendable(o)
      PROVE  Messages(s, id, e, <<o>>) = <<Sent(s, id, o)>>
  BY <1>2 DEF Messages, Sendable, Sent
<1> QED BY <1>1, <1>2

\* Two of them.
LEMMA MessagesTwo ==
    ASSUME NEW s \in Sides, NEW id \in Nat, NEW e, NEW o, NEW p, Sendable(o), Sendable(p)
    PROVE  Messages(s, id, e, <<o, p>>) = <<Sent(s, id, o), Sent(s, id, p)>>
<1>1. PICK M : M = Messages(s, id, e, <<o, p>>)
  OBVIOUS
<1>2. M \in [1..2 -> {Sent(s, id, o), Sent(s, id, p)}] /\ M[1] = Sent(s, id, o)
         /\ M[2] = Sent(s, id, p)
  BY <1>1 DEF Messages, Sendable, Sent
<1> QED BY <1>1, <1>2

\* One message put at the end, or two.
LEMMA TwoAppended ==
    ASSUME NEW d \in Seq(Message), NEW m \in Message, NEW n \in Message
    PROVE  /\ d \o <<m>> = Append(d, m)
           /\ d \o <<m, n>> = Append(Append(d, m), n)
<1>1. d \o <<m>> = Append(d, m)
  OBVIOUS
<1>2. d \o <<m, n>> = Append(Append(d, m), n)
  OBVIOUS
<1> QED BY <1>1, <1>2

\* The message is put at the end of d.
Said(d, c, s, id, o) == c = Append(d, Sent(s, id, o))

\* A message is sent.
LEMMA SendsOneWindow ==
    ASSUME NEW d \in Seq(Message), NEW s \in Sides, NEW t, t = Opposite(s), NEW hi \in Nat,
           NEW id \in Nat, NEW o, Sendable(o), NEW c, Said(d, c, s, id, o)
    PROVE  /\ c \in Seq(Message) /\ Window(c, s, hi) = Window(d, s, hi)
           /\ \E n : SendsOne(Window(d, t, hi), Window(c, t, hi), n, t, id, o)
<1>1. PICK m : m = Sent(s, id, o)
  OBVIOUS
<1>2. m \in Message /\ m.to = t /\ m.type = o.type /\ m.id = o.id
         /\ (o.type = "Mapping" => m.own = id)
  BY <1>1, SentParts
<1>3. t # s
  BY SidesFacts
<1>4. /\ Append(d, m) \in Seq(Message) /\ Window(Append(d, m), s, hi) = Window(d, s, hi)
      /\ Pushed(Window(d, t, hi), Window(Append(d, m), t, hi), hi + Len(d) + 1, m)
  BY <1>2, <1>3, WindowAppend
<1>5. PICK w, w2, n : w = Window(d, t, hi) /\ w2 = Window(c, t, hi) /\ n = hi + Len(d) + 1
  OBVIOUS
<1>6. Pushed(w, w2, n, m) /\ Queue(w)
  BY <1>1, <1>4, <1>5, WindowParts DEF Said
<1>7. SendsOne(w, w2, n, t, id, o)
  <2>1. CASE o.type = "Mapping"
    BY <1>2, <1>6, <2>1, PushMapping DEF SendsOne
  <2>2. CASE o.type = "Removed"
    BY <1>2, <1>6, <2>2, PushRemoved DEF SendsOne
  <2>3. CASE o.type = "RemovedAck"
    BY <1>2, <1>6, <2>3, PushRemovedAck DEF SendsOne
  <2> QED BY <2>1, <2>2, <2>3 DEF Sendable
<1>8. c = Append(d, m)
  BY <1>1 DEF Said
<1>9. \E k : SendsOne(Window(d, t, hi), Window(c, t, hi), k, t, id, o)
  BY <1>5, <1>7
<1> QED BY <1>4, <1>8, <1>9

\* The messages that out stands for are put at the end of d.
Says(d, c, s, id, e, out) == c = d \o Messages(s, id, e, out)

\* The messages of a step are sent.
LEMMA SendsWindow ==
    ASSUME NEW d \in Seq(Message), NEW s \in Sides, NEW t, t = Opposite(s), NEW hi \in Nat,
           NEW id \in Nat, NEW e, NEW out, Few(out), NEW c, Says(d, c, s, id, e, out)
    PROVE  /\ c \in Seq(Message) /\ Window(c, s, hi) = Window(d, s, hi)
           /\ Sends(Window(d, t, hi), Window(c, t, hi), t, id, out)
<1>1. CASE out = <<>>
  <2>1. c = d
    BY <1>1, MessagesFew DEF Says
  <2> QED BY <1>1, <2>1 DEF Sends
<1>2. ASSUME NEW o, out = <<o>>, Sendable(o)
      PROVE  /\ c \in Seq(Message) /\ Window(c, s, hi) = Window(d, s, hi)
             /\ Sends(Window(d, t, hi), Window(c, t, hi), t, id, out)
  <2>1. PICK m \in Message : m = Sent(s, id, o)
    BY <1>2, SentParts
  <2>2. c = d \o <<m>>
    BY <1>2, <2>1, MessagesFew DEF Says
  <2>3. Said(d, c, s, id, o)
    BY <2>1, <2>2, TwoAppended DEF Said
  <2>4. /\ c \in Seq(Message) /\ Window(c, s, hi) = Window(d, s, hi)
        /\ \E k : SendsOne(Window(d, t, hi), Window(c, t, hi), k, t, id, o)
    BY <1>2, <2>3, SendsOneWindow
  <2>5. Len(out) = 1 /\ out[1] = o
    BY <1>2
  <2> QED BY <2>4, <2>5 DEF Sends
<1>3. ASSUME NEW o, NEW p, out = <<o, p>>, Sendable(o), Sendable(p)
      PROVE  /\ c \in Seq(Message) /\ Window(c, s, hi) = Window(d, s, hi)
             /\ Sends(Window(d, t, hi), Window(c, t, hi), t, id, out)
  <2>1. PICK m, n \in Message : m = Sent(s, id, o) /\ n = Sent(s, id, p)
    BY <1>3, SentParts
  <2>2. c = d \o <<m, n>>
    <3>1. Messages(s, id, e, <<o, p>>) = <<Sent(s, id, o), Sent(s, id, p)>>
      BY <1>3, MessagesTwo
    <3> QED BY <1>3, <2>1, <3>1 DEF Says
  <2>3. PICK b : Said(d, b, s, id, o)
    BY DEF Said
  <2>4. /\ b \in Seq(Message) /\ Window(b, s, hi) = Window(d, s, hi)
        /\ \E k : SendsOne(Window(d, t, hi), Window(b, t, hi), k, t, id, o)
    BY <1>3, <2>3, SendsOneWindow
  <2>5. Said(b, c, s, id, p)
    <3>1. b = Append(d, m)
      BY <2>1, <2>3 DEF Said
    <3>2. c = Append(b, n)
      BY <2>2, <3>1, TwoAppended
    <3> QED BY <2>1, <3>2 DEF Said
  <2>6. /\ c \in Seq(Message) /\ Window(c, s, hi) = Window(b, s, hi)
        /\ \E k : SendsOne(Window(b, t, hi), Window(c, t, hi), k, t, id, p)
    BY <1>3, <2>4, <2>5, SendsOneWindow
  <2>7. Len(out) = 2 /\ out[1] = o /\ out[2] = p
    BY <1>3
  <2> QED BY <2>4, <2>6, <2>7 DEF Sends
<1> QED BY <1>1, <1>2, <1>3 DEF Few

----------------------------------------------------------------------------
(* Two registers with the inboxes of their Leafs.                          *)

\* Register r of side s with inbox b and register z of side t with inbox d.
Meet(r, b, z, d, s, t) ==
    /\ \E lo, hi \in Nat : Pair(r, Window(b, s, lo), z, Window(d, t, hi), s, t)
    /\ SkipsFit(r) /\ SkipsFit(z)

\* The elements have ids and machines.
Machines(r) == \A i \in DOMAIN r : r[i].fsm \in Fsm /\ i \in Nat \ {NoId}

\* The machine of element i has made step st.
Moved(r, r2, i, st) == IF st.alive THEN Becomes(r, r2, i, st.fsm) ELSE Erases(r, r2, i)

\* Neither end is the first.
LEMMA MeetSwap ==
    ASSUME NEW r, NEW b, NEW z, NEW d, NEW s, NEW t, Meet(r, b, z, d, s, t)
    PROVE  Meet(z, d, r, b, t, s)
BY DEF Meet, Pair

\* The first message of q is m.
FirstIs(q, q2, h, s, m) ==
    /\ q[h] = m /\ h \in Places(q)
    /\ m.type = "Description" => PopsDescription(q, q2, h, s, m.own)
    /\ m.type = "Mapping" => PopsMapping(q, q2, h, s, m.id, m.own)
    /\ m.type = "Noticed" => PopsNoticed(q, q2, h, s, m.id)
    /\ m.type = "Removed" => PopsRemoved(q, q2, h, s, m.id)
    /\ m.type = "RemovedAck" => PopsRemovedAck(q, q2, h, s, m.id)

\* The first message of an inbox is taken.
LEMMA Taken ==
    ASSUME NEW b \in Seq(Message), b # <<>>, NEW s, NEW lo \in Nat, NEW m, m = Head(b), m.to = s,
           NEW h, h = lo + 1
    PROVE  m \in Message /\ FirstIs(Window(b, s, lo), Window(Tail(b), s, h), h, s, m)
<1>0. PICK q, q2 : q = Window(b, s, lo) /\ q2 = Window(Tail(b), s, h)
  OBVIOUS
<1>1. Queue(q)
  BY <1>0, WindowParts
<1>2. m \in Message /\ Popped(q, q2, h) /\ q[h] = m
  BY <1>0, WindowTail
<1>3. h \in Places(q)
  BY <1>2 DEF Popped
<1>4. m.type = "Description" => PopsDescription(q, q2, h, s, m.own)
  BY <1>1, <1>2, PopDescription
<1>5. m.type = "Mapping" => PopsMapping(q, q2, h, s, m.id, m.own)
  BY <1>1, <1>2, PopMapping
<1>6. m.type = "Noticed" => PopsNoticed(q, q2, h, s, m.id)
  BY <1>1, <1>2, PopNoticed
<1>7. m.type = "Removed" => PopsRemoved(q, q2, h, s, m.id)
  BY <1>1, <1>2, PopRemoved
<1>8. m.type = "RemovedAck" => PopsRemovedAck(q, q2, h, s, m.id)
  BY <1>1, <1>2, PopRemovedAck
<1> QED BY <1>0, <1>2, <1>3, <1>4, <1>5, <1>6, <1>7, <1>8 DEF FirstIs

\* A message has a sender or an addressee.
LEMMA MessageParts ==
    ASSUME NEW m \in Message
    PROVE  /\ m.to \in Sides
           /\ m.type \in {"Description", "Mapping"} => m.own \in Nat
           /\ m.type \in {"Mapping", "Noticed", "Removed", "RemovedAck"} => m.id \in Nat
           /\ m.type = "Description" => m.identifier \in Identifiers
BY DEF Message

\* The step of a machine on a message to it.
MachineStep(f, m) ==
    CASE m.type = "Mapping" -> process_rcvd_mapping(f, m.own)
      [] m.type = "Noticed" -> process_rcvd_noticed(f)
      [] m.type = "Removed" -> process_rcvd_removed(f)
      [] m.type = "RemovedAck" -> process_rcvd_removed_ack(f)

\* It sends a few messages; a machine that is described or mapped lives on.
LEMMA MachineStepFew ==
    ASSUME NEW f \in Fsm, NEW m \in Message
    PROVE  /\ m.type \in {"Mapping", "Noticed", "Removed", "RemovedAck"}
                  => Few(MachineStep(f, m).out)
           /\ m.type = "Mapping" => process_rcvd_mapping(f, m.own).alive
           /\ m.type = "Description" => process_rcvd_description(f, m.own).alive
<1>1. m.type = "Mapping" => Few(MachineStep(f, m).out)
  BY MachineFew, MessageParts DEF MachineStep
<1>2. m.type = "Noticed" => Few(MachineStep(f, m).out)
  BY MachineFew DEF MachineStep, Fsm
<1>3. m.type = "Removed" => Few(MachineStep(f, m).out)
  BY MachineFew DEF MachineStep, Fsm
<1>4. m.type = "RemovedAck" => Few(MachineStep(f, m).out)
  BY MachineFew DEF MachineStep, Fsm
<1>5. m.type = "Mapping" => process_rcvd_mapping(f, m.own).alive
  BY DEF process_rcvd_mapping, Step, NeverReached, Asserting
<1>6. m.type = "Description" => process_rcvd_description(f, m.own).alive
  BY DEF process_rcvd_description, Step, NeverReached
<1> QED BY <1>1, <1>2, <1>3, <1>4, <1>5, <1>6

\* The element it is addressed to handles it.
LEMMA ElementHandled ==
    ASSUME NEW r, NEW q, NEW z, NEW w, NEW s, NEW t, Pair(r, q, z, w, s, t), SkipsFit(r),
           SkipsFit(z),
           NEW m \in Message, m.type \in {"Mapping", "Noticed", "Removed", "RemovedAck"},
           NEW q2, NEW h, FirstIs(q, q2, h, s, m), NEW i, i = m.id, NEW f \in Fsm, f = r[i].fsm,
           NEW st, st = MachineStep(f, m), NEW r2, Moved(r, r2, i, st),
           NEW w2, Sends(w, w2, t, i, st.out)
    PROVE  st.ok /\ Pair(r2, q2, z, w2, s, t) /\ SkipsFit(r2)
<1>1. st = MachineStep(r[i].fsm, m) /\ r[i].fsm \in Fsm
  OBVIOUS
<1>2. IF st.alive THEN Becomes(r, r2, i, st.fsm) ELSE Erases(r, r2, i)
  BY <1>1 DEF Moved
<1>3. Sends(w, w2, t, i, st.out) /\ r[i].fsm \in Fsm
  BY <1>1
<1>4. CASE m.type = "Mapping"
  <2>1. PICK j \in Nat : j = m.own
    BY <1>4, MessageParts
  <2>2. st = process_rcvd_mapping(r[i].fsm, j) /\ PopsMapping(q, q2, h, s, i, j)
    BY <1>1, <1>4, <2>1 DEF MachineStep, FirstIs
  <2>3. Becomes(r, r2, i, st.fsm)
    BY <1>2, <1>3, <1>4, <2>1, <2>2, MachineStepFew
  <2> QED BY <1>3, <2>2, <2>3, MappingHandled
<1>5. CASE m.type = "Noticed"
  <2>1. st = process_rcvd_noticed(r[i].fsm) /\ PopsNoticed(q, q2, h, s, i)
    BY <1>1, <1>5 DEF MachineStep, FirstIs
  <2> QED BY <1>2, <1>3, <2>1, NoticedHandled
<1>6. CASE m.type = "Removed"
  <2>1. st = process_rcvd_removed(r[i].fsm) /\ PopsRemoved(q, q2, h, s, i)
    BY <1>1, <1>6 DEF MachineStep, FirstIs
  <2> QED BY <1>2, <1>3, <2>1, RemovedHandled
<1>7. CASE m.type = "RemovedAck"
  <2>1. st = process_rcvd_removed_ack(r[i].fsm) /\ PopsRemovedAck(q, q2, h, s, i)
    BY <1>1, <1>7 DEF MachineStep, FirstIs
  <2> QED BY <1>2, <1>3, <2>1, RemovedAckHandled
<1> QED BY <1>4, <1>5, <1>6, <1>7

\* The same with inboxes.
LEMMA MeetElement ==
    ASSUME NEW b \in Seq(Message), b # <<>>, NEW d \in Seq(Message), NEW s \in Sides, NEW t,
           t = Opposite(s), NEW r, NEW z, Meet(r, b, z, d, s, t),
           Machines(r), NEW m, m = Head(b), m.to = s,
           m.type \in {"Mapping", "Noticed", "Removed", "RemovedAck"}
    PROVE  /\ m.id \in DOMAIN r
           /\ \A st, r2, e, d2 :
                 /\ st = MachineStep(r[m.id].fsm, m) /\ Moved(r, r2, m.id, st)
                 /\ Says(d, d2, s, m.id, e, st.out)
                 => st.ok /\ Meet(r2, Tail(b), z, d2, s, t)
<1>1. PICK lo, hi \in Nat : Pair(r, Window(b, s, lo), z, Window(d, t, hi), s, t)
  BY DEF Meet
<1>2. PICK q, w, q2, h : q = Window(b, s, lo) /\ w = Window(d, t, hi) /\ h = lo + 1
                         /\ q2 = Window(Tail(b), s, h)
  OBVIOUS
<1>3. Pair(r, q, z, w, s, t) /\ SkipsFit(r) /\ SkipsFit(z)
  BY <1>1, <1>2 DEF Meet
<1>4. m \in Message /\ FirstIs(q, q2, h, s, m)
  BY <1>1, <1>2, Taken
<1>5. m.id \in DOMAIN r
  <2>1. AddresseesLive(r, q, s) /\ h \in Places(q) /\ q[h] = m
    BY <1>3, <1>4 DEF Pair, End, Linked, FirstIs
  <2> QED BY <2>1 DEF AddresseesLive
<1>6. ASSUME NEW st, NEW r2, NEW e, NEW d2, st = MachineStep(r[m.id].fsm, m),
             Moved(r, r2, m.id, st),
             Says(d, d2, s, m.id, e, st.out)
      PROVE  st.ok /\ Meet(r2, Tail(b), z, d2, s, t)
  <2>1. PICK f \in Fsm : f = r[m.id].fsm
    BY <1>5 DEF Machines
  <2>2. Few(st.out)
    BY <1>4, <1>6, <2>1, MachineStepFew
  <2>3. PICK w2 : w2 = Window(d2, t, hi) /\ Sends(w, w2, t, m.id, st.out)
    <3>1. Sends(Window(d, t, hi), Window(d2, t, hi), t, m.id, st.out)
      BY <1>1, <1>5, <1>6, <2>2, SendsWindow DEF Machines
    <3> QED BY <1>2, <3>1
  <2>4. st.ok /\ Pair(r2, q2, z, w2, s, t) /\ SkipsFit(r2)
    <3>1. PICK i : i = m.id
      OBVIOUS
    <3>2. f = r[i].fsm /\ st = MachineStep(f, m)
      BY <1>6, <2>1, <3>1
    <3>3. Moved(r, r2, i, st) /\ Sends(w, w2, t, i, st.out)
      BY <1>6, <2>3, <3>1
    <3> QED BY <1>3, <1>4, <2>1, <3>1, <3>2, <3>3, ElementHandled, ZenonT(30)
  <2>5. lo + 1 \in Nat
    BY <1>1
  <2> QED BY <1>1, <1>2, <1>3, <2>3, <2>4, <2>5 DEF Meet
<1> QED BY <1>5, <1>6

\* Element i is the one that first message of q describes.
Addressed(r, q, h, i) == i \in DOMAIN r /\ ~r[i].hidden /\ r[i].identifier = q[h].identifier

\* It handles the description.
LEMMA DescribedHandled ==
    ASSUME NEW r, NEW q, NEW z, NEW w, NEW s, NEW t, Pair(r, q, z, w, s, t), SkipsFit(r),
           NEW q2, NEW h, NEW j \in Nat, PopsDescription(q, q2, h, s, j),
           NEW i, Addressed(r, q, h, i),
           NEW f \in Fsm, f = r[i].fsm, NEW st, st = process_rcvd_description(f, j),
           NEW r2, Becomes(r, r2, i, st.fsm), NEW w2, Sends(w, w2, t, i, st.out)
    PROVE  st.ok /\ Pair(r2, q2, z, w2, s, t) /\ SkipsFit(r2)
<1>1. /\ r[i].fsm \in Fsm /\ st = process_rcvd_description(r[i].fsm, j)
      /\ i \in DOMAIN r /\ ~r[i].hidden /\ r[i].identifier = q[h].identifier
  BY DEF Addressed
<1> QED BY <1>1, DescriptionHandled

\* An object is described: the element of its identifier, if there is one, is
\* mapped and otherwise the description is noticed.
LEMMA MeetDescription ==
    ASSUME NEW b \in Seq(Message), b # <<>>, NEW d \in Seq(Message), NEW s \in Sides, NEW t,
           t = Opposite(s), NEW r, NEW z, Meet(r, b, z, d, s, t),
           Machines(r), NEW m, m = Head(b), m.to = s, m.type = "Description"
    PROVE  /\ \A st, r2, e, d2 : \A i \in DOMAIN r :
                 /\ ~r[i].hidden /\ r[i].identifier = m.identifier
                 /\ st = process_rcvd_description(r[i].fsm, m.own) /\ Moved(r, r2, i, st)
                 /\ Says(d, d2, s, i, e, st.out)
                 => st.ok /\ Meet(r2, Tail(b), z, d2, s, t)
           /\ \A n, d2 :
                 /\ n = [type |-> "Noticed", to |-> t, id |-> m.own] /\ d2 = Append(d, n)
                 /\ Nobody(r, m.identifier)
                 => Meet(r, Tail(b), z, d2, s, t)
<1>1. PICK lo, hi \in Nat : Pair(r, Window(b, s, lo), z, Window(d, t, hi), s, t)
  BY DEF Meet
<1>2. PICK q, w, q2, h : q = Window(b, s, lo) /\ w = Window(d, t, hi) /\ h = lo + 1
                         /\ q2 = Window(Tail(b), s, h)
  OBVIOUS
<1>3. Pair(r, q, z, w, s, t) /\ SkipsFit(r) /\ SkipsFit(z)
  BY <1>1, <1>2 DEF Meet
<1>4. m \in Message /\ FirstIs(q, q2, h, s, m)
  BY <1>1, <1>2, Taken
<1>5. PICK j \in Nat : j = m.own
  BY <1>4, MessageParts
<1>6. PopsDescription(q, q2, h, s, j) /\ q[h].identifier = m.identifier
  BY <1>4, <1>5 DEF FirstIs
<1>7. h \in Nat
  BY <1>1, <1>2
<1>8. ASSUME NEW st, NEW r2, NEW e, NEW d2, NEW i \in DOMAIN r,
             ~r[i].hidden, r[i].identifier = m.identifier,
             st = process_rcvd_description(r[i].fsm, m.own), Moved(r, r2, i, st),
             Says(d, d2, s, i, e, st.out)
      PROVE  st.ok /\ Meet(r2, Tail(b), z, d2, s, t)
  <2>1. PICK f \in Fsm : f = r[i].fsm
    BY <1>8 DEF Machines
  <2>2. st = process_rcvd_description(f, j) /\ Few(st.out) /\ st.alive /\ i \in Nat
    BY <1>4, <1>5, <1>8, <2>1, MachineFew, MachineStepFew DEF Machines
  <2>3. PICK w2 : w2 = Window(d2, t, hi) /\ Sends(w, w2, t, i, st.out)
    <3>1. Sends(Window(d, t, hi), Window(d2, t, hi), t, i, st.out)
      BY <1>1, <1>8, <2>2, SendsWindow
    <3> QED BY <1>2, <3>1
  <2>4. Becomes(r, r2, i, st.fsm)
    BY <1>8, <2>2 DEF Moved
  <2>5. st.ok /\ Pair(r2, q2, z, w2, s, t) /\ SkipsFit(r2)
    <3>1. Addressed(r, q, h, i)
      BY <1>6, <1>8 DEF Addressed
    <3>2. Pair(r, q, z, w, s, t) /\ SkipsFit(r) /\ PopsDescription(q, q2, h, s, j)
      BY <1>3, <1>6
    <3>3. Sends(w, w2, t, i, st.out)
      BY <2>3
    <3> QED BY <1>5, <2>1, <2>2, <2>4, <3>1, <3>2, <3>3, DescribedHandled, ZenonT(60)
  <2> QED BY <1>1, <1>2, <1>3, <1>7, <2>3, <2>5 DEF Meet
<1>9. ASSUME NEW n, NEW d2, n = [type |-> "Noticed", to |-> t, id |-> m.own], d2 = Append(d, n),
             Nobody(r, m.identifier)
      PROVE  Meet(r, Tail(b), z, d2, s, t)
  <2>1. n.type = "Noticed" /\ n.to = t /\ n.id = j /\ n \in Message
    <3>1. t \in Sides
      BY SidesFacts
    <3> QED BY <1>5, <1>9, <3>1 DEF Message
  <2>2. PICK w2, p : w2 = Window(d2, t, hi) /\ Pushed(w, w2, p, n)
    BY <1>1, <1>2, <1>9, <2>1, WindowAppend
  <2>3. Queue(w)
    BY <1>1, <1>2, WindowParts
  <2>4. PushesNoticed(w, w2, p, t, j)
    BY <2>1, <2>2, <2>3, PushNoticed
  <2>5. Pair(r, q2, z, w2, s, t)
    <3>1. \A k \in DOMAIN r : r[k].identifier = q[h].identifier => r[k].hidden
      BY <1>6, <1>9 DEF Nobody
    <3> QED BY <1>3, <1>6, <2>4, <3>1, NoticeKeeps
  <2> QED BY <1>1, <1>2, <1>3, <1>7, <2>2, <2>5 DEF Meet
<1> QED BY <1>8, <1>9

\* Messages to the other registers make no difference.
LEMMA MeetOthers ==
    ASSUME NEW b \in Seq(Message), NEW s, NEW t, NEW r, NEW z, NEW d, NEW d2,
           Meet(r, b, z, d, s, t), \A hi \in Nat : Window(d2, t, hi) = Window(d, t, hi)
    PROVE  /\ Meet(r, b, z, d2, s, t)
           /\ b # <<>> /\ Head(b).to # s => Meet(r, Tail(b), z, d2, s, t)
<1>1. PICK lo, hi \in Nat : Pair(r, Window(b, s, lo), z, Window(d, t, hi), s, t)
  BY DEF Meet
<1>2. Pair(r, Window(b, s, lo), z, Window(d2, t, hi), s, t)
  BY <1>1
<1>3. Meet(r, b, z, d2, s, t)
  BY <1>1, <1>2 DEF Meet
<1>4. ASSUME b # <<>>, Head(b).to # s
      PROVE  Meet(r, Tail(b), z, d2, s, t)
  <2>1. Window(Tail(b), s, lo + 1) = Window(b, s, lo)
    BY <1>1, <1>4, WindowTail
  <2>2. PICK h \in Nat : h = lo + 1
    BY <1>1
  <2>3. Pair(r, Window(Tail(b), s, h), z, Window(d2, t, hi), s, t)
    BY <1>2, <2>1, <2>2
  <2> QED BY <1>1, <2>2, <2>3 DEF Meet
<1> QED BY <1>3, <1>4

\* Element i is destroyed.
Gone(r, r2, i, st) == IF st.alive THEN Hides(r, r2, i, st.fsm) ELSE Erases(r, r2, i)

\* An element that is destroyed says so.
LEMMA MeetDestroy ==
    ASSUME NEW b, NEW d \in Seq(Message), NEW s \in Sides, NEW t, t = Opposite(s), NEW r, NEW z,
           Meet(r, b, z, d, s, t), NEW i \in DOMAIN r, i \in Nat, ~r[i].hidden, r[i].fsm \in Fsm,
           NEW st, st = process_object_destroyed(r[i].fsm), NEW r2, Gone(r, r2, i, st),
           NEW e, NEW d2, Says(d, d2, s, i, e, st.out)
    PROVE  st.ok /\ Meet(r2, b, z, d2, s, t)
<1>1. PICK lo, hi \in Nat : Pair(r, Window(b, s, lo), z, Window(d, t, hi), s, t)
  BY DEF Meet
<1>2. PICK q, w : q = Window(b, s, lo) /\ w = Window(d, t, hi)
  OBVIOUS
<1>3. Pair(r, q, z, w, s, t) /\ SkipsFit(r) /\ SkipsFit(z)
  BY <1>1, <1>2 DEF Meet
<1>4. Few(st.out)
  BY MachineFew
<1>5. PICK w2 : w2 = Window(d2, t, hi) /\ Sends(w, w2, t, i, st.out)
  <2>1. Sends(Window(d, t, hi), Window(d2, t, hi), t, i, st.out)
    BY <1>1, <1>4, SendsWindow
  <2> QED BY <1>2, <2>1
<1>6. IF st.alive THEN Hides(r, r2, i, st.fsm) ELSE Erases(r, r2, i)
  BY DEF Gone
<1>7. st.ok /\ Pair(r2, q, z, w2, s, t) /\ SkipsFit(r2)
  BY <1>3, <1>5, <1>6, DestroyedHandled, ZenonT(30)
<1> QED BY <1>1, <1>2, <1>3, <1>5, <1>7 DEF Meet

\* A new element is described.
LEMMA MeetCreate ==
    ASSUME NEW b, NEW d \in Seq(Message), NEW s \in Sides, NEW t, t = Opposite(s), NEW r, NEW z,
           Meet(r, b, z, d, s, t), NEW i \in Nat \ {NoId}, NEW x \in Identifiers,
           NEW r2, Appears(r, r2, i, x), Nobody(r, x),
           NEW n, n = Description(s, i, x), NEW d2, d2 = Append(d, n)
    PROVE  Meet(r2, b, z, d2, s, t)
<1>1. PICK lo, hi \in Nat : Pair(r, Window(b, s, lo), z, Window(d, t, hi), s, t)
  BY DEF Meet
<1>2. PICK q, w : q = Window(b, s, lo) /\ w = Window(d, t, hi)
  OBVIOUS
<1>3. Pair(r, q, z, w, s, t) /\ SkipsFit(r) /\ SkipsFit(z)
  BY <1>1, <1>2 DEF Meet
<1>4. n.type = "Description" /\ n.to = t /\ n.own = i /\ n.identifier = x /\ n \in Message
  <2>1. t \in Sides
    BY SidesFacts
  <2> QED BY <2>1 DEF Description, Message
<1>5. PICK w2, p : w2 = Window(d2, t, hi) /\ Pushed(w, w2, p, n)
  BY <1>1, <1>2, <1>4, WindowAppend
<1>6. Queue(w)
  BY <1>1, <1>2, WindowParts
<1>7. PushesDescription(w, w2, p, t, i) /\ w2[p].identifier = x
  <2>1. PushesDescription(w, w2, p, t, i)
    BY <1>4, <1>5, <1>6, PushDescription
  <2>2. w2[p] = n
    BY <1>5 DEF Pushed
  <2> QED BY <1>4, <2>1, <2>2
<1>8. Pair(r2, q, z, w2, s, t) /\ SkipsFit(r2)
  BY <1>3, <1>7, CreateHandled
<1> QED BY <1>1, <1>2, <1>3, <1>5, <1>8 DEF Meet

\* The elements of an end that has just started.
Begun(r) ==
    /\ Typed(r) /\ OneVisible(r)
    /\ \A i \in DOMAIN r : /\ ~r[i].hidden /\ r[i].fsm.skip = 0 /\ r[i].fsm.mapped = NoId
                           /\ r[i].fsm.state \in {"UNUSED_CONFIRMED", "UNUSED_UNCONFIRMED"}

\* The messages of d to side t are the descriptions of the unconfirmed ones.
DescribedIn(r, d, t) ==
    /\ \A k \in 1..Len(d) : d[k].to = t =>
          /\ d[k].type = "Description" /\ d[k].own \in DOMAIN r
          /\ d[k].identifier = r[d[k].own].identifier /\ Unconfirmed(r[d[k].own])
    /\ \A k, n \in 1..Len(d) : d[k].to = t /\ d[n].to = t /\ d[k].own = d[n].own => k = n
    /\ \A i \in DOMAIN r : Unconfirmed(r[i]) => \E k \in 1..Len(d) : d[k].to = t /\ d[k].own = i

\* Of a terminal and a binding one at least waits for a reply.
Pending(r, z) == \A i \in DOMAIN r, j \in DOMAIN z : Unconfirmed(r[i]) \/ Unconfirmed(z[j])

\* An inbox without messages to a side.
LEMMA WindowEmpty ==
    ASSUME NEW b \in Seq(Message), NEW s, NEW lo \in Nat, \A k \in 1..Len(b) : b[k].to # s
    PROVE  Places(Window(b, s, lo)) = {}
<1>1. \A p \in Places(Window(b, s, lo)) : p - lo \in 1..Len(b) /\ b[p - lo].to = s
  BY WindowParts
<1> QED BY <1>1

\* An end starts.
LEMMA MeetStart ==
    ASSUME NEW b, NEW d, d = <<>>, NEW s, NEW t, NEW r, NEW z, Meet(r, b, z, d, s, t),
           DOMAIN r = {},
           NEW r2, Begun(r2), NEW d2 \in Seq(Message), DescribedIn(r2, d2, t), Pending(r2, z)
    PROVE  Meet(r2, b, z, d2, s, t)
<1>1. PICK lo, hi \in Nat : Pair(r, Window(b, s, lo), z, Window(d, t, hi), s, t)
  BY DEF Meet
<1>2. PICK q, w : q = Window(b, s, lo) /\ w = Window(d, t, hi)
  OBVIOUS
<1>3. Pair(r, q, z, w, s, t) /\ SkipsFit(r) /\ SkipsFit(z)
  BY <1>1, <1>2 DEF Meet
<1>4. Places(w) = {}
  <2>1. d \in Seq(Message) /\ \A k \in 1..Len(d) : d[k].to # t
    OBVIOUS
  <2> QED BY <1>1, <1>2, <2>1, WindowEmpty
<1>5. PICK w2 : w2 = Window(d2, t, hi)
  OBVIOUS
<1>6. /\ \A p : p \in Places(w2) <=> p \in Nat /\ p - hi \in 1..Len(d2) /\ d2[p - hi].to = t
      /\ \A p \in Places(w2) : w2[p] = d2[p - hi]
      /\ \A p \in Places(w2) : p \in Nat
      /\ Queue(w2)
  BY <1>1, <1>5, WindowParts
<1>7. \A p \in Places(w2) :
          /\ w2[p].type = "Description" /\ w2[p].to = t /\ w2[p].own \in DOMAIN r2
          /\ w2[p].identifier = r2[w2[p].own].identifier /\ Unconfirmed(r2[w2[p].own])
  BY <1>6 DEF DescribedIn
<1>8. ASSUME NEW p \in Places(w2), NEW k \in Places(w2), w2[p].own = w2[k].own
      PROVE  p = k
  <2>1. p - hi = k - hi
    <3>1. PICK P, K : P = p - hi /\ K = k - hi
      OBVIOUS
    <3>2. P \in 1..Len(d2) /\ d2[P].to = t /\ K \in 1..Len(d2) /\ d2[K].to = t
      BY <1>6, <1>8, <3>1
    <3>3. d2[P].own = d2[K].own
      BY <1>6, <1>8, <3>1
    <3>4. P = K
      BY <3>2, <3>3 DEF DescribedIn
    <3> QED BY <3>1, <3>4
  <2>2. p \in Nat /\ k \in Nat
    BY <1>6, <1>8
  <2> QED BY <1>1, <2>1, <2>2
<1>9. ASSUME NEW i \in DOMAIN r2, Unconfirmed(r2[i])
      PROVE  HasDescription(w2, t, i)
  <2>1. PICK k \in 1..Len(d2) : d2[k].to = t /\ d2[k].own = i
    BY <1>9 DEF DescribedIn
  <2>2. PICK p \in Nat : p = hi + k
    BY <1>1, <2>1
  <2>3. p - hi = k
    BY <1>1, <2>1, <2>2
  <2>4. p \in Places(w2)
    BY <1>6, <2>1, <2>2, <2>3
  <2>5. w2[p].own = i /\ w2[p].to = t /\ w2[p].type = "Description"
    BY <1>6, <1>7, <2>1, <2>3, <2>4
  <2> QED BY <2>4, <2>5 DEF HasDescription, Describes
<1>10. /\ Typed(r2) /\ OneVisible(r2)
       /\ \A i \in DOMAIN r2 :
               /\ ~r2[i].hidden /\ r2[i].fsm.skip = 0 /\ r2[i].fsm.mapped = NoId
               /\ r2[i].fsm.state \in {"UNUSED_CONFIRMED", "UNUSED_UNCONFIRMED"}
  BY DEF Begun
<1>11. \A i \in DOMAIN r2, j \in DOMAIN z : Unconfirmed(r2[i]) \/ Unconfirmed(z[j])
  BY DEF Pending
<1>12. Pair(r2, q, z, w2, s, t) /\ SkipsFit(r2)
  BY <1>3, <1>4, <1>6, <1>7, <1>8, <1>9, <1>10, <1>11, StartHandled
<1> QED BY <1>1, <1>2, <1>3, <1>5, <1>12 DEF Meet

\* Two ends of which neither has started.
LEMMA MeetNothing ==
    ASSUME NEW r, NEW z, NEW s, NEW t, DOMAIN r = {}, DOMAIN z = {}
    PROVE  Meet(r, <<>>, z, <<>>, s, t)
<1>1. Places(Window(<<>>, s, 0)) = {} /\ Places(Window(<<>>, t, 0)) = {}
  <2>1. <<>> \in Seq(Message) /\ \A k \in 1..Len(<<>>) : FALSE
    OBVIOUS
  <2> QED BY <2>1, WindowEmpty
<1>2. Pair(r, Window(<<>>, s, 0), z, Window(<<>>, t, 0), s, t) /\ SkipsFit(r) /\ SkipsFit(z)
  BY <1>1, NothingYet DEF SkipsFit
<1> QED BY <1>2 DEF Meet

----------------------------------------------------------------------------
(* What the operations of a Leaf mean for its two registers.               *)

\* The registers of lf with inbox b stand to whatever is at the other end of the
\* connection as those of n with inbox b2 do once the messages out are sent.
Carries(lf, b, n, b2, out) ==
    \A s \in Sides : \A z : \A d \in Seq(Message) :
        Meet(Cores(lf[s]), b, z, d, s, Opposite(s))
          => Meet(Cores(n[s]), b2, z, d \o out, s, Opposite(s))

\* The registers of lf with inbox b stand well to something at the other end.
Facing(lf, b) ==
    \A s \in Sides : \E z : \E d \in Seq(Message) : Meet(Cores(lf[s]), b, z, d, s, Opposite(s))

\* The groups of bindings wait for replies.
Waits(r) == \A i \in DOMAIN r : Unconfirmed(r[i])
Waiting(lf) == Waits(Cores(lf["Binding"]))

\* Without a connection nothing is hidden.
Rests(r) == OneVisible(r) /\ \A i \in DOMAIN r : ~r[i].hidden
Idle(lf) == \A s \in Sides : Rests(Cores(lf[s]))

\* The inbox is left alone, or its first message, which is for side s, is taken.
From(b, b2, s) == b2 = b \/ (b # <<>> /\ Head(b).to = s /\ b2 = Tail(b))

\* None of the messages is for side s.
Elsewhere(out, s) ==
    \A d \in Seq(Message), hi \in Nat : Window(d \o out, s, hi) = Window(d, s, hi)

\* Carries for one of the two registers.
CarriesSide(g, b, h, b2, out, s) ==
    \A z : \A d \in Seq(Message) :
        Meet(Cores(g), b, z, d, s, Opposite(s)) => Meet(Cores(h), b2, z, d \o out, s, Opposite(s))

\* One side changes, the messages are for the other.
LEMMA CarriesOne ==
    ASSUME NEW lf, NEW b \in Seq(Message), NEW n, NEW b2, NEW out, NEW s \in Sides,
           n[Opposite(s)] = lf[Opposite(s)], From(b, b2, s), Elsewhere(out, s),
           CarriesSide(lf[s], b, n[s], b2, out, s)
    PROVE  Carries(lf, b, n, b2, out)
<1>0. PICK t : t = Opposite(s)
  OBVIOUS
<1>1. t \in Sides /\ t # s /\ Opposite(t) = s /\ Sides = {s, t} /\ n[t] = lf[t]
  BY <1>0 DEF Sides, Opposite
<1>2. ASSUME NEW z, NEW d \in Seq(Message), Meet(Cores(lf[t]), b, z, d, t, s)
      PROVE  Meet(Cores(n[t]), b2, z, d \o out, t, s)
  <2>1. PICK c : c = d \o out
    OBVIOUS
  <2>2. \A hi \in Nat : Window(c, s, hi) = Window(d, s, hi)
    BY <1>2, <2>1 DEF Elsewhere
  <2>3. Meet(Cores(lf[t]), b, z, c, t, s)
    BY <1>2, <2>2, MeetOthers
  <2>4. b # <<>> /\ Head(b).to = s => Meet(Cores(lf[t]), Tail(b), z, c, t, s)
    BY <1>1, <1>2, <2>2, MeetOthers
  <2>5. Meet(Cores(lf[t]), b2, z, c, t, s)
    BY <2>3, <2>4 DEF From
  <2> QED BY <1>1, <2>1, <2>5
<1>3. \A z : \A d \in Seq(Message) :
          Meet(Cores(lf[s]), b, z, d, s, t) => Meet(Cores(n[s]), b2, z, d \o out, s, t)
  BY <1>0 DEF CarriesSide
<1> QED BY <1>0, <1>1, <1>2, <1>3 DEF Carries

\* No register changes and nothing is sent.
LEMMA CarriesNothing ==
    ASSUME NEW lf, NEW b \in Seq(Message), NEW n, \A s \in Sides : Cores(n[s]) = Cores(lf[s])
    PROVE  /\ Carries(lf, b, n, b, <<>>)
           /\ Waiting(lf) => Waiting(n)
           /\ Idle(lf) => Idle(n)
<1>1. \A d \in Seq(Message) : d \o <<>> = d
  OBVIOUS
<1>2. Carries(lf, b, n, b, <<>>)
  BY <1>1 DEF Carries
<1>3. Waiting(lf) => Waiting(n)
  BY DEF Waiting, Sides
<1>4. Idle(lf) => Idle(n)
  BY DEF Idle
<1> QED BY <1>2, <1>3, <1>4

\* A message at the end that is not for s.
LEMMA ElsewhereSent ==
    ASSUME NEW s, NEW m \in Message, m.to # s
    PROVE  Elsewhere(<<m>>, s)
<1>1. ASSUME NEW d \in Seq(Message), NEW hi \in Nat
      PROVE  Window(d \o <<m>>, s, hi) = Window(d, s, hi)
  <2>1. d \o <<m>> = Append(d, m)
    BY <1>1, TwoAppended
  <2>2. Window(Append(d, m), s, hi) = Window(d, s, hi)
    BY <1>1, WindowAppend
  <2> QED BY <2>1, <2>2
<1> QED BY <1>1 DEF Elsewhere

----------------------------------------------------------------------------
(* The operations of the user.                                             *)

\* Object x has been created on side s; c says whether there is a connection.
Created(lf, r, s, x, c) ==
    /\ r.leaf[Opposite(s)] = lf[Opposite(s)] /\ r.ok
    /\ \E e \in Entry :
          /\ r.leaf[s] = Insert(lf[s], e) /\ e.identifier = x /\ ~e.hidden
          /\ e.fsm.skip = 0 /\ e.fsm.mapped = NoId
          /\ c => e.fsm.state = "UNUSED_UNCONFIRMED"
    /\ c => r.out = <<Description(s, NextId(lf[s]), x)>>
    /\ ~c => r.out = <<>>

\* What the creation of an object does.
LEMMA CreateParts ==
    ASSUME NEW lf, NEW k, GoodLeaf(lf, k), NEW s \in Sides, NEW x \in Identifiers,
           NEW B \in SUBSET Members, NEW c \in BOOLEAN, NEW r, r = Create(lf, s, x, B, c)
    PROVE  Created(lf, r, s, x, c)
<1>1. PICK f : f = IF c THEN reset(InitialFsm, FALSE) ELSE Step(InitialFsm, <<>>, <<>>)
  OBVIOUS
<1>2. /\ f.fsm \in Fsm /\ f.fsm.skip = 0 /\ f.fsm.mapped = NoId
      /\ c => f.fsm.state = "UNUSED_UNCONFIRMED" /\ f.out = <<Out("Description", NoId)>>
      /\ ~c => f.out = <<>>
  <2>1. CASE c
    <3>1. f = Step(To(InitialFsm, "UNUSED_UNCONFIRMED"), <<Out("Description", NoId)>>, <<>>)
      BY <1>1, <2>1, Zenon DEF reset
    <3>2. f.fsm = To(InitialFsm, "UNUSED_UNCONFIRMED") /\ f.out = <<Out("Description", NoId)>>
      BY <3>1 DEF Step
    <3>3. f.fsm.skip = 0 /\ f.fsm.mapped = NoId /\ f.fsm.state = "UNUSED_UNCONFIRMED"
             /\ f.fsm \in Fsm
      BY <3>2 DEF To, InitialFsm, Fsm, States, NoId
    <3> QED BY <2>1, <3>2, <3>3
  <2>2. CASE ~c
    <3>1. f.fsm = InitialFsm /\ f.out = <<>>
      BY <1>1, <2>2 DEF Step
    <3> QED BY <2>2, <3>1 DEF InitialFsm, Fsm, States, NoId
  <2> QED BY <2>1, <2>2
<1>3. PICK e : e = [NewEntry(x, B) EXCEPT !.fsm = f.fsm]
  OBVIOUS
<1>4. e = [identifier |-> x, hidden |-> FALSE, fsm |-> f.fsm, established |-> FALSE,
           bindings |-> B, published |-> {}, sent |-> NoData]
  BY <1>3 DEF NewEntry
<1>5. e \in Entry /\ e.identifier = x /\ ~e.hidden /\ e.fsm = f.fsm
  BY <1>2, <1>4 DEF Entry, NoData
<1>6. PICK R, id : R = Insert(lf[s], e) /\ id = NextId(lf[s])
  OBVIOUS
<1>7. PICK N, M : N = [lf EXCEPT ![s] = R] /\ M = Messages(s, id, e, f.out)
  OBVIOUS
<1>8. PICK y \in BOOLEAN : y = TRUE
  OBVIOUS
<1>9. r = Result(N, M, y)
  <2>1. r = Result([lf EXCEPT ![s] = Insert(lf[s], e)], Messages(s, NextId(lf[s]), e, f.out), TRUE)
    BY <1>1, <1>3, Zenon DEF Create
  <2> QED BY <1>6, <1>7, <1>8, <2>1, Zenon
<1>10. r.leaf = N /\ r.out = M /\ r.ok
  <2>1. Result(N, M, y).leaf = N /\ Result(N, M, y).out = M /\ Result(N, M, y).ok = y
    BY ResultParts
  <2> QED BY <1>8, <1>9, <2>1, Zenon
<1>11. N[s] = R /\ N[Opposite(s)] = lf[Opposite(s)]
  <2>1. DOMAIN lf = {"Terminal", "Binding", "ops"}
    BY DEF GoodLeaf, SoundLeaf
  <2>2. Opposite(s) \in Sides /\ Opposite(s) # s /\ s # "ops" /\ Opposite(s) # "ops"
    BY SidesFacts
  <2> QED BY <1>7, <2>1, <2>2 DEF Sides
<1>12. c => M = <<Description(s, id, x)>>
  <2> SUFFICES ASSUME c PROVE M = <<Description(s, id, x)>>
    OBVIOUS
  <2>1. PICK o : o = Out("Description", NoId)
    OBVIOUS
  <2>2. o.type = "Description" /\ f.out = <<o>>
    BY <1>2, <2>1 DEF Out
  <2>3. M = [i \in 1..1 |-> Description(s, id, e.identifier)]
    BY <1>7, <2>2 DEF Messages
  <2> QED BY <1>5, <2>3
<1>13. ~c => M = <<>>
  BY <1>2, <1>7 DEF Messages
<1> QED BY <1>2, <1>5, <1>6, <1>10, <1>11, <1>12, <1>13 DEF Created

\* Element i of r2 is e, the others are those of r.
Inserted(r, r2, i, e) ==
    /\ i \in Nat \ {NoId} /\ i \notin DOMAIN r /\ DOMAIN r2 = DOMAIN r \cup {i}
    /\ \A j \in DOMAIN r : r2[j] = r[j]
    /\ r2[i].identifier = e.identifier /\ ~r2[i].hidden /\ r2[i].fsm = e.fsm

\* What it does to the register.
LEMMA CreateCores ==
    ASSUME NEW g, Sound(g), NEW e \in Entry, ~e.hidden, NEW h, h = Insert(g, e), NEW i,
           i = NextId(g)
    PROVE  Inserted(Cores(g), Cores(h), i, e)
<1>1. i \in Nat \ {NoId} /\ i \notin DOMAIN g.elem
  BY NextIdFresh DEF NoId
<1>2. /\ DOMAIN h.elem = DOMAIN g.elem \cup {i} /\ h.elem[i] = e
      /\ \A j \in DOMAIN g.elem : h.elem[j] = g.elem[j]
  BY InsertSound
<1>3. DOMAIN Cores(h) = DOMAIN h.elem /\ DOMAIN Cores(g) = DOMAIN g.elem
  BY CoresParts
<1>4. ASSUME NEW j \in DOMAIN Cores(g)
      PROVE  Cores(h)[j] = Cores(g)[j]
  <2>1. j \in DOMAIN h.elem /\ j \in DOMAIN g.elem /\ h.elem[j] = g.elem[j]
    BY <1>2, <1>3, <1>4
  <2>2. Cores(h)[j] = Core(h.elem[j]) /\ Cores(g)[j] = Core(g.elem[j])
    BY <2>1, CoresParts
  <2> QED BY <2>1, <2>2
<1>5. /\ Cores(h)[i].identifier = e.identifier /\ Cores(h)[i].fsm = e.fsm
      /\ Cores(h)[i].hidden = e.hidden
  BY <1>2, CoresParts
<1> QED BY <1>1, <1>2, <1>3, <1>4, <1>5 DEF Inserted

\* Nobody is visible with the identifier.
LEMMA NobodyVisible ==
    ASSUME NEW g, NEW x, Visible(g, x) = {}
    PROVE  Nobody(Cores(g), x)
<1>1. \A i \in DOMAIN g.elem : g.elem[i].identifier = x => g.elem[i].hidden
  BY DEF Visible
<1> QED BY <1>1, CoresParts, ZenonT(30) DEF Nobody

\* An object is created while the connection lives.
LEMMA CreateCarries ==
    ASSUME NEW lf, NEW k, GoodLeaf(lf, k), NEW b \in Seq(Message), NEW s \in Sides,
           NEW x \in Identifiers, Visible(lf[s], x) = {},
           NEW c \in BOOLEAN, c, NEW r, Created(lf, r, s, x, c)
    PROVE  /\ Carries(lf, b, r.leaf, b, r.out) /\ r.ok
           /\ Waiting(lf) => Waiting(r.leaf)
<1>1. PICK t : t = Opposite(s)
  OBVIOUS
<1>2. PICK g, i, n : g = lf[s] /\ i = NextId(lf[s]) /\ n = Description(s, i, x)
  OBVIOUS
<1>3. /\ r.leaf[t] = lf[t] /\ r.ok /\ r.out = <<n>>
  BY <1>1, <1>2 DEF Created
<1>4. PICK e \in Entry : /\ r.leaf[s] = Insert(g, e) /\ e.identifier = x /\ ~e.hidden
                         /\ e.fsm.skip = 0 /\ e.fsm.mapped = NoId
                         /\ e.fsm.state = "UNUSED_UNCONFIRMED"
  BY <1>2 DEF Created
<1>5. Sound(g)
  BY <1>2, SideOf
<1>6. PICK h : h = r.leaf[s]
  OBVIOUS
<1>7. /\ i \in Nat \ {NoId} /\ i \notin DOMAIN Cores(g)
      /\ DOMAIN Cores(h) = DOMAIN Cores(g) \cup {i}
      /\ \A j \in DOMAIN Cores(g) : Cores(h)[j] = Cores(g)[j]
      /\ Cores(h)[i].identifier = e.identifier /\ ~Cores(h)[i].hidden
      /\ Cores(h)[i].fsm = e.fsm
  <2>1. h = Insert(g, e) /\ ~e.hidden /\ i = NextId(g)
    BY <1>2, <1>4, <1>6
  <2>2. Inserted(Cores(g), Cores(h), i, e)
    BY <1>4, <1>5, <2>1, CreateCores
  <2> QED BY <2>2 DEF Inserted
<1>8. Appears(Cores(g), Cores(h), i, x)
  BY <1>4, <1>7 DEF Appears
<1>9. Nobody(Cores(g), x)
  BY <1>2, NobodyVisible
<1>10. n \in Message /\ n.to = t /\ t # s
  <2>1. t \in Sides /\ t # s
    BY <1>1, SidesFacts
  <2>2. i \in Nat
    BY <1>7
  <2> QED BY <1>1, <1>2, <2>1, <2>2 DEF Description, Message
<1>11. Elsewhere(<<n>>, s)
  BY <1>10, ElsewhereSent
<1>12. ASSUME NEW z, NEW d \in Seq(Message), Meet(Cores(g), b, z, d, s, t)
       PROVE  Meet(Cores(h), b, z, d \o <<n>>, s, t)
  <2>1. d \o <<n>> = Append(d, n)
    BY <1>10, <1>12, TwoAppended
  <2>2. PICK d2 : d2 = Append(d, n)
    OBVIOUS
  <2>3. Meet(Cores(h), b, z, d2, s, t)
    BY <1>1, <1>2, <1>7, <1>8, <1>9, <1>12, <2>2, MeetCreate
  <2> QED BY <2>1, <2>2, <2>3
<1>13. Carries(lf, b, r.leaf, b, r.out)
  <2>1. CarriesSide(lf[s], b, r.leaf[s], b, r.out, s)
    BY <1>1, <1>2, <1>3, <1>6, <1>12 DEF CarriesSide
  <2>2. Elsewhere(r.out, s) /\ From(b, b, s) /\ r.leaf[Opposite(s)] = lf[Opposite(s)]
    BY <1>1, <1>3, <1>11 DEF From
  <2> QED BY <2>1, <2>2, CarriesOne
<1>14. Waiting(lf) => Waiting(r.leaf)
  <2>1. CASE s = "Binding"
    <3>1. Waits(Cores(g)) => Waits(Cores(h))
      BY <1>8 DEF Waits, Appears, Unconfirmed
    <3> QED BY <1>2, <1>6, <2>1, <3>1 DEF Waiting
  <2>2. CASE s = "Terminal"
    <3>1. r.leaf["Binding"] = lf["Binding"]
      BY <1>1, <1>3, <2>2 DEF Opposite
    <3> QED BY <3>1 DEF Waiting
  <2> QED BY <2>1, <2>2 DEF Sides
<1> QED BY <1>3, <1>13, <1>14

\* It is created without a connection.
LEMMA CreateIdle ==
    ASSUME NEW lf, NEW k, GoodLeaf(lf, k), Idle(lf), NEW s \in Sides,
           NEW x \in Identifiers, Visible(lf[s], x) = {},
           NEW c \in BOOLEAN, ~c, NEW r, Created(lf, r, s, x, c)
    PROVE  Idle(r.leaf) /\ r.ok /\ r.out = <<>>
<1>1. PICK t : t = Opposite(s)
  OBVIOUS
<1>2. PICK g, i : g = lf[s] /\ i = NextId(lf[s])
  OBVIOUS
<1>3. /\ r.leaf[t] = lf[t] /\ r.ok /\ r.out = <<>>
  BY <1>1, <1>2 DEF Created
<1>4. PICK e \in Entry : r.leaf[s] = Insert(g, e) /\ e.identifier = x /\ ~e.hidden
  BY <1>2 DEF Created
<1>5. Sound(g)
  BY <1>2, SideOf
<1>6. PICK h : h = r.leaf[s]
  OBVIOUS
<1>7. /\ i \in Nat \ {NoId} /\ i \notin DOMAIN Cores(g)
      /\ DOMAIN Cores(h) = DOMAIN Cores(g) \cup {i}
      /\ \A j \in DOMAIN Cores(g) : Cores(h)[j] = Cores(g)[j]
      /\ Cores(h)[i].identifier = e.identifier /\ ~Cores(h)[i].hidden
  <2>1. h = Insert(g, e) /\ ~e.hidden /\ i = NextId(g)
    BY <1>2, <1>4, <1>6
  <2>2. Inserted(Cores(g), Cores(h), i, e)
    BY <1>4, <1>5, <2>1, CreateCores
  <2> QED BY <2>2 DEF Inserted
<1>8. Nobody(Cores(g), x) /\ Rests(Cores(g))
  BY <1>2, NobodyVisible DEF Idle
<1>9. Rests(Cores(h))
  BY <1>4, <1>7, <1>8 DEF Rests, OneVisible, Nobody
<1>10. t \in Sides /\ t # s /\ Sides = {s, t}
  BY <1>1 DEF Sides, Opposite
<1> QED BY <1>3, <1>6, <1>9, <1>10 DEF Idle

\* Nothing changes for the machines.
Unmoved(lf, r) == (\A s \in Sides : Cores(r.leaf[s]) = Cores(lf[s])) /\ r.out = <<>> /\ r.ok

\* Side s of lf is replaced by R.
Replaced(lf, N, s, R) == N = [lf EXCEPT ![s] = R] \/ N = [lf EXCEPT ![s] = R, !.ops = lf.ops]

\* One side of a Leaf is replaced by one with the same machines.
LEMMA SideUnmoved ==
    ASSUME NEW lf, NEW k, GoodLeaf(lf, k), NEW s \in Sides, NEW R, Cores(R) = Cores(lf[s]),
           NEW N, Replaced(lf, N, s, R),
           NEW r, NEW o, NEW y, r.leaf = N /\ r.out = o /\ r.ok = y, y, o = <<>>
    PROVE  Unmoved(lf, r)
<1>2. N[s] = R /\ N[Opposite(s)] = lf[Opposite(s)]
  <2>1. DOMAIN lf = {"Terminal", "Binding", "ops"}
    BY DEF GoodLeaf, SoundLeaf
  <2>2. Opposite(s) \in Sides /\ Opposite(s) # s /\ s # "ops" /\ Opposite(s) # "ops"
    BY SidesFacts
  <2> QED BY <2>1, <2>2 DEF Sides, Replaced
<1>3. \A u \in Sides : u = s \/ u = Opposite(s)
  BY SidesFacts
<1> QED BY <1>2, <1>3 DEF Unmoved

\* A terminal whose identifier is taken.
LEMMA AmbiguousUnmoved ==
    ASSUME NEW lf, NEW k, GoodLeaf(lf, k), NEW s \in Sides, NEW r, r = CreateAmbiguous(lf, s)
    PROVE  Unmoved(lf, r)
<1>1. PICK R, N, o, y : R = Grow(lf[s]) /\ N = [lf EXCEPT ![s] = R] /\ o = <<>> /\ y = TRUE
  OBVIOUS
<1>2. r = Result(N, o, y)
  BY <1>1, Zenon DEF CreateAmbiguous
<1>3. R.elem = lf[s].elem
  BY <1>1, SideOf, GrowSound
<1>4. Cores(R) = Cores(lf[s])
  BY <1>3 DEF Cores
<1>5. y /\ o = <<>>
  BY <1>1
<1>6. Replaced(lf, N, s, R)
  BY <1>1 DEF Replaced
<1>7. r.leaf = N /\ r.out = o /\ r.ok = y
  <2>1. Result(N, o, y).leaf = N /\ Result(N, o, y).out = o /\ Result(N, o, y).ok = y
    BY ResultParts
  <2> QED BY <1>2, <2>1, Zenon
<1> QED BY <1>4, <1>5, <1>6, <1>7, SideUnmoved

\* An element is replaced by one with the same machine.
LEMMA PutUnmoved ==
    ASSUME NEW g, Sound(g), NEW i \in DOMAIN g.elem, NEW n \in Entry, NEW e, e = g.elem[i],
           n.identifier = e.identifier, n.hidden = e.hidden, n.fsm = e.fsm
    PROVE  Cores(Put(g, i, n)) = Cores(g)
<1>1. PICK h : h = Put(g, i, n)
  OBVIOUS
<1>2. /\ DOMAIN h.elem = DOMAIN g.elem /\ h.elem[i] = n
      /\ \A k \in DOMAIN g.elem \ {i} : h.elem[k] = g.elem[k]
  BY <1>1, PutSound
<1>3. Core(n) = Core(e)
  BY DEF Core
<1>4. \A k \in DOMAIN g.elem : Core(h.elem[k]) = Core(g.elem[k])
  BY <1>2, <1>3
<1>5. Cores(h) = Cores(g)
  BY <1>2, <1>4 DEF Cores
<1> QED BY <1>1, <1>5

\* A binding joins a group.
LEMMA JoinUnmoved ==
    ASSUME NEW lf, NEW k, GoodLeaf(lf, k), NEW x, NEW b \in Members,
           Visible(lf["Binding"], x) # {}, NEW r, r = JoinGroup(lf, x, b)
    PROVE  Unmoved(lf, r)
<1>0. "Binding" \in Sides
  BY DEF Sides
<1>1. Sound(lf["Binding"])
  BY <1>0, SideOf
<1>2. PICK g : g = Grow(lf["Binding"])
  OBVIOUS
<1>3. Sound(g) /\ g.elem = lf["Binding"].elem
  BY <1>1, <1>2, GrowSound
<1>4. PICK id : id = Find(g, x)
  OBVIOUS
<1>5. id \in DOMAIN g.elem
  <2>1. Visible(g, x) # {}
    BY <1>3 DEF Visible
  <2> QED BY <1>4, <2>1, FindUsed
<1>6. PICK e : e = g.elem[id]
  OBVIOUS
<1>7. e \in Entry
  <2>1. g.elem \in [DOMAIN g.elem -> Entry]
    BY <1>3, FiniteDomain
  <2> QED BY <1>5, <1>6, <2>1
<1>8. PICK n : n = [e EXCEPT !.bindings = e.bindings \cup {b},
                             !.published = IF e.established THEN e.published \cup {b}
                                                            ELSE e.published]
  OBVIOUS
<1>9. n.identifier = e.identifier /\ n.hidden = e.hidden /\ n.fsm = e.fsm
  BY <1>7, <1>8 DEF Entry
<1>10. n \in Entry
  BY <1>7, <1>8 DEF Entry
<1>11. PICK R, N, o, y :
         R = Put(g, id, n) /\ N = [lf EXCEPT !["Binding"] = R] /\ o = <<>> /\ y = TRUE
  OBVIOUS
<1>12. Cores(R) = Cores(lf["Binding"])
  <2>1. Cores(R) = Cores(g)
    BY <1>3, <1>5, <1>6, <1>9, <1>10, <1>11, PutUnmoved
  <2>2. Cores(g) = Cores(lf["Binding"])
    BY <1>3 DEF Cores
  <2> QED BY <2>1, <2>2
<1>13. r = Result(N, o, y)
  BY <1>2, <1>4, <1>6, <1>8, <1>11, Zenon DEF JoinGroup
<1>14. y /\ o = <<>>
  BY <1>11
<1>15. Replaced(lf, N, "Binding", R)
  BY <1>11 DEF Replaced
<1>16. r.leaf = N /\ r.out = o /\ r.ok = y
  <2>1. Result(N, o, y).leaf = N /\ Result(N, o, y).out = o /\ Result(N, o, y).ok = y
    BY ResultParts
  <2> QED BY <1>13, <2>1, Zenon
<1> QED BY <1>0, <1>12, <1>14, <1>15, <1>16, SideUnmoved

\* A binding leaves a group that keeps others.
LEMMA LeaveUnmoved ==
    ASSUME NEW lf, NEW k, GoodLeaf(lf, k), NEW id \in DOMAIN lf["Binding"].elem, NEW b \in Members,
           NEW c \in BOOLEAN, NEW r, r = LeaveGroup(lf, id, b, c)
    PROVE  Unmoved(lf, r)
<1>0. "Binding" \in Sides
  BY DEF Sides
<1>1. PICK g : g = lf["Binding"]
  OBVIOUS
<1>2. Sound(g) /\ id \in DOMAIN g.elem
  BY <1>0, <1>1, SideOf
<1>3. PICK e : e = g.elem[id]
  OBVIOUS
<1>4. e \in Entry
  <2>1. g.elem \in [DOMAIN g.elem -> Entry]
    BY <1>2, FiniteDomain
  <2> QED BY <1>2, <1>3, <2>1
<1>5. PICK n : n = [e EXCEPT !.bindings = e.bindings \ {b}, !.published = e.published \ {b}]
  OBVIOUS
<1>6. n.identifier = e.identifier /\ n.hidden = e.hidden /\ n.fsm = e.fsm
  BY <1>4, <1>5 DEF Entry
<1>7. n \in Entry
  BY <1>4, <1>5 DEF Entry
<1>8. PICK R, N, o, y : R = Put(g, id, n) /\ N = [lf EXCEPT !["Binding"] = R, !.ops = lf.ops]
                        /\ o = <<>> /\ y = TRUE
  OBVIOUS
<1>9. Cores(R) = Cores(lf["Binding"])
  BY <1>1, <1>2, <1>3, <1>6, <1>7, <1>8, PutUnmoved
<1>10. r = Result(N, o, y)
  <2>1. Answered(lf, id, b, c) = OpsStep(lf.ops, <<>>, TRUE)
    BY PairAssumption, Zenon DEF Answered
  <2>2. PICK a : a = OpsStep(lf.ops, o, y)
    OBVIOUS
  <2>3. a.ops = lf.ops /\ a.out = o /\ a.ok = y
    BY <2>2 DEF OpsStep
  <2>4. a = Answered(lf, id, b, c)
    BY <1>8, <2>1, <2>2, Zenon
  <2>5. r = Result([lf EXCEPT !["Binding"] = Put(g, id, n), !.ops = a.ops], a.out, a.ok)
    BY <1>1, <1>3, <1>5, <2>4, Zenon DEF LeaveGroup
  <2> QED BY <1>8, <2>3, <2>5, Zenon
<1>11. y /\ o = <<>>
  BY <1>8
<1>12. Replaced(lf, N, "Binding", R)
  BY <1>8 DEF Replaced
<1>13. r.leaf = N /\ r.out = o /\ r.ok = y
  <2>1. Result(N, o, y).leaf = N /\ Result(N, o, y).out = o /\ Result(N, o, y).ok = y
    BY ResultParts
  <2> QED BY <1>10, <2>1, Zenon
<1> QED BY <1>0, <1>9, <1>11, <1>12, <1>13, SideUnmoved

\* Element id of side s has been destroyed: its machine has made step st.
Destroyed(lf, r, s, id, st) ==
    /\ r.leaf[Opposite(s)] = lf[Opposite(s)] /\ (r.ok <=> st.ok)
    /\ r.out = Messages(s, id, lf[s].elem[id], st.out)
    /\ Gone(Cores(lf[s]), Cores(r.leaf[s]), id, st)

\* The destroyed element is hidden or erased.
LEMMA GoneCores ==
    ASSUME NEW g, Sound(g), NEW id \in DOMAIN g.elem, NEW e, e = g.elem[id],
           NEW st, st.fsm \in Fsm, st.alive \in BOOLEAN,
           NEW n, n = [[e EXCEPT !.bindings = {}, !.published = {}] EXCEPT !.fsm = st.fsm],
           NEW R, R = IF st.alive THEN Hide(Put(g, id, n), id) ELSE Erase(Put(g, id, n), id)
    PROVE  Gone(Cores(g), Cores(R), id, st)
<1>1. e \in Entry
  <2>1. g.elem \in [DOMAIN g.elem -> Entry]
    BY FiniteDomain
  <2> QED BY <2>1
<1>2. n \in Entry /\ n.identifier = e.identifier /\ n.fsm = st.fsm /\ n.hidden = e.hidden
  BY <1>1 DEF Entry
<1>3. CASE st.alive
  <2>1. PICK h : h = [n EXCEPT !.hidden = TRUE]
    OBVIOUS
  <2>2. h \in Entry /\ h.hidden = TRUE /\ h.identifier = e.identifier /\ h.fsm = st.fsm
    BY <1>2, <2>1 DEF Entry
  <2>3. R = Put(g, id, h)
    BY <1>2, <1>3, <2>1, HideIsPut
  <2>4. Hides(Cores(g), Cores(Put(g, id, h)), id, h.fsm)
    BY <2>2, CoresPut
  <2> QED BY <1>3, <2>2, <2>3, <2>4 DEF Gone
<1>4. CASE ~st.alive
  <2>1. PICK P : P = Put(g, id, n)
    OBVIOUS
  <2>2. Sound(P) /\ DOMAIN P.elem = DOMAIN g.elem
    BY <1>2, <2>1, PutSound
  <2>3. Becomes(Cores(g), Cores(P), id, n.fsm)
    BY <1>2, <2>1, CoresPut
  <2>4. Erases(Cores(P), Cores(Erase(P, id)), id)
    BY <2>2, CoresErase
  <2>5. R = Erase(P, id)
    BY <1>4, <2>1
  <2>6. Erases(Cores(g), Cores(R), id)
    BY <2>3, <2>4, <2>5 DEF Becomes, Erases
  <2> QED BY <1>4, <2>6 DEF Gone
<1> QED BY <1>3, <1>4

\* What the destruction of an object does.
LEMMA DestroyParts ==
    ASSUME NEW lf, NEW k, GoodLeaf(lf, k), NEW s \in Sides, NEW id \in DOMAIN lf[s].elem,
           NEW c \in BOOLEAN, NEW r, r = Destroy(lf, s, id, c),
           NEW e, e = lf[s].elem[id],
           NEW st, st = IF c THEN process_object_destroyed(e.fsm) ELSE Dead(e.fsm)
    PROVE  Destroyed(lf, r, s, id, st)
<1>1. Sound(lf[s]) /\ id \in Nat /\ e \in Entry
  BY SideOf
<1>2. st \in FsmSteps
  <2>1. e.fsm \in Fsm
    BY <1>1 DEF Entry
  <2> QED BY <2>1, DestroyedSteps, StepEnds DEF Legal
<1>3. /\ st.fsm \in Fsm /\ st.out \in Seq(Outs) /\ st.alive \in BOOLEAN /\ st.ok \in BOOLEAN
  BY <1>2 DEF FsmSteps
<1>4. PICK n : n = [[e EXCEPT !.bindings = {}, !.published = {}] EXCEPT !.fsm = st.fsm]
  OBVIOUS
<1>5. PICK R : R = IF st.alive THEN Hide(Put(lf[s], id, n), id) ELSE Erase(Put(lf[s], id, n), id)
  BY Zenon
<1>6. Gone(Cores(lf[s]), Cores(R), id, st)
  BY <1>1, <1>3, <1>4, <1>5, GoneCores
<1>7. PICK N, M : N = [lf EXCEPT ![s] = R, !.ops = lf.ops] /\ M = Messages(s, id, e, st.out)
  OBVIOUS
<1>8. M \in Seq(Message)
  BY <1>1, <1>3, <1>7, MessagesType DEF Entry
<1>9. <<>> \o M = M
  BY <1>8
<1>10. PICK y \in BOOLEAN, o \in {<<>>} : y = TRUE /\ o = <<>>
  OBVIOUS
<1>11. PICK a : a = OpsStep(lf.ops, o, y)
  OBVIOUS
<1>12. a.ops = lf.ops /\ a.out = o /\ a.ok = y
  BY <1>11 DEF OpsStep
<1>13. a = CASE s = "Terminal" /\ Scattering -> on_terminal_removed(lf.ops, id)
             [] s = "Binding" -> Answered(lf, id, CHOOSE b \in e.bindings : TRUE, c)
             [] OTHER -> OpsStep(lf.ops, <<>>, TRUE)
  <2>0. a = OpsStep(lf.ops, <<>>, TRUE)
    BY <1>10, <1>11, Zenon
  <2>1. CASE s = "Terminal"
    BY <2>0, <2>1, PairAssumption, Zenon
  <2>2. CASE s = "Binding"
    <3>1. Answered(lf, id, CHOOSE b \in e.bindings : TRUE, c) = OpsStep(lf.ops, <<>>, TRUE)
      BY PairAssumption, Zenon DEF Answered
    <3> QED BY <2>0, <2>2, <3>1, PairAssumption, Zenon
  <2> QED BY <2>1, <2>2, SidesFacts
<1>14. PICK K \in BOOLEAN : K = (a.ok /\ st.ok)
  OBVIOUS
<1>15. r = Result(N, M, K)
  <2>1. r = Result([lf EXCEPT ![s] = R, !.ops = a.ops], a.out \o M, a.ok /\ st.ok)
    BY <1>4, <1>5, <1>7, <1>13, Zenon DEF Destroy
  <2> QED BY <1>7, <1>9, <1>10, <1>12, <1>14, <2>1, Zenon
<1>16. r.leaf = N /\ r.out = M /\ r.ok = K
  <2>1. Result(N, M, K).leaf = N /\ Result(N, M, K).out = M /\ Result(N, M, K).ok = K
    BY ResultParts
  <2> QED BY <1>15, <2>1, Zenon
<1>17. r.ok <=> st.ok
  <2>1. a.ok
    BY <1>10, <1>12
  <2> QED BY <1>14, <1>16, <2>1
<1>18. N[s] = R /\ N[Opposite(s)] = lf[Opposite(s)]
  <2>1. DOMAIN lf = {"Terminal", "Binding", "ops"}
    BY DEF GoodLeaf, SoundLeaf
  <2>2. Opposite(s) \in Sides /\ Opposite(s) # s /\ s # "ops" /\ Opposite(s) # "ops"
    BY SidesFacts
  <2> QED BY <1>7, <2>1, <2>2 DEF Sides
<1> QED BY <1>6, <1>7, <1>16, <1>17, <1>18, Zenon DEF Destroyed

\* What a machine sends is for the other side.
LEMMA MessagesElsewhere ==
    ASSUME NEW s \in Sides, NEW id \in Nat, NEW e, NEW out, Few(out)
    PROVE  Elsewhere(Messages(s, id, e, out), s)
<1>1. ASSUME NEW d \in Seq(Message), NEW hi \in Nat
      PROVE  Window(d \o Messages(s, id, e, out), s, hi) = Window(d, s, hi)
  <2>1. PICK c : Says(d, c, s, id, e, out)
    BY DEF Says
  <2>2. Window(c, s, hi) = Window(d, s, hi)
    BY <1>1, <2>1, SendsWindow
  <2>3. c = d \o Messages(s, id, e, out)
    BY <2>1 DEF Says
  <2> QED BY <2>2, <2>3
<1> QED BY <1>1 DEF Elsewhere

\* A machine that waits for a reply still does when its object is destroyed.
LEMMA StillWaits ==
    ASSUME NEW r, NEW i \in DOMAIN r, NEW f, f = r[i].fsm, f \in Fsm, Waits(r), NEW r2,
           NEW st, st = process_object_destroyed(f), Gone(r, r2, i, st)
    PROVE  Waits(r2)
<1>1. f.state \in {"UNUSED_UNCONFIRMED", "MAPPED_UNCONFIRMED", "AWAIT_CONFIRMATION"}
  BY DEF Waits, Unconfirmed
<1>2. /\ st.alive
      /\ st.fsm.state \in {"UNUSED_UNCONFIRMED", "MAPPED_UNCONFIRMED", "AWAIT_CONFIRMATION"}
  <2>1. CASE f.state = "AWAIT_CONFIRMATION"
    <3>1. st = NeverReached(f)
      BY <2>1 DEF process_object_destroyed
    <3> QED BY <2>1, <3>1 DEF NeverReached
  <2>2. CASE f.state # "AWAIT_CONFIRMATION"
    <3>1. st = Step(To(f, "AWAIT_CONFIRMATION"), <<>>, <<>>)
      BY <1>1, <2>2 DEF process_object_destroyed
    <3> QED BY <3>1 DEF Step, To, Fsm
  <2> QED BY <2>1, <2>2
<1>3. Hides(r, r2, i, st.fsm)
  BY <1>2 DEF Gone
<1>4. Unconfirmed(r2[i])
  BY <1>2, <1>3 DEF Hides, Unconfirmed
<1> QED BY <1>3, <1>4 DEF Hides, Waits

\* An object is destroyed while the connection lives.
LEMMA DestroyCarries ==
    ASSUME NEW lf, NEW k, GoodLeaf(lf, k), NEW b \in Seq(Message), Facing(lf, b), NEW s \in Sides,
           NEW id \in DOMAIN lf[s].elem, ~lf[s].elem[id].hidden,
           NEW f, f = lf[s].elem[id].fsm, NEW st, st = process_object_destroyed(f),
           NEW r, Destroyed(lf, r, s, id, st)
    PROVE  /\ Carries(lf, b, r.leaf, b, r.out) /\ r.ok
           /\ Waiting(lf) => Waiting(r.leaf)
<1>1. PICK t, e : t = Opposite(s) /\ e = lf[s].elem[id]
  OBVIOUS
<1>2. PICK g, h : g = Cores(lf[s]) /\ h = Cores(r.leaf[s])
  OBVIOUS
<1>3. /\ id \in DOMAIN g /\ ~g[id].hidden /\ g[id].fsm = f /\ id \in Nat
  BY <1>2, CoresParts, SideOf
<1>4. f \in Fsm
  <2>1. lf[s].elem[id] \in Entry
    BY SideOf
  <2> QED BY <2>1 DEF Entry
<1>5. Gone(g, h, id, st) /\ r.out = Messages(s, id, e, st.out) /\ r.leaf[t] = lf[t]
         /\ (r.ok <=> st.ok)
  BY <1>1, <1>2 DEF Destroyed
<1>6. ASSUME NEW z, NEW d \in Seq(Message), Meet(g, b, z, d, s, t)
      PROVE  st.ok /\ Meet(h, b, z, d \o r.out, s, t)
  <2>1. PICK d2 : d2 = d \o r.out
    OBVIOUS
  <2>2. Says(d, d2, s, id, e, st.out)
    BY <1>5, <2>1 DEF Says
  <2>3. st = process_object_destroyed(g[id].fsm) /\ g[id].fsm \in Fsm
    BY <1>3, <1>4
  <2>4. st.ok /\ Meet(h, b, z, d2, s, t)
    BY <1>1, <1>3, <1>5, <1>6, <2>2, <2>3, MeetDestroy, ZenonT(30)
  <2> QED BY <2>1, <2>4
<1>7. r.ok
  <2>1. PICK z : \E d \in Seq(Message) : Meet(Cores(lf[s]), b, z, d, s, Opposite(s))
    BY DEF Facing
  <2>2. PICK d \in Seq(Message) : Meet(Cores(lf[s]), b, z, d, s, Opposite(s))
    BY <2>1
  <2>3. st.ok
    BY <1>1, <1>2, <1>6, <2>2
  <2> QED BY <1>5, <2>3
<1>8. Carries(lf, b, r.leaf, b, r.out)
  <2>1. CarriesSide(lf[s], b, r.leaf[s], b, r.out, s)
    BY <1>1, <1>2, <1>6 DEF CarriesSide
  <2>2. Few(st.out)
    BY <1>3, <1>4, MachineFew
  <2>3. Elsewhere(r.out, s)
    BY <1>3, <1>5, <2>2, MessagesElsewhere
  <2>4. From(b, b, s) /\ r.leaf[Opposite(s)] = lf[Opposite(s)]
    BY <1>1, <1>5 DEF From
  <2> QED BY <2>1, <2>3, <2>4, CarriesOne
<1>9. Waiting(lf) => Waiting(r.leaf)
  <2>1. CASE s = "Binding"
    <3>1. Waits(g) => Waits(h)
      BY <1>3, <1>4, <1>5, StillWaits
    <3> QED BY <1>2, <2>1, <3>1 DEF Waiting
  <2>2. CASE s = "Terminal"
    <3>1. r.leaf["Binding"] = lf["Binding"]
      BY <1>1, <1>5, <2>2 DEF Opposite
    <3> QED BY <3>1 DEF Waiting
  <2> QED BY <2>1, <2>2 DEF Sides
<1> QED BY <1>7, <1>8, <1>9

\* It is destroyed without a connection.
LEMMA DestroyIdle ==
    ASSUME NEW lf, Idle(lf), NEW s \in Sides, NEW id, NEW f, NEW st, st = Dead(f),
           NEW r, Destroyed(lf, r, s, id, st), id \in Nat
    PROVE  Idle(r.leaf) /\ r.ok /\ r.out = <<>>
<1>1. ~st.alive /\ st.ok /\ st.out = <<>>
  BY DEF Dead
<1>2. r.ok /\ r.out = <<>> /\ r.leaf[Opposite(s)] = lf[Opposite(s)]
  BY <1>1, MessagesFew DEF Destroyed
<1>3. Erases(Cores(lf[s]), Cores(r.leaf[s]), id)
  BY <1>1 DEF Destroyed, Gone
<1>4. Rests(Cores(r.leaf[s]))
  BY <1>3 DEF Idle, Rests, OneVisible, Erases
<1>5. \A u \in Sides : u = s \/ u = Opposite(s)
  BY SidesFacts
<1> QED BY <1>2, <1>4, <1>5 DEF Idle

----------------------------------------------------------------------------
(* The messages.                                                           *)

\* Message m is the first of b.
First(b, m) == b # <<>> /\ m = Head(b)

\* The machine of element id of side s has made step st.
Evaluated(lf, r, s, id, st) ==
    /\ r.leaf[Opposite(s)] = lf[Opposite(s)] /\ (r.ok <=> st.ok)
    /\ r.out = Messages(s, id, lf[s].elem[id], st.out)
    /\ Moved(Cores(lf[s]), Cores(r.leaf[s]), id, st)

\* So it does when it is evaluated.
LEMMA EvaluateDone ==
    ASSUME NEW lf, NEW k, k = "started", GoodLeaf(lf, k), NEW s \in Sides,
           NEW id \in DOMAIN lf[s].elem, NEW st, Legal(lf[s].elem[id].fsm, st),
           NEW r, r = Evaluate(lf, s, id, st, RemoteIsNode)
    PROVE  Evaluated(lf, r, s, id, st)
BY EvaluateCores DEF Evaluated, Moved

\* A step on a message is one of the machine.
LEMMA MachineStepLegal ==
    ASSUME NEW f \in Fsm, NEW m \in Message
    PROVE  /\ m.type \in {"Mapping", "Noticed", "Removed", "RemovedAck"}
                  => Legal(f, MachineStep(f, m))
           /\ m.type = "Description" => Legal(f, process_rcvd_description(f, m.own))
<1>1. m.type = "Mapping" => Legal(f, MachineStep(f, m))
  BY MappingSteps, MessageParts DEF MachineStep
<1>2. m.type = "Noticed" => Legal(f, MachineStep(f, m))
  BY NoticedSteps DEF MachineStep
<1>3. m.type = "Removed" => Legal(f, MachineStep(f, m))
  BY RemovedSteps DEF MachineStep
<1>4. m.type = "RemovedAck" => Legal(f, MachineStep(f, m))
  BY RemovedAckSteps DEF MachineStep
<1>5. m.type = "Description" => Legal(f, process_rcvd_description(f, m.own))
  BY DescriptionSteps, MessageParts
<1> QED BY <1>1, <1>2, <1>3, <1>4, <1>5

\* The machines of a side.
LEMMA MachinesOf ==
    ASSUME NEW lf, NEW k, GoodLeaf(lf, k), NEW s \in Sides
    PROVE  /\ Machines(Cores(lf[s])) /\ DOMAIN Cores(lf[s]) = DOMAIN lf[s].elem
           /\ \A i \in DOMAIN lf[s].elem : /\ i \in Nat /\ lf[s].elem[i].fsm \in Fsm
                                           /\ Cores(lf[s])[i].fsm = lf[s].elem[i].fsm
                                           /\ Cores(lf[s])[i].hidden = lf[s].elem[i].hidden
                                           /\ Cores(lf[s])[i].identifier = lf[s].elem[i].identifier
<1>1. Sound(lf[s])
  BY SideOf
<1>2. Machines(Cores(lf[s]))
  BY <1>1, CoresTyped DEF Machines
<1>3. \A i \in DOMAIN lf[s].elem : i \in Nat /\ lf[s].elem[i].fsm \in Fsm
  BY SideOf DEF Entry
<1> QED BY <1>2, <1>3, CoresParts

\* Whatever is at the other end, the step of element id, which makes h of g, fits.
Fits(g, b, h, s, id, e, st) ==
    \A z, d2 : \A d \in Seq(Message) :
        Meet(g, b, z, d, s, Opposite(s)) /\ Says(d, d2, s, id, e, st.out)
          => st.ok /\ Meet(h, Tail(b), z, d2, s, Opposite(s))

\* The handling of a message is carried over if it is for every remote end.
LEMMA CarriesStep ==
    ASSUME NEW lf, NEW b \in Seq(Message), NEW m, First(b, m), NEW s \in Sides, s = m.to,
           NEW id \in Nat, NEW st, Few(st.out), NEW r, Evaluated(lf, r, s, id, st),
           Facing(lf, b),
           NEW g, g = Cores(lf[s]), NEW h, h = Cores(r.leaf[s]), NEW e, e = lf[s].elem[id],
           Fits(g, b, h, s, id, e, st)
    PROVE  Carries(lf, b, r.leaf, Tail(b), r.out) /\ r.ok
<1>1. r.out = Messages(s, id, e, st.out) /\ r.leaf[Opposite(s)] = lf[Opposite(s)]
         /\ (r.ok <=> st.ok)
  BY DEF Evaluated
<1>2. ASSUME NEW z, NEW d \in Seq(Message), Meet(g, b, z, d, s, Opposite(s))
      PROVE  st.ok /\ Meet(h, Tail(b), z, d \o r.out, s, Opposite(s))
  <2>1. PICK d2 : d2 = d \o r.out
    OBVIOUS
  <2>2. Says(d, d2, s, id, e, st.out)
    BY <1>1, <2>1 DEF Says
  <2>3. st.ok /\ Meet(h, Tail(b), z, d2, s, Opposite(s))
    BY <1>2, <2>2 DEF Fits
  <2> QED BY <2>1, <2>3
<1>3. r.ok
  <2>1. PICK z : \E d \in Seq(Message) : Meet(Cores(lf[s]), b, z, d, s, Opposite(s))
    BY DEF Facing
  <2>2. PICK d \in Seq(Message) : Meet(Cores(lf[s]), b, z, d, s, Opposite(s))
    BY <2>1
  <2>3. st.ok
    BY <1>2, <2>2
  <2> QED BY <1>1, <2>3
<1>4. CarriesSide(lf[s], b, r.leaf[s], Tail(b), r.out, s)
  BY <1>2 DEF CarriesSide
<1>5. Elsewhere(r.out, s)
  BY <1>1, MessagesElsewhere
<1>6. From(b, Tail(b), s)
  BY Zenon DEF From, First
<1> QED BY <1>1, <1>3, <1>4, <1>5, <1>6, CarriesOne

\* A message to an element.
LEMMA OnElementCarries ==
    ASSUME NEW lf, NEW k, k = "started", GoodLeaf(lf, k), NEW b \in Seq(Message), Facing(lf, b),
           NEW m \in Message, First(b, m),
           m.type \in {"Mapping", "Noticed", "Removed", "RemovedAck"},
           NEW st, st = MachineStep(lf[m.to].elem[m.id].fsm, m),
           NEW r, r = OnElement(lf, m, st, RemoteIsNode)
    PROVE  Carries(lf, b, r.leaf, Tail(b), r.out) /\ r.ok
<1>1. PICK s \in Sides : s = m.to
  BY MessageParts
<1>2. PICK id : id = m.id
  OBVIOUS
<1>3. PICK g : g = Cores(lf[s])
  OBVIOUS
<1>4. Machines(g) /\ DOMAIN g = DOMAIN lf[s].elem
  BY <1>3, MachinesOf
<1>5. b # <<>> /\ m = Head(b)
  BY DEF First
<1>6. id \in DOMAIN lf[s].elem
  <2>1. PICK z : \E d \in Seq(Message) : Meet(Cores(lf[s]), b, z, d, s, Opposite(s))
    BY DEF Facing
  <2>2. PICK d \in Seq(Message) : Meet(g, b, z, d, s, Opposite(s))
    BY <1>3, <2>1, Zenon
  <2>3. m.id \in DOMAIN g
    BY <1>1, <1>4, <1>5, <2>2, MeetElement
  <2> QED BY <1>2, <1>4, <2>3
<1>7. PICK f \in Fsm : f = lf[s].elem[id].fsm /\ f = g[id].fsm /\ id \in Nat
  BY <1>3, <1>6, MachinesOf
<1>8. st = MachineStep(f, m)
  BY <1>1, <1>2, <1>7
<1>9. Legal(f, st) /\ Few(st.out)
  BY <1>7, <1>8, MachineStepLegal, MachineStepFew
<1>10. Evaluated(lf, r, s, id, st)
  <2>1. r = Evaluate(lf, s, id, st, RemoteIsNode)
    BY <1>1, <1>2, <1>6, Zenon DEF OnElement, Used
  <2>2. Legal(lf[s].elem[id].fsm, st)
    BY <1>7, <1>9, Zenon
  <2> QED BY <1>6, <2>1, <2>2, EvaluateDone
<1>11. PICK h, e : h = Cores(r.leaf[s]) /\ e = lf[s].elem[id]
  BY Zenon
<1>12. Moved(g, h, id, st)
  BY <1>3, <1>10, <1>11, Zenon DEF Evaluated
<1>13. ASSUME NEW z, NEW d2, NEW d \in Seq(Message), Meet(g, b, z, d, s, Opposite(s)),
              Says(d, d2, s, id, e, st.out)
       PROVE  st.ok /\ Meet(h, Tail(b), z, d2, s, Opposite(s))
  <2>1. st = MachineStep(g[m.id].fsm, m) /\ Moved(g, h, m.id, st) /\ Says(d, d2, s, m.id, e, st.out)
    BY <1>2, <1>7, <1>8, <1>12, <1>13, Zenon
  <2>2. \A st2, r2, e2, d3 :
           /\ st2 = MachineStep(g[m.id].fsm, m) /\ Moved(g, r2, m.id, st2)
           /\ Says(d, d3, s, m.id, e2, st2.out)
           => st2.ok /\ Meet(r2, Tail(b), z, d3, s, Opposite(s))
    BY <1>1, <1>4, <1>5, <1>13, MeetElement, ZenonT(30)
  <2> QED BY <2>1, <2>2
<1>14. Fits(g, b, h, s, id, e, st)
  BY <1>13, Zenon DEF Fits
<1> QED BY <1>1, <1>3, <1>7, <1>9, <1>10, <1>11, <1>14, CarriesStep, Zenon

\* A description to an end that has no such object.
LEMMA NoticedCarries ==
    ASSUME NEW lf, NEW k, GoodLeaf(lf, k), NEW b \in Seq(Message),
           NEW m \in Message, First(b, m), m.type = "Description",
           NEW s \in Sides, s = m.to, Nobody(Cores(lf[s]), m.identifier),
           NEW n, n = [type |-> "Noticed", to |-> Opposite(s), id |-> m.own],
           NEW r, r.leaf = lf, r.out = <<n>>
    PROVE  Carries(lf, b, r.leaf, Tail(b), r.out)
<1>1. b # <<>> /\ m = Head(b)
  BY DEF First
<1>2. Machines(Cores(lf[s]))
  BY MachinesOf
<1>3. n \in Message /\ n.to # s
  BY MessageParts, SidesFacts DEF Message
<1>4. ASSUME NEW z, NEW d \in Seq(Message), Meet(Cores(lf[s]), b, z, d, s, Opposite(s))
      PROVE  Meet(Cores(lf[s]), Tail(b), z, d \o <<n>>, s, Opposite(s))
  <2>1. d \o <<n>> = Append(d, n)
    BY <1>3, <1>4, TwoAppended
  <2>2. PICK t, d2, c : t = Opposite(s) /\ d2 = Append(d, n) /\ c = Cores(lf[s])
    OBVIOUS
  <2>3. \A nn, dd : /\ nn = [type |-> "Noticed", to |-> t, id |-> m.own] /\ dd = Append(d, nn)
                    /\ Nobody(c, m.identifier)
                    => Meet(c, Tail(b), z, dd, s, t)
    BY <1>1, <1>2, <1>4, <2>2, MeetDescription
  <2>4. Meet(c, Tail(b), z, d2, s, t)
    BY <2>2, <2>3
  <2> QED BY <2>1, <2>2, <2>4
<1>5. CarriesSide(lf[s], b, r.leaf[s], Tail(b), r.out, s)
  BY <1>4 DEF CarriesSide
<1>6. Elsewhere(r.out, s)
  BY <1>3, ElsewhereSent
<1>7. From(b, Tail(b), s) /\ r.leaf[Opposite(s)] = lf[Opposite(s)]
  BY DEF From, First
<1> QED BY <1>5, <1>6, <1>7, CarriesOne

\* A description.
LEMMA OnDescriptionCarries ==
    ASSUME NEW lf, NEW k, k = "started", GoodLeaf(lf, k), NEW b \in Seq(Message), Facing(lf, b),
           NEW m \in Message, First(b, m), m.type = "Description",
           NEW r, r = OnDescription(lf, m, RemoteIsNode)
    PROVE  Carries(lf, b, r.leaf, Tail(b), r.out) /\ r.ok
<1>1. PICK s \in Sides : s = m.to
  BY MessageParts
<1>2. CASE Visible(lf[s], m.identifier) = {}
  <2>1. PICK n : n = [type |-> "Noticed", to |-> Opposite(s), id |-> m.own]
    OBVIOUS
  <2>2. PICK o, y : o = <<n>> /\ y = TRUE
    OBVIOUS
  <2>3. r = Result(lf, o, y)
    BY <1>1, <1>2, <2>1, <2>2, Zenon DEF OnDescription
  <2>4. r.leaf = lf /\ r.out = o /\ r.ok = y
    <3>1. Result(lf, o, y).leaf = lf /\ Result(lf, o, y).out = o /\ Result(lf, o, y).ok = y
      BY ResultParts
    <3> QED BY <2>3, <3>1, Zenon
  <2>5. Nobody(Cores(lf[s]), m.identifier)
    BY <1>2, NobodyVisible
  <2>6. r.out = <<n>> /\ r.ok
    BY <2>2, <2>4
  <2> QED BY <1>1, <2>1, <2>4, <2>5, <2>6, NoticedCarries
<1>3. CASE Visible(lf[s], m.identifier) # {}
  <2>1. PICK id : id = Find(lf[s], m.identifier)
    OBVIOUS
  <2>2. id \in DOMAIN lf[s].elem /\ ~lf[s].elem[id].hidden
           /\ lf[s].elem[id].identifier = m.identifier
    BY <1>3, <2>1 DEF Find, Visible
  <2>3. PICK g : g = Cores(lf[s])
    OBVIOUS
  <2>4. PICK f \in Fsm : f = lf[s].elem[id].fsm /\ f = g[id].fsm /\ id \in Nat
    BY <2>2, <2>3, MachinesOf
  <2>5. /\ Machines(g) /\ id \in DOMAIN g /\ ~g[id].hidden /\ g[id].identifier = m.identifier
    BY <2>2, <2>3, MachinesOf
  <2>6. PICK st : st = process_rcvd_description(f, m.own)
    OBVIOUS
  <2>7. Legal(f, st) /\ Few(st.out)
    BY <2>4, <2>6, MachineStepLegal, MachineFew, MessageParts
  <2>8. Evaluated(lf, r, s, id, st)
    <3>1. r = Evaluate(lf, s, id, st, RemoteIsNode)
      BY <1>1, <1>3, <2>1, <2>4, <2>6, Zenon DEF OnDescription
    <3>2. Legal(lf[s].elem[id].fsm, st)
      BY <2>4, <2>7
    <3> QED BY <2>2, <3>1, <3>2, EvaluateDone
  <2>9. PICK h, e : h = Cores(r.leaf[s]) /\ e = lf[s].elem[id]
    OBVIOUS
  <2>10. Moved(g, h, id, st)
    BY <2>3, <2>8, <2>9 DEF Evaluated
  <2>11. ASSUME NEW z, NEW d2, NEW d \in Seq(Message), Meet(g, b, z, d, s, Opposite(s)),
                Says(d, d2, s, id, e, st.out)
         PROVE  st.ok /\ Meet(h, Tail(b), z, d2, s, Opposite(s))
    <3>1. b # <<>> /\ m = Head(b)
      BY DEF First
    <3>2. \A st2, r2, e2, d3 : \A i \in DOMAIN g :
             /\ ~g[i].hidden /\ g[i].identifier = m.identifier
             /\ st2 = process_rcvd_description(g[i].fsm, m.own) /\ Moved(g, r2, i, st2)
             /\ Says(d, d3, s, i, e2, st2.out)
             => st2.ok /\ Meet(r2, Tail(b), z, d3, s, Opposite(s))
      BY <1>1, <2>5, <2>11, <3>1, MeetDescription, ZenonT(30)
    <3>3. st = process_rcvd_description(g[id].fsm, m.own)
      BY <2>4, <2>6
    <3> QED BY <2>5, <2>10, <2>11, <3>2, <3>3
  <2>12. Fits(g, b, h, s, id, e, st)
    BY <2>11 DEF Fits
  <2> QED BY <1>1, <2>3, <2>4, <2>7, <2>8, <2>9, <2>12, CarriesStep
<1> QED BY <1>2, <1>3

----------------------------------------------------------------------------
(* The connection starts and ends.                                         *)

\* All machines of a register are as new; h says that nothing is described.
Renewed(g, r, h) ==
    /\ DOMAIN r = DOMAIN g
    /\ \A i \in DOMAIN g :
          /\ r[i].identifier = g[i].identifier /\ r[i].hidden = g[i].hidden
          /\ r[i].fsm.skip = 0 /\ r[i].fsm.mapped = NoId
          /\ h => r[i].fsm.state = "UNUSED_CONFIRMED"
          /\ ~h => r[i].fsm.state = "UNUSED_UNCONFIRMED"

\* The machines of one side are reset.
LEMMA ResetCores ==
    ASSUME NEW lf, SoundLeaf(lf), NEW s \in Sides, NEW h \in BOOLEAN,
           NEW n, n = ResetSide(lf, s, h)
    PROVE  Renewed(Cores(lf[s]), Cores(n[s]), h)
<1>1. /\ DOMAIN n[s].elem = DOMAIN lf[s].elem
      /\ \A i \in DOMAIN lf[s].elem : /\ Reset(lf[s].elem[i], n[s].elem[i])
                                      /\ n[s].elem[i].fsm = reset(lf[s].elem[i].fsm, h).fsm
  BY ResetSideSound
<1>2. DOMAIN Cores(n[s]) = DOMAIN n[s].elem /\ DOMAIN Cores(lf[s]) = DOMAIN lf[s].elem
  BY CoresParts
<1>3. ASSUME NEW i \in DOMAIN lf[s].elem
      PROVE  /\ Cores(n[s])[i].identifier = Cores(lf[s])[i].identifier
             /\ Cores(n[s])[i].hidden = Cores(lf[s])[i].hidden
             /\ Cores(n[s])[i].fsm = reset(lf[s].elem[i].fsm, h).fsm
  <2>1. /\ n[s].elem[i].identifier = lf[s].elem[i].identifier
        /\ n[s].elem[i].hidden = lf[s].elem[i].hidden
    BY <1>1, <1>3 DEF Reset, SameObject
  <2>2. /\ Cores(lf[s])[i].identifier = lf[s].elem[i].identifier
        /\ Cores(lf[s])[i].hidden = lf[s].elem[i].hidden
    BY <1>3, CoresParts
  <2>3. i \in DOMAIN n[s].elem
    BY <1>1, <1>3
  <2>4. /\ Cores(n[s])[i].identifier = n[s].elem[i].identifier
        /\ Cores(n[s])[i].hidden = n[s].elem[i].hidden
        /\ Cores(n[s])[i].fsm = n[s].elem[i].fsm
    BY <2>3, CoresParts
  <2>5. n[s].elem[i].fsm = reset(lf[s].elem[i].fsm, h).fsm
    BY <1>1, <1>3
  <2> QED BY <2>1, <2>2, <2>4, <2>5, Zenon
<1>4. ASSUME NEW f
      PROVE  /\ reset(f, h).fsm.skip = 0 /\ reset(f, h).fsm.mapped = NoId
             /\ h => reset(f, h).fsm.state = "UNUSED_CONFIRMED"
             /\ ~h => reset(f, h).fsm.state = "UNUSED_UNCONFIRMED"
  <2>1. CASE h
    <3>1. reset(f, h) = Step(InitialFsm, <<>>, <<>>)
      BY <2>1, Zenon DEF reset
    <3>2. reset(f, h).fsm = InitialFsm
      BY <3>1 DEF Step
    <3>3. InitialFsm.skip = 0 /\ InitialFsm.mapped = NoId /\ InitialFsm.state = "UNUSED_CONFIRMED"
      BY DEF InitialFsm
    <3> QED BY <2>1, <3>2, <3>3, Zenon
  <2>2. CASE ~h
    <3>1. reset(f, h)
              = Step(To(InitialFsm, "UNUSED_UNCONFIRMED"), <<Out("Description", NoId)>>, <<>>)
      BY <2>2, Zenon DEF reset
    <3>2. reset(f, h).fsm = To(InitialFsm, "UNUSED_UNCONFIRMED")
      BY <3>1 DEF Step
    <3> QED BY <2>2, <3>2 DEF InitialFsm, To
  <2> QED BY <2>1, <2>2
<1> QED BY <1>1, <1>2, <1>3, <1>4 DEF Renewed

\* The messages are the descriptions of the elements of g, each once.
Lists(F, g, t) ==
    /\ \A k \in 1..Len(F) : /\ F[k].type = "Description" /\ F[k].to = t /\ F[k].own \in DOMAIN g
                            /\ F[k].identifier = g[F[k].own].identifier
    /\ \A k, n \in 1..Len(F) : F[k].own = F[n].own => k = n
    /\ \A i \in DOMAIN g : \E k \in 1..Len(F) : F[k].own = i

\* The descriptions of the elements of a side.
LEMMA DescriptionsListed ==
    ASSUME NEW lf, SoundLeaf(lf), NEW s \in Sides, NEW h \in BOOLEAN,
           NEW F, F = Descriptions(lf, s, h)
    PROVE  /\ F \in Seq(Message)
           /\ h => F = <<>>
           /\ ~h => Lists(F, Cores(lf[s]), Opposite(s))
<1>1. PICK D : D = DOMAIN lf[s].elem
  OBVIOUS
<1>2. IsFiniteSet(D) /\ D \in SUBSET Nat
  <2>1. Sound(lf[s])
    BY DEF SoundLeaf
  <2>2. IsFiniteSet(D) /\ D \subseteq 1..lf[s].size /\ lf[s].size \in Nat
    BY <1>1, <2>1, FiniteDomain
  <2> QED BY <2>2
<1>3. PICK ids : ids = IF h THEN <<>> ELSE Ascending(D)
  OBVIOUS
<1>4. PICK F2 : F2 = [i \in 1..Len(ids) |-> Description(s, ids[i], lf[s].elem[ids[i]].identifier)]
  OBVIOUS
<1>5. F = F2
  BY <1>1, <1>3, <1>4, Zenon DEF Descriptions
<1>6. F \in Seq(Message)
  BY DescriptionsType
<1>7. ASSUME h PROVE F = <<>>
  <2>1. Len(ids) = 0
    BY <1>3, <1>7
  <2> QED BY <1>4, <1>5, <2>1
<1>8. ASSUME ~h PROVE Lists(F, Cores(lf[s]), Opposite(s))
  <2>1. PICK c \in Nat : c = Cardinality(D)
    BY <1>2, FS_CardinalityType
  <2>2. /\ ids \in [1..c -> D] /\ \A i, j \in 1..c : ids[i] = ids[j] => i = j
        /\ \A id \in D : \E i \in 1..c : ids[i] = id
    BY <1>2, <1>3, <1>8, <2>1, AscendingBijection
  <2>3. Len(ids) = c
    BY <2>1, <2>2, FunctionIsSeq
  <2>4. Len(F) = c /\ \A i \in 1..c : F[i] = Description(s, ids[i], lf[s].elem[ids[i]].identifier)
    BY <1>4, <1>5, <2>1, <2>3
  <2>5. \A i \in 1..c : /\ F[i].type = "Description" /\ F[i].to = Opposite(s) /\ F[i].own = ids[i]
                        /\ F[i].identifier = lf[s].elem[ids[i]].identifier
    BY <2>4 DEF Description
  <2>6. \A i \in 1..c : ids[i] \in D
    BY <2>2
  <2>7. DOMAIN Cores(lf[s]) = D
        /\ \A i \in D : Cores(lf[s])[i].identifier = lf[s].elem[i].identifier
    BY <1>1, CoresParts
  <2>8. \A i \in 1..c : F[i].own \in D /\ F[i].identifier = Cores(lf[s])[F[i].own].identifier
    BY <2>5, <2>6, <2>7
  <2>9. \A i, j \in 1..c : F[i].own = F[j].own => i = j
    BY <2>2, <2>5
  <2>10. \A id \in D : \E i \in 1..c : F[i].own = id
    BY <2>2, <2>5
  <2>11. Len(F) = c
    BY <2>4
  <2> QED BY <2>5, <2>7, <2>8, <2>9, <2>10, <2>11 DEF Lists
<1> QED BY <1>6, <1>7, <1>8

\* An end has started: its elements are new and those that are unconfirmed,
\* which are all of the groups of bindings, are described.
Begins(r) ==
    /\ r.ok /\ Waiting(r.leaf)
    /\ \A s \in Sides : /\ Begun(Cores(r.leaf[s]))
                        /\ DescribedIn(Cores(r.leaf[s]), r.out, Opposite(s))

\* The elements of a register that rested are as new.
LEMMA RenewedBegun ==
    ASSUME NEW g, Sound(g), NEW q, Rests(q), NEW h \in BOOLEAN, Renewed(q, Cores(g), h)
    PROVE  /\ Begun(Cores(g))
           /\ ~h => Waits(Cores(g))
           /\ h => \A i \in DOMAIN Cores(g) : ~Unconfirmed(Cores(g)[i])
<1>1. Typed(Cores(g))
  BY CoresTyped
<1>2. OneVisible(Cores(g)) /\ \A i \in DOMAIN Cores(g) : ~Cores(g)[i].hidden
  BY DEF Rests, Renewed, OneVisible
<1>3. Begun(Cores(g))
  BY <1>1, <1>2 DEF Begun, Renewed
<1> QED BY <1>3 DEF Renewed, Waits, Unconfirmed

\* The end of a connection starts.
LEMMA StartedBegins ==
    ASSUME NEW lf, NEW k, GoodLeaf(lf, k), Idle(lf),
           NEW r, r = on_connection_started(lf, RemoteIsNode)
    PROVE  Begins(r)
<1>0. "Terminal" \in Sides /\ "Binding" \in Sides
      /\ Opposite("Terminal") = "Binding" /\ Opposite("Binding") = "Terminal"
      /\ \A s \in Sides : s = "Terminal" \/ s = "Binding"
  BY DEF Sides, Opposite
<1>1. PICK h \in BOOLEAN, z \in BOOLEAN : h = ~RemoteIsNode /\ z = FALSE
  BY DEF RemoteIsNode
<1>2. h \in BOOLEAN /\ z \in BOOLEAN
  BY <1>1
<1>24. h /\ ~z
  BY <1>1 DEF RemoteIsNode
<1>3. PICK A : A = ResetSide(lf, "Terminal", h)
  OBVIOUS
<1>4. PICK N : N = ResetSide(A, "Binding", z)
  OBVIOUS
<1>5. SoundLeaf(lf) /\ Rests(Cores(lf["Terminal"])) /\ Rests(Cores(lf["Binding"]))
  BY <1>0 DEF GoodLeaf, Idle
<1>6. SoundLeaf(A) /\ A["Binding"] = lf["Binding"]
  BY <1>0, <1>2, <1>3, <1>5, ResetSideSound
<1>7. SoundLeaf(N) /\ N["Terminal"] = A["Terminal"]
  BY <1>0, <1>2, <1>4, <1>6, ResetSideSound
<1>8. Sound(N["Terminal"]) /\ Sound(N["Binding"])
  BY <1>0, <1>7 DEF SoundLeaf
<1>9. Renewed(Cores(lf["Terminal"]), Cores(N["Terminal"]), h)
  <2>1. Renewed(Cores(lf["Terminal"]), Cores(A["Terminal"]), h)
    BY <1>0, <1>2, <1>3, <1>5, ResetCores
  <2> QED BY <1>7, <2>1
<1>10. Renewed(Cores(lf["Binding"]), Cores(N["Binding"]), z)
  <2>1. Renewed(Cores(A["Binding"]), Cores(N["Binding"]), z)
    BY <1>0, <1>2, <1>4, <1>6, ResetCores
  <2> QED BY <1>6, <2>1
<1>11. /\ Begun(Cores(N["Terminal"]))
       /\ \A i \in DOMAIN Cores(N["Terminal"]) : ~Unconfirmed(Cores(N["Terminal"])[i])
  BY <1>2, <1>5, <1>8, <1>9, <1>24, RenewedBegun
<1>12. Begun(Cores(N["Binding"])) /\ Waits(Cores(N["Binding"]))
  BY <1>2, <1>5, <1>8, <1>10, <1>24, RenewedBegun
<1>13. PICK F, G, o : /\ F = Descriptions(lf, "Terminal", h) /\ G = Descriptions(lf, "Binding", z)
                      /\ o = F \o G
  OBVIOUS
<1>14. /\ F = <<>> /\ G \in Seq(Message)
       /\ Lists(G, Cores(lf["Binding"]), "Terminal")
  BY <1>0, <1>2, <1>5, <1>13, <1>24, DescriptionsListed
<1>15. o = G
  BY <1>13, <1>14
<1>16. PICK K \in BOOLEAN :
          K = (\A s \in Sides : \A id \in DOMAIN lf[s].elem : ~lf[s].elem[id].hidden)
  OBVIOUS
<1>17. r = Result(N, o, K)
  BY <1>1, <1>3, <1>4, <1>13, <1>16, Zenon DEF on_connection_started
<1>18. K
  <2>1. \A s \in Sides : \A id \in DOMAIN lf[s].elem : ~lf[s].elem[id].hidden
    BY CoresParts DEF Idle, Rests
  <2> QED BY <1>16, <2>1
<1>19. r.leaf = N /\ r.out = o /\ r.ok = K
  <2>1. Result(N, o, K).leaf = N /\ Result(N, o, K).out = o /\ Result(N, o, K).ok = K
    BY ResultParts
  <2> QED BY <1>17, <2>1, Zenon
<1>20. DescribedIn(Cores(N["Terminal"]), o, "Binding")
  <2>1. \A n \in 1..Len(o) : o[n].to # "Binding"
    BY <1>14, <1>15 DEF Lists
  <2> QED BY <1>11, <2>1 DEF DescribedIn
<1>21. DescribedIn(Cores(N["Binding"]), o, "Terminal")
  BY <1>10, <1>12, <1>14, <1>15 DEF DescribedIn, Lists, Renewed, Waits
<1>22. r.ok /\ Waiting(r.leaf)
  BY <1>12, <1>18, <1>19 DEF Waiting
<1>23. \A s \in Sides : /\ Begun(Cores(r.leaf[s]))
                        /\ DescribedIn(Cores(r.leaf[s]), r.out, Opposite(s))
  BY <1>0, <1>11, <1>12, <1>19, <1>20, <1>21
<1> QED BY <1>22, <1>23 DEF Begins

\* The elements of R are visible ones of g.
Remain(g, R) ==
    \A i \in DOMAIN R.elem : /\ i \in DOMAIN g.elem /\ ~R.elem[i].hidden
                             /\ R.elem[i].identifier = g.elem[i].identifier
                             /\ ~g.elem[i].hidden

\* They rest.
LEMMA RemainRests ==
    ASSUME NEW g, NEW R, OneVisible(Cores(g)), Remain(g, R)
    PROVE  Rests(Cores(R))
<1>1. /\ DOMAIN Cores(R) = DOMAIN R.elem /\ DOMAIN Cores(g) = DOMAIN g.elem
      /\ \A i \in DOMAIN R.elem : /\ Cores(R)[i].hidden = R.elem[i].hidden
                                  /\ Cores(R)[i].identifier = R.elem[i].identifier
      /\ \A i \in DOMAIN g.elem : /\ Cores(g)[i].hidden = g.elem[i].hidden
                                  /\ Cores(g)[i].identifier = g.elem[i].identifier
  BY CoresParts
<1> QED BY <1>1 DEF Rests, OneVisible, Remain

\* The connection is gone.
LEMMA DestroyedIdle ==
    ASSUME NEW lf, NEW k, GoodLeaf(lf, k), \A s \in Sides : OneVisible(Cores(lf[s])),
           NEW r, r = on_connection_destroyed(lf)
    PROVE  Idle(r.leaf) /\ r.ok
<1>0. /\ "Terminal" \in Sides /\ "Binding" \in Sides
      /\ \A s \in Sides : s = "Terminal" \/ s = "Binding"
  BY DEF Sides
<1>1. PICK t, b : t = EraseHidden(lf["Terminal"]) /\ b = EraseHidden(lf["Binding"])
  OBVIOUS
<1>2. /\ Sound(t) /\ t.elem \in [DOMAIN t.elem -> Entry]
      /\ \A i \in DOMAIN t.elem : /\ i \in DOMAIN lf["Terminal"].elem /\ ~t.elem[i].hidden
                                  /\ t.elem[i] = lf["Terminal"].elem[i]
  BY <1>0, <1>1, SideOf, VisibleRest
<1>3. /\ Sound(b) /\ b.elem \in [DOMAIN b.elem -> Entry]
      /\ \A i \in DOMAIN b.elem : /\ i \in DOMAIN lf["Binding"].elem /\ ~b.elem[i].hidden
                                  /\ b.elem[i] = lf["Binding"].elem[i]
  BY <1>0, <1>1, SideOf, VisibleRest
<1>4. PICK T : T = [id \in DOMAIN t.elem |->
                      [t.elem[id] EXCEPT !.fsm = InitialFsm,
                                         !.established = @ /\ ~is_mapped(t.elem[id].fsm)]]
  OBVIOUS
<1>5. \A i \in DOMAIN t.elem : /\ T[i] \in Entry /\ T[i].identifier = t.elem[i].identifier
                               /\ T[i].hidden = t.elem[i].hidden
  <2> SUFFICES ASSUME NEW i \in DOMAIN t.elem
               PROVE  /\ T[i] \in Entry /\ T[i].identifier = t.elem[i].identifier
                      /\ T[i].hidden = t.elem[i].hidden
    OBVIOUS
  <2>1. PICK y \in BOOLEAN : y = (t.elem[i].established /\ ~is_mapped(t.elem[i].fsm))
    OBVIOUS
  <2>2. T[i] = [t.elem[i] EXCEPT !.fsm = InitialFsm, !.established = y]
    BY <1>4, <2>1
  <2>3. t.elem[i] \in Entry /\ InitialFsm \in Fsm /\ y \in BOOLEAN
    BY <1>2, <2>1 DEF InitialFsm, Fsm, States, NoId
  <2> QED BY <2>2, <2>3 DEF Entry
<1>6. PICK B : B = [id \in DOMAIN b.elem |-> update_binding_state(b.elem[id], FALSE)]
  OBVIOUS
<1>7. \A i \in DOMAIN b.elem : /\ B[i] \in Entry /\ B[i].identifier = b.elem[i].identifier
                               /\ B[i].hidden = b.elem[i].hidden
  <2> SUFFICES ASSUME NEW i \in DOMAIN b.elem
               PROVE  /\ B[i] \in Entry /\ B[i].identifier = b.elem[i].identifier
                      /\ B[i].hidden = b.elem[i].hidden
    OBVIOUS
  <2>1. PICK e : e = b.elem[i]
    OBVIOUS
  <2>2. e \in Entry
    BY <1>3, <2>1
  <2>3. B[i] = update_binding_state(e, FALSE)
    BY <1>6, <2>1, Zenon
  <2>4. CASE e.established = FALSE
    <3>1. B[i] = e
      BY <2>3, <2>4, Zenon DEF update_binding_state
    <3> QED BY <2>1, <2>2, <3>1
  <2>5. CASE e.established # FALSE
    <3>1. B[i] = [e EXCEPT !.established = FALSE, !.published = {}]
      BY <2>3, <2>5 DEF update_binding_state
    <3>2. B[i] \in Entry /\ B[i].identifier = e.identifier /\ B[i].hidden = e.hidden
      BY <2>2, <3>1 DEF Entry
    <3> QED BY <2>1, <3>2
  <2> QED BY <2>4, <2>5
<1>8. T \in [DOMAIN t.elem -> Entry] /\ B \in [DOMAIN b.elem -> Entry]
  BY <1>4, <1>5, <1>6, <1>7
<1>9. PICK RT, RB : RT = [t EXCEPT !.elem = T] /\ RB = [b EXCEPT !.elem = B]
  OBVIOUS
<1>10. RT.elem = T /\ RB.elem = B
  BY <1>2, <1>3, <1>8, <1>9, ElemReplaced
<1>11. Remain(lf["Terminal"], RT) /\ Remain(lf["Binding"], RB)
  <2>1. DOMAIN T = DOMAIN t.elem /\ DOMAIN B = DOMAIN b.elem
    BY <1>4, <1>6
  <2>2. Remain(lf["Terminal"], RT)
    BY <1>2, <1>5, <1>10, <2>1 DEF Remain
  <2>3. Remain(lf["Binding"], RB)
    BY <1>3, <1>7, <1>10, <2>1 DEF Remain
  <2> QED BY <2>2, <2>3
<1>12. Rests(Cores(RT)) /\ Rests(Cores(RB))
  BY <1>0, <1>11, RemainRests
<1>13. PICK N : N = [Terminal |-> RT, Binding |-> RB, ops |-> lf.ops]
  OBVIOUS
<1>14. N["Terminal"] = RT /\ N["Binding"] = RB
  BY <1>13
<1>15. Idle(N)
  BY <1>0, <1>12, <1>14 DEF Idle
<1>16. PICK y \in BOOLEAN, o \in {<<>>} : y = TRUE /\ o = <<>>
  OBVIOUS
<1>17. PICK a : a = OpsStep(lf.ops, o, y)
  OBVIOUS
<1>18. a.ops = lf.ops /\ a.ok = y
  BY <1>17 DEF OpsStep
<1>19. OpsLost(lf, t, b) = a
  <2>1. OpsLost(lf, t, b) = OpsStep(lf.ops, <<>>, TRUE)
    BY PairAssumption, Zenon DEF OpsLost
  <2> QED BY <1>16, <1>17, <2>1, Zenon
<1>20. r = Result(N, o, y)
  <2>1. r = Result([Terminal |-> [t EXCEPT !.elem = T], Binding |-> [b EXCEPT !.elem = B],
                    ops |-> a.ops], <<>>, a.ok)
    BY <1>1, <1>4, <1>6, <1>19, Zenon DEF on_connection_destroyed
  <2> QED BY <1>9, <1>13, <1>16, <1>18, <2>1, Zenon
<1>21. r.leaf = N /\ r.ok = y
  <2>1. Result(N, o, y).leaf = N /\ Result(N, o, y).ok = y
    BY ResultParts
  <2> QED BY <1>20, <2>1, Zenon
<1>22. y
  BY <1>16
<1> QED BY <1>15, <1>21, <1>22, Zenon

----------------------------------------------------------------------------
(* The two Leafs.                                                          *)

\* The register of an end that has not started is not there for the other.
Absent == [i \in {} |-> i]

\* What an end may know of the other that has not started: z is its register, d
\* are its messages, none of which is of the other, whose register has side s.
Fresh(z, d, s) == d = <<>> /\ (s = "Terminal" => Waits(z))

\* An end whose connection is c, with register r and inbox b, stands to the other,
\* whose connection is co, with register ro and inbox bo.  When the other is gone
\* the end still has a register and messages to stand to, which nobody has.
Stands(c, r, b, co, ro, bo, s, t) ==
    \E z : \E d \in Seq(Message) :
        /\ Meet(r, b, z, d, s, t)
        /\ co # "none" => z = ro /\ d = bo
        /\ c = "new" => Fresh(z, d, s)
        /\ co = "new" => Fresh(r, b, t)

\* Neither end is the first.
LEMMA StandsSwap ==
    ASSUME NEW c, NEW r, NEW b \in Seq(Message), NEW co, NEW ro, NEW bo, NEW s, NEW t,
           Stands(c, r, b, co, ro, bo, s, t), c # "none", co # "none"
    PROVE  Stands(co, ro, bo, c, r, b, t, s)
<1>1. PICK z : \E d \in Seq(Message) :
                  /\ Meet(r, b, z, d, s, t) /\ (co # "none" => z = ro /\ d = bo)
                  /\ (c = "new" => Fresh(z, d, s)) /\ (co = "new" => Fresh(r, b, t))
  BY DEF Stands
<1>2. /\ Meet(r, b, ro, bo, s, t)
      /\ (c = "new" => Fresh(ro, bo, s)) /\ (co = "new" => Fresh(r, b, t))
  BY <1>1
<1>3. Meet(ro, bo, r, b, t, s)
  BY <1>2, MeetSwap
<1> QED BY <1>2, <1>3 DEF Stands

\* The other end goes.
LEMMA StandsAlone ==
    ASSUME NEW c, NEW r, NEW b, NEW co, NEW ro, NEW bo, NEW s, NEW t,
           Stands(c, r, b, co, ro, bo, s, t), NEW no, no = "none", NEW r2, NEW b2
    PROVE  Stands(c, r, b, no, r2, b2, s, t)
BY DEF Stands

\* Whatever register r with inbox b stands to, r2 with b2 does when out is sent.
Moves(r, b, r2, b2, out, s, t) ==
    \A z : \A d \in Seq(Message) : Meet(r, b, z, d, s, t) => Meet(r2, b2, z, d \o out, s, t)

\* The messages reach the other end if it is there.
Reach(co, bo, bo2, out) == co # "none" => bo2 = bo \o out

\* What an end that has not started knows of this one remains.
StaysFresh(co, r, b, r2, b2, t) == co = "new" /\ Fresh(r, b, t) => Fresh(r2, b2, t)

\* An end that has started moves.
LEMMA StandsMoves ==
    ASSUME NEW c, c = "started", NEW r, NEW b, NEW co, NEW ro, NEW bo, NEW s, NEW t,
           Stands(c, r, b, co, ro, bo, s, t), NEW r2, NEW b2, NEW out \in Seq(Message),
           Moves(r, b, r2, b2, out, s, t), NEW bo2, Reach(co, bo, bo2, out),
           StaysFresh(co, r, b, r2, b2, t)
    PROVE  Stands(c, r2, b2, co, ro, bo2, s, t)
<1>1. PICK z : \E d \in Seq(Message) :
                  /\ Meet(r, b, z, d, s, t) /\ (co # "none" => z = ro /\ d = bo)
                  /\ (co = "new" => Fresh(r, b, t))
  BY DEF Stands
<1>2. PICK d \in Seq(Message) : /\ Meet(r, b, z, d, s, t) /\ (co # "none" => z = ro /\ d = bo)
                                /\ (co = "new" => Fresh(r, b, t))
  BY <1>1
<1>3. PICK d2 \in Seq(Message) : d2 = d \o out
  BY <1>2, ConcatParts
<1>4. Meet(r2, b2, z, d2, s, t)
  BY <1>2, <1>3 DEF Moves
<1>5. co # "none" => z = ro /\ d2 = bo2
  BY <1>2, <1>3 DEF Reach
<1>6. co = "new" => Fresh(r2, b2, t)
  BY <1>2 DEF StaysFresh
<1>7. c # "new"
  OBVIOUS
<1> QED BY <1>3, <1>4, <1>5, <1>6, <1>7 DEF Stands

\* An end starts.
LEMMA StandsStarts ==
    ASSUME NEW c, c = "new", NEW r, DOMAIN r = {}, NEW b, NEW co, NEW ro, NEW bo,
           NEW s \in Sides, NEW t, t = Opposite(s), Stands(c, r, b, co, ro, bo, s, t),
           NEW r2, NEW out \in Seq(Message), Begun(r2), DescribedIn(r2, out, t),
           s = "Binding" => Waits(r2), NEW bo2, Reach(co, bo, bo2, out), NEW c2, c2 = "started"
    PROVE  Stands(c2, r2, b, co, ro, bo2, s, t)
<1>1. PICK z : \E d \in Seq(Message) :
                  /\ Meet(r, b, z, d, s, t) /\ (co # "none" => z = ro /\ d = bo)
                  /\ Fresh(z, d, s) /\ (co = "new" => Fresh(r, b, t))
  BY DEF Stands
<1>2. PICK d \in Seq(Message) : /\ Meet(r, b, z, d, s, t) /\ (co # "none" => z = ro /\ d = bo)
                                /\ Fresh(z, d, s) /\ (co = "new" => Fresh(r, b, t))
  BY <1>1
<1>3. d = <<>> /\ (s = "Terminal" => Waits(z))
  BY <1>2 DEF Fresh
<1>4. Pending(r2, z)
  BY <1>3, SidesFacts DEF Pending, Waits
<1>5. Meet(r2, b, z, out, s, t)
  BY <1>2, <1>3, <1>4, MeetStart
<1>6. <<>> \o out = out
  OBVIOUS
<1>7. co # "none" => z = ro /\ out = bo2
  BY <1>2, <1>3, <1>6 DEF Reach
<1>8. co = "new" => Fresh(r2, b, t)
  BY <1>2, SidesFacts DEF Fresh, Opposite
<1>9. c2 # "new"
  OBVIOUS
<1> QED BY <1>5, <1>7, <1>8, <1>9 DEF Stands

\* Neither end has started.
LEMMA StandsNew ==
    ASSUME NEW c, NEW co, NEW s, NEW t, NEW r, r = Absent, NEW b, b = <<>>
    PROVE  Stands(c, r, b, co, r, b, s, t)
<1>1. DOMAIN r = {}
  BY DEF Absent
<1>2. Meet(r, b, r, b, s, t)
  BY <1>1, MeetNothing
<1>3. Fresh(r, b, s) /\ Fresh(r, b, t)
  BY <1>1 DEF Fresh, Waits
<1>4. b \in Seq(Message)
  OBVIOUS
<1> QED BY <1>2, <1>3, <1>4 DEF Stands

\* The register of side s of Leaf l as the other end has to reckon with it.
Face(l, s) == IF conn[l] = "started" THEN Cores(leaf[l][s]) ELSE Absent

\* How that register stands to the one it maps to.
View(l, s) ==
    Stands(conn[l], Face(l, s), inbox[l], conn[Other(l)], Face(Other(l), Opposite(s)),
           inbox[Other(l)], s, Opposite(s))

Views(l) == conn[l] # "none" => \A s \in Sides : View(l, s)

Rested(l) == conn[l] # "started" => Idle(leaf[l])

\* The inductive invariant.
MInv == IInv /\ ~failed /\ \A l \in Leafs : Rested(l) /\ Views(l)

\* It is enough to look at the end that makes the step.
LEMMA OneEndKeeps ==
    ASSUME MInv, IInv', ~failed', NEW l \in Leafs, NEW o, o = Other(l),
           conn'[o] = conn[o], leaf'[o] = leaf[o], Rested(l)', Views(l)',
           conn'[l] = "none" => inbox'[o] = inbox[o]
    PROVE  MInv'
<1>1. o \in Leafs /\ Other(o) = l /\ \A i \in Leafs : i = l \/ i = o
  BY OtherEnd
<1>2. Rested(o)'
  BY <1>1 DEF MInv, Rested
<1>3. Views(o)'
  <2> SUFFICES ASSUME conn'[o] # "none", NEW s \in Sides PROVE View(o, s)'
    BY DEF Views
  <2>1. CASE conn'[l] = "none"
    <3>1. View(o, s)
      BY <1>1 DEF MInv, Views
    <3>2. Stands(conn[o], Face(o, s), inbox[o], conn[l], Face(l, Opposite(s)), inbox[l], s,
              Opposite(s))
      BY <1>1, <3>1 DEF View
    <3>3. Stands(conn[o], Face(o, s), inbox[o], conn'[l], Face(l, Opposite(s))', inbox'[l], s,
              Opposite(s))
      BY <2>1, <3>2, StandsAlone
    <3>4. Face(o, s)' = Face(o, s) /\ inbox'[o] = inbox[o]
      BY <2>1 DEF Face
    <3> QED BY <1>1, <3>3, <3>4 DEF View
  <2>2. CASE conn'[l] # "none"
    <3>1. PICK t : t = Opposite(s)
      OBVIOUS
    <3>2. t \in Sides /\ Opposite(t) = s
      BY <3>1, SidesFacts
    <3>3. View(l, t)'
      BY <2>2, <3>2 DEF Views
    <3>4. Stands(conn'[l], Face(l, t)', inbox'[l], conn'[o], Face(o, s)', inbox'[o], t, s)
      BY <3>2, <3>3 DEF View
    <3>5. inbox'[l] \in Seq(Message)
      BY DEF IInv
    <3>6. Stands(conn'[o], Face(o, s)', inbox'[o], conn'[l], Face(l, t)', inbox'[l], s, t)
      BY <2>2, <3>4, <3>5, StandsSwap
    <3> QED BY <1>1, <3>1, <3>6 DEF View
  <2> QED BY <2>1, <2>2
<1> QED BY <1>1, <1>2, <1>3 DEF MInv

----------------------------------------------------------------------------
(* The steps.                                                              *)

\* Leaf l makes a step with result r that leaves it the messages b.
Steps(l, r, b) ==
    /\ leaf' = [leaf EXCEPT ![l] = r.leaf]
    /\ inbox'[l] = b /\ inbox'[Other(l)] = inbox[Other(l)] \o Deliverable(Other(l), r.out)
    /\ (failed' <=> failed \/ ~r.ok)

\* An operation of the user, or the handler of a message, has had its effect.
LEMMA StepsOf ==
    ASSUME IInv, NEW l \in Leafs, NEW r
    PROVE  /\ UserStep(l, r) => Steps(l, r, inbox[l]) /\ conn' = conn
           /\ Handled(l, r) => Steps(l, r, Tail(inbox[l])) /\ conn' = conn
<1>1. PICK o : o = Other(l)
  OBVIOUS
<1>2. o \in Leafs /\ o # l
  BY <1>1, OtherEnd
<1>3. DOMAIN inbox = Leafs
  BY DEF IInv
<1>4. ASSUME UserStep(l, r) PROVE Steps(l, r, inbox[l]) /\ conn' = conn
  BY <1>1, <1>2, <1>3, <1>4 DEF UserStep, Steps
<1>5. ASSUME Handled(l, r) PROVE Steps(l, r, Tail(inbox[l])) /\ conn' = conn
  BY <1>1, <1>2, <1>3, <1>5 DEF Handled, Steps
<1> QED BY <1>4, <1>5

\* The messages reach the other end.
LEMMA StepsReach ==
    ASSUME NEW l \in Leafs, NEW r, NEW b, Steps(l, r, b)
    PROVE  Reach(conn[Other(l)], inbox[Other(l)], inbox'[Other(l)], r.out)
BY DEF Steps, Reach, Deliverable

\* An end that has started makes a step.
LEMMA ViewsMove ==
    ASSUME MInv, NEW l \in Leafs, conn[l] = "started", NEW r, NEW b2, Steps(l, r, b2), conn' = conn,
           r.out \in Seq(Message), Carries(leaf[l], inbox[l], r.leaf, b2, r.out),
           conn[Other(l)] = "new" => b2 = inbox[l] /\ (Waiting(leaf[l]) => Waiting(r.leaf))
    PROVE  Views(l)'
<1>1. PICK o : o = Other(l)
  OBVIOUS
<1>2. o \in Leafs /\ o # l
  BY <1>1, OtherEnd
<1>3. /\ leaf'[l] = r.leaf /\ leaf'[o] = leaf[o] /\ inbox'[l] = b2
      /\ Reach(conn[o], inbox[o], inbox'[o], r.out)
  BY <1>1, <1>2, StepsReach DEF Steps, MInv, IInv
<1>4. ASSUME NEW s \in Sides PROVE View(l, s)'
  <2>1. PICK t : t = Opposite(s)
    OBVIOUS
  <2>2. PICK R, N, ro : R = Cores(leaf[l][s]) /\ N = Cores(r.leaf[s]) /\ ro = Face(o, t)
    OBVIOUS
  <2>3. Stands(conn[l], R, inbox[l], conn[o], ro, inbox[o], s, t)
    <3>1. View(l, s)
      BY <1>4 DEF MInv, Views
    <3> QED BY <1>1, <2>1, <2>2, <3>1 DEF View, Face
  <2>4. Moves(R, inbox[l], N, b2, r.out, s, t)
    BY <1>4, <2>1, <2>2 DEF Carries, Moves
  <2>5. StaysFresh(conn[o], R, inbox[l], N, b2, t)
    <3> SUFFICES ASSUME conn[o] = "new", Fresh(R, inbox[l], t)
                 PROVE  Fresh(N, b2, t)
      BY DEF StaysFresh
    <3>1. b2 = inbox[l] /\ (Waiting(leaf[l]) => Waiting(r.leaf))
      BY <1>1
    <3>2. t = "Terminal" => s = "Binding"
      BY <1>4, <2>1 DEF Sides, Opposite
    <3> QED BY <2>2, <3>1, <3>2 DEF Fresh, Waiting
  <2>6. Stands(conn[l], N, b2, conn[o], ro, inbox'[o], s, t)
    BY <1>3, <2>3, <2>4, <2>5, StandsMoves
  <2>7. Face(l, s)' = N /\ Face(o, t)' = ro /\ conn' = conn
    BY <1>3, <2>2 DEF Face
  <2> QED BY <1>1, <1>3, <2>1, <2>6, <2>7 DEF View
<1> QED BY <1>4 DEF Views

\* An end that has not started does not show what it does.
LEMMA ViewsStay ==
    ASSUME MInv, NEW l \in Leafs, conn[l] # "started", NEW r, Steps(l, r, inbox[l]), conn' = conn,
           r.out = <<>>
    PROVE  Views(l)' /\ inbox'[Other(l)] = inbox[Other(l)]
<1>1. PICK o : o = Other(l)
  OBVIOUS
<1>2. o \in Leafs /\ o # l
  BY <1>1, OtherEnd
<1>3. /\ leaf'[o] = leaf[o] /\ inbox'[l] = inbox[l] /\ inbox'[o] = inbox[o]
  <2>1. inbox'[o] = inbox[o] \o <<>> /\ inbox[o] \in Seq(Message)
    BY <1>1, <1>2 DEF Steps, Deliverable, MInv, IInv
  <2> QED BY <1>1, <1>2, <2>1 DEF Steps, MInv, IInv
<1>4. ASSUME NEW s \in Sides, conn[l] # "none" PROVE View(l, s)'
  <2>1. View(l, s)
    BY <1>4 DEF MInv, Views
  <2>2. Face(l, s)' = Face(l, s) /\ Face(o, Opposite(s))' = Face(o, Opposite(s))
    BY <1>3 DEF Face
  <2> QED BY <1>1, <1>3, <2>1, <2>2 DEF View
<1> QED BY <1>1, <1>3, <1>4 DEF Views

\* What an operation of the user does to a Leaf whose connection is k.
UserDone(lf, k, b, r) ==
    /\ r.ok /\ r.out \in Seq(Message)
    /\ k = "started" => Carries(lf, b, r.leaf, b, r.out) /\ (Waiting(lf) => Waiting(r.leaf))
    /\ k # "started" => r.out = <<>> /\ Idle(r.leaf)

\* The user has acted.
LEMMA UserStepMeets ==
    ASSUME MInv, IInv', NEW l \in Leafs, NEW r, UserStep(l, r),
           UserDone(leaf[l], conn[l], inbox[l], r)
    PROVE  MInv'
<1>1. PICK o : o = Other(l)
  OBVIOUS
<1>2. o \in Leafs /\ o # l
  BY <1>1, OtherEnd
<1>3. Steps(l, r, inbox[l]) /\ conn' = conn
  BY StepsOf DEF MInv
<1>4. leaf'[l] = r.leaf /\ leaf'[o] = leaf[o] /\ conn'[o] = conn[o]
  BY <1>2, <1>3 DEF Steps, MInv, IInv
<1>5. ~failed'
  BY <1>3 DEF Steps, UserDone, MInv
<1>6. CASE conn[l] = "started"
  <2>1. Views(l)'
    BY <1>3, <1>6, ViewsMove DEF UserDone
  <2>2. Rested(l)'
    BY <1>3, <1>6 DEF Rested
  <2>3. conn'[l] = "none" => inbox'[o] = inbox[o]
    BY <1>3, <1>6
  <2> QED BY <1>1, <1>4, <1>5, <2>1, <2>2, <2>3, OneEndKeeps
<1>7. CASE conn[l] # "started"
  <2>1. Views(l)' /\ inbox'[o] = inbox[o]
    BY <1>1, <1>3, <1>7, ViewsStay DEF UserDone
  <2>2. Rested(l)'
    BY <1>4, <1>7 DEF Rested, UserDone
  <2> QED BY <1>1, <1>4, <1>5, <2>1, <2>2, OneEndKeeps
<1> QED BY <1>6, <1>7

\* The register of an end that has started stands to something.
LEMMA ViewsFace ==
    ASSUME MInv, NEW l \in Leafs, conn[l] = "started"
    PROVE  Facing(leaf[l], inbox[l])
<1>1. ASSUME NEW s \in Sides
      PROVE  \E z : \E d \in Seq(Message) : Meet(Cores(leaf[l][s]), inbox[l], z, d, s, Opposite(s))
  <2>1. View(l, s)
    BY <1>1 DEF MInv, Views
  <2> QED BY <2>1 DEF View, Stands, Face
<1> QED BY <1>1 DEF Facing

\* What is known of a Leaf before its user acts.
Ready(lf, k, b) ==
    /\ GoodLeaf(lf, k) /\ b \in Seq(Message)
    /\ k = "started" => Facing(lf, b)
    /\ k # "started" => Idle(lf)

\* An object is created.
LEMMA CreateDone ==
    ASSUME NEW lf, NEW k, NEW b, Ready(lf, k, b), NEW s \in Sides, NEW x \in Identifiers,
           Visible(lf[s], x) = {}, NEW B \in SUBSET Members, NEW c \in BOOLEAN,
           c <=> k = "started", NEW r, r = Create(lf, s, x, B, c), r.out \in Seq(Message)
    PROVE  UserDone(lf, k, b, r)
<1>1. GoodLeaf(lf, k) /\ b \in Seq(Message)
  BY DEF Ready
<1>2. Created(lf, r, s, x, c)
  BY <1>1, CreateParts
<1>3. CASE c
  <2>1. Carries(lf, b, r.leaf, b, r.out) /\ r.ok /\ (Waiting(lf) => Waiting(r.leaf))
    BY <1>1, <1>2, <1>3, CreateCarries
  <2> QED BY <1>3, <2>1 DEF UserDone
<1>4. CASE ~c
  <2>1. Idle(lf)
    BY <1>4 DEF Ready
  <2>2. Idle(r.leaf) /\ r.ok /\ r.out = <<>>
    BY <1>1, <1>2, <1>4, <2>1, CreateIdle
  <2> QED BY <1>4, <2>2 DEF UserDone
<1> QED BY <1>3, <1>4

\* Nothing happens that concerns the other end.
LEMMA UnmovedDone ==
    ASSUME NEW lf, NEW k, NEW b, Ready(lf, k, b), NEW r, Unmoved(lf, r)
    PROVE  UserDone(lf, k, b, r)
<1>1. b \in Seq(Message)
  BY DEF Ready
<1>2. (\A s \in Sides : Cores(r.leaf[s]) = Cores(lf[s])) /\ r.out = <<>> /\ r.ok
  BY DEF Unmoved
<1>3. /\ Carries(lf, b, r.leaf, b, <<>>) /\ (Waiting(lf) => Waiting(r.leaf))
      /\ Idle(lf) => Idle(r.leaf)
  BY <1>1, <1>2, CarriesNothing
<1>4. r.out \in Seq(Message)
  BY <1>2
<1> QED BY <1>2, <1>3, <1>4 DEF UserDone, Ready

\* An object is destroyed.
LEMMA DestroyDone ==
    ASSUME NEW lf, NEW k, NEW b, Ready(lf, k, b), NEW s \in Sides, NEW id \in DOMAIN lf[s].elem,
           ~lf[s].elem[id].hidden, NEW c \in BOOLEAN, c <=> k = "started",
           NEW r, r = Destroy(lf, s, id, c), r.out \in Seq(Message)
    PROVE  UserDone(lf, k, b, r)
<1>1. GoodLeaf(lf, k) /\ b \in Seq(Message)
  BY DEF Ready
<1>2. PICK e, f : e = lf[s].elem[id] /\ f = lf[s].elem[id].fsm
  OBVIOUS
<1>3. PICK st : st = IF c THEN process_object_destroyed(e.fsm) ELSE Dead(e.fsm)
  OBVIOUS
<1>4. Destroyed(lf, r, s, id, st)
  BY <1>1, <1>2, <1>3, DestroyParts
<1>5. CASE c
  <2>1. st = process_object_destroyed(f) /\ Facing(lf, b)
    BY <1>2, <1>3, <1>5 DEF Ready
  <2>2. Carries(lf, b, r.leaf, b, r.out) /\ r.ok /\ (Waiting(lf) => Waiting(r.leaf))
    BY <1>1, <1>2, <1>4, <2>1, DestroyCarries
  <2> QED BY <1>5, <2>2 DEF UserDone
<1>6. CASE ~c
  <2>1. st = Dead(f) /\ Idle(lf) /\ id \in Nat
    BY <1>1, <1>2, <1>3, <1>6, SideOf DEF Ready
  <2>2. Idle(r.leaf) /\ r.ok /\ r.out = <<>>
    BY <1>4, <2>1, DestroyIdle
  <2> QED BY <1>6, <2>2 DEF UserDone
<1> QED BY <1>5, <1>6

\* The operations of the user keep the invariant.
LEMMA UserMeets ==
    ASSUME MInv, NEW l \in Leafs, UserNext(l)
    PROVE  MInv'
<1>0. "Terminal" \in Sides /\ "Binding" \in Sides /\ GoodLeaf(leaf[l], conn[l])
  BY DEF Sides, MInv, IInv
<1>1. PICK c \in BOOLEAN : c = (conn[l] = "started")
  OBVIOUS
<1>2. c \in BOOLEAN /\ (c <=> conn[l] = "started")
  BY <1>1
<1>3. IInv'
  BY UserKeeps DEF MInv
<1>4. PICK lf, k, b : lf = leaf[l] /\ k = conn[l] /\ b = inbox[l]
  OBVIOUS
<1>5. Ready(lf, k, b) /\ GoodLeaf(lf, k) /\ (c <=> k = "started")
  <2>1. Rested(l) /\ inbox[l] \in Seq(Message)
    BY DEF MInv, IInv
  <2> QED BY <1>0, <1>2, <1>4, <2>1, ViewsFace DEF Ready, Rested
<1>6. \A r : UserStep(l, r) /\ UserDone(lf, k, b, r) => MInv'
  BY <1>3, <1>4, UserStepMeets
<1>7. ASSUME NEW x \in TerminalNames[l], NewTerminal(l, x)
      PROVE  MInv'
  <2>0. PICK B \in SUBSET Members : B = {}
    OBVIOUS
  <2>1. PICK r : r = Create(lf, "Terminal", x, B, c)
    OBVIOUS
  <2>2. x \in Identifiers /\ Visible(lf["Terminal"], x) = {}
    BY <1>4, <1>7, NamesAssumption DEF NewTerminal
  <2>3. r.out \in Seq(Message)
    BY <1>0, <1>2, <1>5, <2>0, <2>1, <2>2, CreateGood DEF GoodResult
  <2>4. UserStep(l, r)
    BY <1>1, <1>4, <1>7, <2>0, <2>1, Zenon DEF NewTerminal
  <2>5. UserDone(lf, k, b, r)
    BY <1>0, <1>2, <1>5, <2>0, <2>1, <2>2, <2>3, CreateDone
  <2> QED BY <1>6, <2>4, <2>5
<1>8. ASSUME NEW x \in TerminalNames[l], NewTerminalAmbiguous(l, x)
      PROVE  MInv'
  <2>1. PICK r : r = CreateAmbiguous(lf, "Terminal")
    OBVIOUS
  <2>2. Unmoved(lf, r)
    BY <1>0, <1>5, <2>1, AmbiguousUnmoved
  <2>3. UserStep(l, r)
    BY <1>4, <1>8, <2>1, Zenon DEF NewTerminalAmbiguous
  <2> QED BY <1>5, <1>6, <2>2, <2>3, UnmovedDone
<1>9. ASSUME NEW id \in Elements(l, "Terminal"), DestroyTerminal(l, id)
      PROVE  MInv'
  <2>0. id \in DOMAIN lf["Terminal"].elem /\ ~lf["Terminal"].elem[id].hidden
    BY <1>4, <1>9 DEF Elements, DestroyTerminal
  <2>1. PICK r : r = Destroy(lf, "Terminal", id, c)
    OBVIOUS
  <2>2. r.out \in Seq(Message)
    BY <1>0, <1>2, <1>5, <2>0, <2>1, DestroyGood DEF GoodResult
  <2>3. UserStep(l, r)
    BY <1>1, <1>4, <1>9, <2>1, Zenon DEF DestroyTerminal
  <2>4. UserDone(lf, k, b, r)
    BY <1>0, <1>2, <1>5, <2>0, <2>1, <2>2, DestroyDone
  <2> QED BY <1>6, <2>3, <2>4
<1>10. ASSUME NEW x \in BindingNames[l], NEW i \in Members, NewBinding(l, x, i)
       PROVE  MInv'
  <2>0. PICK B \in SUBSET Members : B = {i}
    BY <1>10
  <2>1. PICK r : r = Create(lf, "Binding", x, B, c)
    OBVIOUS
  <2>2. x \in Identifiers /\ Visible(lf["Binding"], x) = {}
    BY <1>4, <1>10, NamesAssumption DEF NewBinding
  <2>3. r.out \in Seq(Message)
    BY <1>0, <1>2, <1>5, <2>0, <2>1, <2>2, CreateGood DEF GoodResult
  <2>4. UserStep(l, r)
    BY <1>1, <1>4, <1>10, <2>0, <2>1, Zenon DEF NewBinding
  <2>5. UserDone(lf, k, b, r)
    BY <1>0, <1>2, <1>5, <2>0, <2>1, <2>2, <2>3, CreateDone
  <2> QED BY <1>6, <2>4, <2>5
<1>11. ASSUME NEW x \in BindingNames[l], NEW i \in Members, NewBindingInGroup(l, x, i)
       PROVE  MInv'
  <2>1. PICK r : r = JoinGroup(lf, x, i)
    OBVIOUS
  <2>2. Visible(lf["Binding"], x) # {} /\ UserStep(l, r)
    BY <1>4, <1>11, <2>1, Zenon DEF NewBindingInGroup
  <2>3. Unmoved(lf, r)
    BY <1>5, <1>11, <2>1, <2>2, JoinUnmoved
  <2> QED BY <1>5, <1>6, <2>2, <2>3, UnmovedDone
<1>12. ASSUME NEW id \in Elements(l, "Binding"), NEW i \in Members, DestroyBinding(l, id, i)
       PROVE  MInv'
  <2>0. id \in DOMAIN lf["Binding"].elem /\ ~lf["Binding"].elem[id].hidden
    <3>1. id \in DOMAIN lf["Binding"].elem /\ i \in lf["Binding"].elem[id].bindings
      BY <1>4, <1>12 DEF Elements, DestroyBinding
    <3> QED BY <1>5, <3>1 DEF GoodLeaf, ShownIn, Proper
  <2>1. PICK d, g : d = Destroy(lf, "Binding", id, c) /\ g = LeaveGroup(lf, id, i, c)
    OBVIOUS
  <2>2. UserDone(lf, k, b, d)
    <3>1. d.out \in Seq(Message)
      BY <1>0, <1>2, <1>5, <2>0, <2>1, DestroyGood DEF GoodResult
    <3> QED BY <1>0, <1>2, <1>5, <2>0, <2>1, <3>1, DestroyDone
  <2>3. UserDone(lf, k, b, g)
    <3>1. Unmoved(lf, g)
      BY <1>2, <1>5, <1>12, <2>0, <2>1, LeaveUnmoved
    <3> QED BY <1>5, <3>1, UnmovedDone
  <2>4. UserStep(l, d) \/ UserStep(l, g)
    <3>1. UserStep(l, IF lf["Binding"].elem[id].bindings = {i}
                        THEN Destroy(lf, "Binding", id, c)
                        ELSE LeaveGroup(lf, id, i, c))
      BY <1>1, <1>4, <1>12, Zenon DEF DestroyBinding
    <3>2. CASE lf["Binding"].elem[id].bindings = {i}
      BY <2>1, <3>1, <3>2, Zenon
    <3>3. CASE lf["Binding"].elem[id].bindings # {i}
      BY <2>1, <3>1, <3>3, Zenon
    <3> QED BY <3>2, <3>3
  <2> QED BY <1>6, <2>2, <2>3, <2>4
<1> QED BY <1>7, <1>8, <1>9, <1>10, <1>11, <1>12, Zenon DEF UserNext

\* The messages keep the invariant.
LEMMA HandledMeets ==
    ASSUME MInv, IInv', NEW l \in Leafs, conn[l] = "started", inbox[l] # <<>>, NEW r, Handled(l, r),
           r.out \in Seq(Message), Carries(leaf[l], inbox[l], r.leaf, Tail(inbox[l]), r.out), r.ok
    PROVE  MInv'
<1>1. PICK o : o = Other(l)
  OBVIOUS
<1>2. o \in Leafs /\ o # l
  BY <1>1, OtherEnd
<1>3. Steps(l, r, Tail(inbox[l])) /\ conn' = conn
  BY StepsOf DEF MInv
<1>4. leaf'[o] = leaf[o] /\ conn'[o] = conn[o] /\ ~failed'
  BY <1>2, <1>3 DEF Steps, MInv, IInv
<1>5. conn[o] # "new"
  <2>1. PICK s \in Sides : View(l, s)
    BY DEF MInv, Views, Sides
  <2> QED BY <1>1, <2>1 DEF View, Stands, Fresh
<1>6. Views(l)'
  BY <1>1, <1>3, <1>5, ViewsMove
<1>7. Rested(l)' /\ (conn'[l] = "none" => inbox'[o] = inbox[o])
  BY <1>3 DEF Rested
<1> QED BY <1>1, <1>4, <1>6, <1>7, OneEndKeeps

\* Each of the handlers.
LEMMA ReceiveMeets ==
    ASSUME MInv, NEW l \in Leafs, Receive(l)
    PROVE  MInv'
<1>1. conn[l] = "started" /\ inbox[l] # <<>>
  BY DEF Receive, Receives, ReceiveDescription, ReceiveMapping, ReceiveNoticed, ReceiveRemoved,
         ReceiveRemovedAck
<1>2. PICK m \in Message : m = Head(inbox[l])
  BY <1>1 DEF MInv, IInv
<1>3. PICK lf, k, b : lf = leaf[l] /\ k = conn[l] /\ b = inbox[l]
  OBVIOUS
<1>4. /\ GoodLeaf(lf, k) /\ k = "started" /\ b \in Seq(Message) /\ First(b, m) /\ Facing(lf, b)
      /\ m \in Message
  BY <1>1, <1>2, <1>3, ViewsFace DEF MInv, IInv, First
<1>5. IInv'
  BY ReceiveKeeps DEF MInv
<1>6. \A r : Handled(l, r) /\ r.out \in Seq(Message) /\ Carries(lf, b, r.leaf, Tail(b), r.out)
         /\ r.ok
               => MInv'
  BY <1>1, <1>3, <1>5, HandledMeets
<1>7. CASE ReceiveDescription(l)
  <2>1. PICK r : r = OnDescription(lf, m, RemoteIsNode)
    OBVIOUS
  <2>2. m.type = "Description" /\ Handled(l, r)
    BY <1>2, <1>3, <1>7, <2>1, Zenon DEF ReceiveDescription, Receives
  <2>3. r.out \in Seq(Message)
    BY <1>4, <2>1, <2>2, OnDescriptionGood DEF GoodResult
  <2>4. Carries(lf, b, r.leaf, Tail(b), r.out) /\ r.ok
    BY <1>4, <2>1, <2>2, OnDescriptionCarries
  <2> QED BY <1>6, <2>2, <2>3, <2>4
<1>8. PICK f : f = lf[m.to].elem[m.id].fsm
  OBVIOUS
<1>9. ASSUME NEW st, st = MachineStep(f, m), NEW r, r = OnElement(lf, m, st, RemoteIsNode),
             m.type \in {"Mapping", "Noticed", "Removed", "RemovedAck"}, Handled(l, r),
             GoodResult(r, k)
      PROVE  MInv'
  <2>1. Carries(lf, b, r.leaf, Tail(b), r.out) /\ r.ok
    BY <1>4, <1>8, <1>9, OnElementCarries
  <2> QED BY <1>6, <1>9, <2>1, Zenon DEF GoodResult
<1>10. /\ m.type = "Mapping" => GoodResult(OnMapping(lf, m, RemoteIsNode), k)
       /\ m.type = "Noticed" => GoodResult(OnNoticed(lf, m, RemoteIsNode), k)
       /\ m.type = "Removed" => GoodResult(OnRemoved(lf, m, RemoteIsNode), k)
       /\ m.type = "RemovedAck" => GoodResult(OnRemovedAck(lf, m, RemoteIsNode), k)
  BY <1>4, OnMessageGood
<1>11. CASE ReceiveMapping(l)
  <2>1. PICK st : st = process_rcvd_mapping(f, m.own)
    OBVIOUS
  <2>2. PICK r : r = OnElement(lf, m, st, RemoteIsNode)
    OBVIOUS
  <2>3. r = OnMapping(lf, m, RemoteIsNode)
    BY <1>8, <2>1, <2>2, Zenon DEF OnMapping
  <2>4. m.type = "Mapping" /\ Handled(l, r)
    BY <1>2, <1>3, <1>11, <2>3, Zenon DEF ReceiveMapping, Receives
  <2>5. st = MachineStep(f, m)
    BY <2>1, <2>4 DEF MachineStep
  <2>6. GoodResult(r, k)
    BY <1>10, <2>3, <2>4, Zenon
  <2> QED BY <1>9, <2>2, <2>4, <2>5, <2>6
<1>12. CASE ReceiveNoticed(l)
  <2>1. PICK st : st = process_rcvd_noticed(f)
    OBVIOUS
  <2>2. PICK r : r = OnElement(lf, m, st, RemoteIsNode)
    OBVIOUS
  <2>3. r = OnNoticed(lf, m, RemoteIsNode)
    BY <1>8, <2>1, <2>2, Zenon DEF OnNoticed
  <2>4. m.type = "Noticed" /\ Handled(l, r)
    BY <1>2, <1>3, <1>12, <2>3, Zenon DEF ReceiveNoticed, Receives
  <2>5. st = MachineStep(f, m)
    BY <2>1, <2>4 DEF MachineStep
  <2>6. GoodResult(r, k)
    BY <1>10, <2>3, <2>4, Zenon
  <2> QED BY <1>9, <2>2, <2>4, <2>5, <2>6
<1>13. CASE ReceiveRemoved(l)
  <2>1. PICK st : st = process_rcvd_removed(f)
    OBVIOUS
  <2>2. PICK r : r = OnElement(lf, m, st, RemoteIsNode)
    OBVIOUS
  <2>3. r = OnRemoved(lf, m, RemoteIsNode)
    BY <1>8, <2>1, <2>2, Zenon DEF OnRemoved
  <2>4. m.type = "Removed" /\ Handled(l, r)
    BY <1>2, <1>3, <1>13, <2>3, Zenon DEF ReceiveRemoved, Receives
  <2>5. st = MachineStep(f, m)
    BY <2>1, <2>4 DEF MachineStep
  <2>6. GoodResult(r, k)
    BY <1>10, <2>3, <2>4, Zenon
  <2> QED BY <1>9, <2>2, <2>4, <2>5, <2>6
<1>14. CASE ReceiveRemovedAck(l)
  <2>1. PICK st : st = process_rcvd_removed_ack(f)
    OBVIOUS
  <2>2. PICK r : r = OnElement(lf, m, st, RemoteIsNode)
    OBVIOUS
  <2>3. r = OnRemovedAck(lf, m, RemoteIsNode)
    BY <1>8, <2>1, <2>2, Zenon DEF OnRemovedAck
  <2>4. m.type = "RemovedAck" /\ Handled(l, r)
    BY <1>2, <1>3, <1>14, <2>3, Zenon DEF ReceiveRemovedAck, Receives
  <2>5. st = MachineStep(f, m)
    BY <2>1, <2>4 DEF MachineStep
  <2>6. GoodResult(r, k)
    BY <1>10, <2>3, <2>4, Zenon
  <2> QED BY <1>9, <2>2, <2>4, <2>5, <2>6
<1> QED BY <1>7, <1>11, <1>12, <1>13, <1>14 DEF Receive

\* An end starts.
LEMMA StartMeets ==
    ASSUME MInv, NEW l \in Leafs, Start(l)
    PROVE  MInv'
<1>1. PICK r : r = on_connection_started(leaf[l], RemoteIsNode)
  OBVIOUS
<1>2. PICK k, kk : k = "new" /\ kk = "started"
  OBVIOUS
<1>3. PICK o : o = Other(l)
  OBVIOUS
<1>4. o \in Leafs /\ o # l /\ IInv /\ IInv'
  BY <1>3, OtherEnd, ConnectionKeeps DEF MInv
<1>5. /\ conn[l] = k /\ conn' = [conn EXCEPT ![l] = kk] /\ leaf' = [leaf EXCEPT ![l] = r.leaf]
      /\ inbox' = [inbox EXCEPT ![o] = @ \o Deliverable(o, r.out)]
      /\ failed' = (failed \/ ~r.ok)
  BY <1>1, <1>2, <1>3, Zenon DEF Start
<1>6. /\ conn'[l] = kk /\ conn'[o] = conn[o] /\ leaf'[l] = r.leaf /\ leaf'[o] = leaf[o]
      /\ inbox'[l] = inbox[l] /\ inbox'[o] = inbox[o] \o Deliverable(o, r.out)
  BY <1>4, <1>5 DEF IInv
<1>7. GoodLeaf(leaf[l], k) /\ Idle(leaf[l])
  BY <1>2, <1>5 DEF MInv, IInv, Rested
<1>8. r.out \in Seq(Message)
  BY <1>1, <1>2, <1>7, StartedGood DEF GoodResult
<1>9. r.ok /\ Waiting(r.leaf)
      /\ \A s \in Sides : /\ Begun(Cores(r.leaf[s]))
                          /\ DescribedIn(Cores(r.leaf[s]), r.out, Opposite(s))
  BY <1>1, <1>7, StartedBegins DEF Begins
<1>10. ~failed'
  BY <1>5, <1>9 DEF MInv
<1>11. Reach(conn[o], inbox[o], inbox'[o], r.out)
  BY <1>6 DEF Reach, Deliverable
<1>12. ASSUME NEW s \in Sides PROVE View(l, s)'
  <2>1. PICK t : t = Opposite(s)
    OBVIOUS
  <2>2. PICK R, N, ro : R = Face(l, s) /\ N = Cores(r.leaf[s]) /\ ro = Face(o, t)
    OBVIOUS
  <2>3. Stands(k, R, inbox[l], conn[o], ro, inbox[o], s, t)
    <3>1. View(l, s)
      BY <1>2, <1>5, <1>12 DEF MInv, Views
    <3> QED BY <1>3, <1>5, <2>1, <2>2, <3>1 DEF View
  <2>4. DOMAIN R = {}
    BY <1>2, <1>5, <2>2 DEF Face, Absent
  <2>5. Begun(N) /\ DescribedIn(N, r.out, t) /\ (s = "Binding" => Waits(N))
    BY <1>9, <1>12, <2>1, <2>2 DEF Waiting
  <2>6. Stands(kk, N, inbox[l], conn[o], ro, inbox'[o], s, t)
    BY <1>2, <1>8, <1>11, <1>12, <2>1, <2>3, <2>4, <2>5, StandsStarts
  <2>7. Face(l, s)' = N /\ Face(o, t)' = ro
    BY <1>2, <1>6, <2>2 DEF Face
  <2> QED BY <1>3, <1>6, <2>1, <2>6, <2>7 DEF View
<1>13. Views(l)'
  BY <1>12 DEF Views
<1>14. Rested(l)' /\ (conn'[l] = "none" => inbox'[o] = inbox[o])
  BY <1>2, <1>6 DEF Rested
<1> QED BY <1>3, <1>4, <1>6, <1>10, <1>13, <1>14, OneEndKeeps

\* An end learns that the connection is gone.
LEMMA DisconnectMeets ==
    ASSUME MInv, NEW l \in Leafs, Disconnect(l)
    PROVE  MInv'
<1>1. PICK r : r = IF conn[l] = "started" THEN on_connection_destroyed(leaf[l])
                                          ELSE Result(leaf[l], <<>>, TRUE)
  OBVIOUS
<1>2. PICK kk : kk = "none"
  OBVIOUS
<1>3. PICK o : o = Other(l)
  OBVIOUS
<1>4. o \in Leafs /\ o # l /\ IInv /\ IInv'
  BY <1>3, OtherEnd, ConnectionKeeps DEF MInv
<1>5. /\ conn' = [conn EXCEPT ![l] = kk] /\ leaf' = [leaf EXCEPT ![l] = r.leaf]
      /\ inbox' = [inbox EXCEPT ![l] = <<>>] /\ failed' = (failed \/ ~r.ok)
  BY <1>1, <1>2, Zenon DEF Disconnect
<1>6. /\ conn'[l] = kk /\ conn'[o] = conn[o] /\ leaf'[l] = r.leaf /\ leaf'[o] = leaf[o]
      /\ inbox'[o] = inbox[o]
  BY <1>4, <1>5 DEF IInv
<1>7. Idle(r.leaf) /\ r.ok
  <2>1. CASE conn[l] = "started"
    <3>1. \A s \in Sides : OneVisible(Cores(leaf[l][s]))
      BY <2>1, ViewsFace DEF Facing, Meet, Pair, End
    <3>2. r = on_connection_destroyed(leaf[l])
      BY <1>1, <2>1, Zenon
    <3>3. GoodLeaf(leaf[l], conn[l])
      BY <1>4 DEF IInv
    <3> QED BY <3>1, <3>2, <3>3, DestroyedIdle
  <2>2. CASE conn[l] # "started"
    <3>1. r = Result(leaf[l], <<>>, TRUE)
      BY <1>1, <2>2, Zenon
    <3>2. r.leaf = leaf[l] /\ r.ok
      BY <3>1 DEF Result
    <3>3. Idle(leaf[l])
      BY <2>2 DEF MInv, Rested
    <3> QED BY <3>2, <3>3
  <2> QED BY <2>1, <2>2
<1>8. ~failed'
  BY <1>5, <1>7 DEF MInv
<1>9. Views(l)' /\ Rested(l)'
  BY <1>2, <1>6, <1>7 DEF Views, Rested
<1> QED BY <1>3, <1>4, <1>6, <1>8, <1>9, OneEndKeeps

\* The two ends are connected.
LEMMA ConnectMeets ==
    ASSUME MInv, Connect
    PROVE  MInv'
<1>1. /\ leaf' = leaf /\ failed' = failed
      /\ \A l \in Leafs : conn[l] = "none" /\ conn'[l] = "new" /\ inbox'[l] = <<>>
  BY DEF Connect
<1>2. IInv'
  BY ConnectionKeeps DEF MInv
<1>3. ASSUME NEW l \in Leafs PROVE Rested(l)' /\ Views(l)'
  <2>1. Rested(l)'
    BY <1>1, <1>3 DEF MInv, Rested
  <2>2. PICK o : o = Other(l)
    OBVIOUS
  <2>3. o \in Leafs
    BY <1>3, <2>2, OtherEnd
  <2>4. PICK k, a, b : k = "new" /\ a = Absent /\ b = <<>>
    OBVIOUS
  <2>5. ASSUME NEW s \in Sides PROVE View(l, s)'
    <3>1. Stands(k, a, b, k, a, b, s, Opposite(s))
      BY <2>4, StandsNew
    <3>2. Face(l, s)' = a /\ Face(o, Opposite(s))' = a
      BY <1>1, <1>3, <2>3, <2>4 DEF Face
    <3>3. conn'[l] = k /\ conn'[o] = k /\ inbox'[l] = b /\ inbox'[o] = b
      BY <1>1, <1>3, <2>3, <2>4
    <3> QED BY <2>2, <3>1, <3>2, <3>3 DEF View
  <2> QED BY <2>1, <2>5 DEF Views
<1>4. ~failed'
  BY <1>1 DEF MInv
<1> QED BY <1>2, <1>3, <1>4 DEF MInv

\* The Leafs start empty and unconnected.
LEMMA InitMeets == Init => MInv
<1> SUFFICES ASSUME Init PROVE MInv
  OBVIOUS
<1>1. IInv /\ ~failed
  BY InitKeeps DEF Init
<1>2. \A l \in Leafs : leaf[l] = EmptyLeaf /\ conn[l] = "none"
  BY DEF Init
<1>3. Idle(EmptyLeaf)
  <2>1. EmptyLeaf["Terminal"] = EmptyRegister /\ EmptyLeaf["Binding"] = EmptyRegister
    BY DEF EmptyLeaf
  <2>2. DOMAIN EmptyRegister.elem = {}
    BY DEF EmptyRegister
  <2>3. DOMAIN Cores(EmptyRegister) = {}
    BY <2>2, CoresParts
  <2>4. Rests(Cores(EmptyRegister))
    BY <2>3 DEF Rests, OneVisible
  <2> QED BY <2>1, <2>4 DEF Idle, Sides
<1> QED BY <1>1, <1>2, <1>3 DEF MInv, Rested, Views

\* Each step keeps the invariant.
LEMMA NextMeets == MInv /\ [Next]_vars => MInv'
<1> SUFFICES ASSUME MInv, [Next]_vars PROVE MInv'
  OBVIOUS
<1>1. CASE UNCHANGED vars
  <2>1. leaf' = leaf /\ conn' = conn /\ inbox' = inbox /\ failed' = failed /\ made' = made
    BY <1>1 DEF vars
  <2>2. IInv'
    BY <1>1, NextKeeps DEF MInv
  <2>3. \A l \in Leafs : Rested(l)' /\ Views(l)'
    BY <2>1 DEF MInv, Rested, Views, View, Face
  <2> QED BY <2>1, <2>2, <2>3 DEF MInv
<1>2. CASE Next
  BY <1>2, ConnectMeets, StartMeets, DisconnectMeets, ReceiveMeets, UserMeets, Zenon DEF Next
<1> QED BY <1>1, <1>2

\* The invariant holds of every behaviour.
LEMMA MappingInvariance == Spec => []MInv
BY InitMeets, NextMeets, PTL DEF Spec

----------------------------------------------------------------------------
(* The theorems.                                                           *)

\* No YOGI_ASSERT and no YOGI_NEVER_REACHED of MappedObjectFsm and LeafLogicBaseT
\* is reached with its condition false, however the two ends create and destroy
\* their terminals and bindings, connect, disconnect and receive.
THEOREM AssertionsHold == Spec => []NoAssertionFails
<1>1. MInv => NoAssertionFails
  BY DEF MInv, NoAssertionFails
<1> QED BY <1>1, MappingInvariance, PTL

\* Two registers of a connection that is up at both ends.
LEMMA ConnectedMeet ==
    ASSUME MInv, Connected, NEW l \in Leafs, NEW s \in Sides
    PROVE  Meet(Cores(leaf[l][s]), inbox[l], Cores(leaf[Other(l)][Opposite(s)]), inbox[Other(l)],
                s, Opposite(s))
<1>1. Other(l) \in Leafs
  BY OtherEnd
<1>2. conn[l] = "started" /\ conn[Other(l)] = "started"
  BY <1>1 DEF Connected
<1>3. View(l, s)
  BY <1>2, Zenon DEF MInv, Views
<1> QED BY <1>2, <1>3 DEF View, Stands, Face

\* The id a living object is mapped to is that of a remote object, living or
\* waiting for its acknowledgement, of the same identifier: an id is not given to
\* a new object while the remote end still uses it.
THEOREM MappingsAreNeverStale == Spec => []NoStaleMapping
<1>1. MInv => NoStaleMapping
  <2> SUFFICES ASSUME MInv, Connected, NEW l \in Leafs, NEW s \in Sides, NEW id \in Elements(l, s),
                      is_mapped(leaf[l][s].elem[id].fsm)
               PROVE  LET e == leaf[l][s].elem[id]
                          r == leaf[Other(l)][Opposite(s)]
                      IN  Used(r, e.fsm.mapped) /\ r.elem[e.fsm.mapped].identifier = e.identifier
    BY Zenon DEF NoStaleMapping
  <2>1. PICK g, h, t : g = leaf[l][s] /\ h = leaf[Other(l)][Opposite(s)] /\ t = Opposite(s)
    OBVIOUS
  <2>2. Meet(Cores(g), inbox[l], Cores(h), inbox[Other(l)], s, t)
    BY <2>1, ConnectedMeet
  <2>3. PICK q, w : Pair(Cores(g), q, Cores(h), w, s, t)
    BY <2>2 DEF Meet
  <2>4. /\ id \in DOMAIN Cores(g) /\ Cores(g)[id].fsm = g.elem[id].fsm
        /\ Cores(g)[id].identifier = g.elem[id].identifier /\ is_mapped(g.elem[id].fsm)
    BY <2>1, CoresParts DEF Elements
  <2>5. PICK j : j = g.elem[id].fsm.mapped
    OBVIOUS
  <2>6. j \in DOMAIN Cores(h) /\ Cores(h)[j].identifier = g.elem[id].identifier
    BY <2>3, <2>4, <2>5, MappedToItsLike
  <2>7. j \in DOMAIN h.elem /\ h.elem[j].identifier = g.elem[id].identifier
    BY <2>6, CoresParts
  <2> QED BY <2>1, <2>5, <2>7, Zenon DEF Used
<1> QED BY <1>1, MappingInvariance, PTL

\* Once every message has been handled nothing is hidden, no removal is waited
\* for, and a terminal and a remote group of bindings of one identifier, and no
\* others, are mapped to each other.
THEOREM EndsAgree == Spec => []Agreement
<1>1. MInv => Agreement
  <2> SUFFICES ASSUME MInv, Connected, \A l \in Leafs : inbox[l] = <<>>,
                      NEW l \in Leafs, NEW s \in Sides, NEW id \in Elements(l, s)
               PROVE  LET e       == leaf[l][s].elem[id]
                          matches == Visible(leaf[Other(l)][Opposite(s)], e.identifier)
                      IN  /\ ~e.hidden /\ e.fsm.skip = 0
                          /\ IF matches = {} THEN e.fsm.state = "UNUSED_CONFIRMED"
                             ELSE e.fsm.state = "MAPPED_CONFIRMED" /\ {e.fsm.mapped} = matches
    BY DEF Agreement
  <2>1. PICK g, h, t, e : /\ g = leaf[l][s] /\ h = leaf[Other(l)][Opposite(s)] /\ t = Opposite(s)
                          /\ e = leaf[l][s].elem[id]
    OBVIOUS
  <2>2. PICK b : b = <<>>
    OBVIOUS
  <2>3. Meet(Cores(g), b, Cores(h), b, s, t)
    <3>1. inbox[l] = b /\ inbox[Other(l)] = b
      BY <2>2, OtherEnd
    <3>2. Meet(Cores(g), inbox[l], Cores(h), inbox[Other(l)], s, t)
      BY <2>1, ConnectedMeet
    <3> QED BY <3>1, <3>2
  <2>4. PICK lo, hi \in Nat : Pair(Cores(g), Window(b, s, lo), Cores(h), Window(b, t, hi), s, t)
    BY <2>3 DEF Meet
  <2>5. PICK q, w : q = Window(b, s, lo) /\ w = Window(b, t, hi)
    OBVIOUS
  <2>6. Pair(Cores(g), q, Cores(h), w, s, t) /\ SkipsFit(Cores(g)) /\ SkipsFit(Cores(h))
    BY <2>3, <2>4, <2>5 DEF Meet
  <2>7. Places(q) = {} /\ Places(w) = {}
    <3>1. b \in Seq(Message) /\ \A k \in 1..Len(b) : FALSE
      BY <2>2
    <3> QED BY <2>4, <2>5, <3>1, WindowEmpty
  <2>8. /\ id \in DOMAIN Cores(g) /\ Cores(g)[id].fsm = e.fsm
        /\ Cores(g)[id].identifier = e.identifier /\ Cores(g)[id].hidden = e.hidden
    BY <2>1, CoresParts DEF Elements
  <2>9. PICK r, z : r = Cores(g) /\ z = Cores(h)
    OBVIOUS
  <2>10. /\ ~r[id].hidden /\ r[id].fsm.skip = 0
         /\ r[id].fsm.state = "UNUSED_CONFIRMED" =>
              ~ \E j \in DOMAIN z : ~z[j].hidden /\ z[j].identifier = r[id].identifier
         /\ r[id].fsm.state # "UNUSED_CONFIRMED" =>
              /\ r[id].fsm.state = "MAPPED_CONFIRMED"
              /\ \A j : j = r[id].fsm.mapped <=>
                    j \in DOMAIN z /\ ~z[j].hidden /\ z[j].identifier = r[id].identifier
    BY <2>6, <2>7, <2>8, <2>9, QuietAgree
  <2>11. PICK m : m = Visible(h, e.identifier)
    OBVIOUS
  <2>12. \A j : j \in m <=> j \in DOMAIN z /\ ~z[j].hidden /\ z[j].identifier = e.identifier
    BY <2>9, <2>11, CoresParts DEF Visible
  <2>13. ~e.hidden /\ e.fsm.skip = 0
    BY <2>8, <2>9, <2>10
  <2>14. CASE e.fsm.state = "UNUSED_CONFIRMED"
    <3>1. m = {}
      BY <2>8, <2>9, <2>10, <2>12, <2>14
    <3> QED BY <2>1, <2>11, <2>13, <2>14, <3>1
  <2>15. CASE e.fsm.state # "UNUSED_CONFIRMED"
    <3>1. e.fsm.state = "MAPPED_CONFIRMED" /\ \A j : j \in m <=> j = e.fsm.mapped
      BY <2>8, <2>9, <2>10, <2>12, <2>15
    <3>2. m = {e.fsm.mapped} /\ m # {}
      BY <3>1
    <3> QED BY <2>1, <2>11, <2>13, <3>1, <3>2
  <2> QED BY <2>14, <2>15
<1> QED BY <1>1, MappingInvariance, PTL
=============================================================================
