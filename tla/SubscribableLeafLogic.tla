----------------------- MODULE SubscribableLeafLogic ------------------------
(***************************************************************************)
(* Terminals at a Leaf that know whether anybody listens:                  *)
(* yogi-core/src/core/common/SubscribableLeafLogicBaseT.hpp, with the      *)
(* publishing of PublishSubscribeLeafLogicBaseT.hpp and the cache of       *)
(* cached_publish_subscribe/LeafLogic.hpp.  Only for a Leaf on a Node,     *)
(* where the subscription of a terminal is the established of its entry;   *)
(* two Leafs that are connected directly subscribe by the mapping alone.   *)
(* The last part puts the operations of ScatterGatherLeaf into the leaf.   *)
(***************************************************************************)
EXTENDS LeafLogic
LOCAL Seqs == INSTANCE SequencesExt

DataMessage ==
    [type : {"Subscribe", "Unsubscribe"}, to : {"Terminal"}, id : Nat]
      \cup [type : {"Data", "CachedData"}, to : {"Binding"}, id : Nat, data : Nat]
      \cup [type : {"Scatter"}, to : {"Binding"}, id : Nat, op : Nat, data : Nat]
      \cup [type : {"Gather"}, to : {"Terminal"}, id : Nat, data : Nat, flags : SUBSET GatherFlags]

Datum(type, id, data) == [type |-> type, to |-> "Binding", id |-> id, data |-> data]

\* Mutant: what was sent before is sent as if it were new.
LastSent_AsNew(e) ==
    IF Caching /\ is_mapped(e.fsm) /\ e.sent # NoData
      THEN <<Datum("Data", e.fsm.mapped, e.sent)>> ELSE <<>>

\* on_subscribed of a terminal: a caching one sends what it has.
LastSent(e) ==
    IF Caching /\ is_mapped(e.fsm) /\ e.sent # NoData
      THEN <<Datum("CachedData", e.fsm.mapped, e.sent)>> ELSE <<>>

\* Subscribe and Unsubscribe, from the node.
OnSubscription(leaf, m) ==
    LET e     == leaf["Terminal"].elem[m.id]
        wants == m.type = "Subscribe"
    IN  IF Used(leaf["Terminal"], m.id) /\ e.established # wants
          THEN Result([leaf EXCEPT !["Terminal"] = Put(@, m.id, [e EXCEPT !.established = wants])],
                      IF wants THEN LastSent(e) ELSE <<>>, TRUE)
          ELSE AssertionFails(leaf)

\* publish: data is sent only if there is a subscription, and kept for later ones.
publish(leaf, id, data) ==
    LET e == leaf["Terminal"].elem[id]
    IN  Result([leaf EXCEPT !["Terminal"].elem[id].sent = IF Caching THEN data ELSE NoData],
               IF e.established THEN <<Datum("Data", e.fsm.mapped, data)>> ELSE <<>>,
               TRUE)

\* Data and CachedData: the identifier under which the terminal of the first
\* binding of the group gets them, none if the group has no bindings any more.
Receivers(leaf, m) ==
    LET e == leaf["Binding"].elem[m.id]
    IN  IF e.bindings = {} THEN {} ELSE {e.identifier}

OnData(leaf, m) ==
    IF Used(leaf["Binding"], m.id) THEN Result(leaf, <<>>, TRUE) ELSE AssertionFails(leaf)

----------------------------------------------------------------------------
(* Scatter-gather terminals.                                               *)
DidOps(leaf, o) == Result([leaf EXCEPT !.ops = o.ops], o.out, o.ok)

\* async_scatter_gather, for a terminal with a subscription.
Scattered(leaf, id, call) ==
    DidOps(leaf, sg_scatter(leaf.ops, id, call, leaf["Terminal"].elem[id].fsm.mapped))

\* What the bindings of a group owe for a message, in the order of the group.
OwedFor(leaf, m) ==
    LET bs == Seqs!SetToSeq(leaf["Binding"].elem[m.id].bindings)
    IN  [i \in 1..Len(bs) |->
            [op |-> m.op, binding |-> bs[i], terminal |-> Find(leaf["Terminal"], TerminalOf[bs[i]]),
             group |-> m.id, data |-> m.data]]

\* Scatter: only an established group passes it on; those of the terminals in
\* now answer at once.
OnLeafScatter(leaf, m, now) ==
    LET owed == IF leaf["Binding"].elem[m.id].established THEN OwedFor(leaf, m) ELSE <<>>
    IN  IF Used(leaf["Binding"], m.id)
          THEN DidOps(leaf, OnScatter(leaf.ops, m, owed, {g \in Seqs!ToSet(owed) : g.binding \in now}))
          ELSE AssertionFails(leaf)
=============================================================================
