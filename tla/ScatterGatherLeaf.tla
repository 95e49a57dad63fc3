------------------------- MODULE ScatterGatherLeaf --------------------------
(***************************************************************************)
(* The scatter-gather operations of a Leaf:                                *)
(* yogi-core/src/core/scatter_gather/LeafLogic.hpp.                        *)
(*                                                                         *)
(* ops is a record of                                                      *)
(*   scatters  m_scatterOperations: for every operation started here the   *)
(*             terminal, NoId once nobody waits for the answers, and the   *)
(*             number of the call (what was scattered);                    *)
(*   gathers   one element for every binding that a scattered message was  *)
(*             handed to and whose terminal owes an answer.  Both          *)
(*             m_gatherOperations and the bd.ext.gatherOperations of the   *)
(*             binding groups are multimaps with these elements;           *)
(*   open      tm.ext.gatherOperations of all terminals: maps, so one      *)
(*             element for an operation and a terminal.                    *)
(* tm.ext.scatterOperations and the tasks of a terminal are the operations *)
(* that name the terminal in scatters.                                     *)
(***************************************************************************)
EXTENDS MappedObjectFsm, IdentifiedObjectRegister, FiniteSets
LOCAL Seqs == INSTANCE SequencesExt

CONSTANTS Kind,          \* TTypes: the kind of the terminals
          Identifiers,   \* base::Identifier: signature, name and hidden flag
          Members,       \* the binding objects a group can hold
          TerminalOf     \* TerminalOf[b]: the terminal that binding b belongs to

\* The other kinds of the library derive from these (producer-consumer and
\* master-slave from publish-subscribe, service-client from scatter-gather).
Kinds == {"deaf_mute", "publish_subscribe", "cached_publish_subscribe", "scatter_gather"}

ASSUME KindAssumption == Kind \in Kinds /\ TerminalOf \in [Members -> Identifiers]

Subscribable == Kind # "deaf_mute"
Caching      == Kind = "cached_publish_subscribe"
Scattering   == Kind = "scatter_gather"

NoData == 0

EmptyOps == [scatters |-> EmptyRegister, gathers |-> {}, open |-> {}]

IsOps(ops) ==
    /\ DOMAIN ops = DOMAIN EmptyOps
    /\ IsRegister(ops.scatters, [terminal : Nat, call : Nat])
    /\ ops.gathers \subseteq [op : Nat, binding : Members, terminal : Nat, group : Nat, data : Nat]
    /\ ops.open \subseteq [op : Nat, terminal : Nat, group : Nat]

\* The operations that terminal id waits for.
Awaited(ops, id) == {op \in DOMAIN ops.scatters.elem : ops.scatters.elem[op].terminal = id}

\* The operation of the terminal is forgotten; its id stays in use.
Orphaned(ops, S) ==
    [ops EXCEPT !.scatters.elem = [op \in DOMAIN @ |->
        IF op \in S THEN [@[op] EXCEPT !.terminal = NoId] ELSE @[op]]]

FinishAll(ops, S) ==
    [ops EXCEPT !.scatters = Seqs!FoldLeft(Erase, @, Seqs!SetToSeq(S))]

\* The entry of the map for an element of the multimaps.
Key(g) == [op |-> g.op, terminal |-> g.terminal, group |-> g.group]

\* erase_from_multimap: one of the elements for the key.
OneOf(gathers, key) == CHOOSE g \in gathers : Key(g) = key

\* remove_all_gather_operations
WithoutGathersOf(ops, id) ==
    LET mine == {k \in ops.open : k.terminal = id}
    IN  [ops EXCEPT !.open = @ \ mine, !.gathers = @ \ {OneOf(@, k) : k \in mine}]

\* The number of the call in an answer stands for what is answered; the code
\* has only the id of the operation to tell.
GatherMessage(op, call, flags) ==
    [type |-> "Gather", to |-> "Terminal", id |-> op, data |-> call, flags |-> flags]

ScatterMessage(id, op, call) ==
    [type |-> "Scatter", to |-> "Binding", id |-> id, op |-> op, data |-> call]

GatherFlags == {"FINISHED", "IGNORED", "DEAF", "BINDINGDESTROYED", "CONNECTIONLOST"}

\* A step of the operations: what is sent and whether the assertions hold.
OpsStep(ops, out, ok) == [ops |-> ops, out |-> out, ok |-> ok]

----------------------------------------------------------------------------
(* The virtual functions that LeafLogic calls.                             *)

\* on_terminal_mapping_changed: what terminal id waits for is over, what it owes
\* is forgotten.
on_terminal_mapping_changed(ops, id, isMapped, connected) ==
    OpsStep(WithoutGathersOf(FinishAll(ops, Awaited(ops, id)), id), <<>>,
            Awaited(ops, id) # {} => ~connected \/ ~isMapped)

\* on_binding_group_mapping_changed
on_binding_group_mapping_changed(ops, group, isMapped, connected) ==
    LET gone == {g \in ops.gathers : g.group = group}
    IN  OpsStep([ops EXCEPT !.gathers = @ \ gone, !.open = @ \ {Key(g) : g \in gone}], <<>>,
                /\ gone # {} => ~connected \/ ~isMapped
                /\ \A g \in gone : Key(g) \in ops.open
                /\ \A g, h \in gone : Key(g) = Key(h) => g = h)

\* on_terminal_removed; the terminal pointer has already been reset.
on_terminal_removed(ops, id) ==
    OpsStep(Orphaned(ops, Awaited(ops, id)), <<>>, \A k \in ops.open : k.terminal # id)

\* on_binding_removed: the terminal of the binding answers what it owes through
\* the group.
on_binding_removed(ops, terminal, group, connected) ==
    LET mine == {g \in ops.gathers : g.group = group /\ g.terminal = terminal}
        left == ops.gathers \ mine
        done == {g \in mine : \A h \in left : h.op # g.op}
        answer(g) == GatherMessage(g.op, g.data, {"BINDINGDESTROYED", "FINISHED"})
        answers == Seqs!SetToSeq({answer(g) : g \in done})
    IN  OpsStep([ops EXCEPT !.gathers = left, !.open = @ \ {Key(g) : g \in mine}], answers,
                /\ mine # {} => connected
                /\ \A g \in ops.gathers : g.group = group => Key(g) \in ops.open
                /\ \A g, h \in mine : Key(g) = Key(h) => g = h)

----------------------------------------------------------------------------
(* What the users do, and the handlers.                                    *)

\* sg_scatter, for a terminal with a subscription: remote is its mapped id.
sg_scatter(ops, id, call, remote) ==
    LET op == NextId(ops.scatters)
    IN  OpsStep([ops EXCEPT !.scatters = Insert(@, [terminal |-> id, call |-> call])],
                <<ScatterMessage(remote, op, call)>>, TRUE)

\* sg_cancel_scatter
sg_cancel_scatter(ops, op) == OpsStep(Orphaned(ops, {op}), <<>>, TRUE)

\* sg_respond_to_scattered_message, for an entry of a terminal's map.
sg_respond_to_scattered_message(ops, key, flags) ==
    LET g     == OneOf(ops.gathers, key)
        left  == ops.gathers \ {g}
        ended == \A h \in left : h.op # key.op
    IN  OpsStep([ops EXCEPT !.gathers = left, !.open = @ \ {key}],
                <<GatherMessage(key.op, g.data, flags \cup (IF ended THEN {"FINISHED"} ELSE {}))>>,
                \E h \in ops.gathers : Key(h) = key)

\* One round of the loop of the Scatter handler: the message is handed to the
\* terminal of element g, which may answer before the function returns (it has
\* no receive operation running, or its handler answers).
HandOver(step, g, atOnce) ==
    LET kept == [step.ops EXCEPT !.gathers = @ \cup {g}, !.open = @ \cup {Key(g)}]
        r    == sg_respond_to_scattered_message(kept, Key(g), {"DEAF"})
    IN  IF atOnce THEN OpsStep(r.ops, step.out \o r.out, step.ok /\ r.ok)
                  ELSE OpsStep(kept, step.out, step.ok)

\* Scatter: gs are the elements for the bindings of an established group, those
\* in now are answered at once.
OnScatter(ops, m, gs, now) ==
    LET hand(step, g) == HandOver(step, g, g \in now)
    IN  Seqs!FoldLeft(hand, OpsStep(ops, <<>>, \A g \in ops.gathers : g.op # m.op), gs)

\* Gather: the handler of the user may ask for an abort.
OnGather(ops, m, abort) ==
    LET waiting == ops.scatters.elem[m.id].terminal # NoId
        left    == IF waiting /\ abort THEN Orphaned(ops, {m.id}) ELSE ops
    IN  IF ~Used(ops.scatters, m.id) THEN OpsStep(ops, <<>>, FALSE)
        ELSE OpsStep(IF "FINISHED" \in m.flags THEN FinishAll(left, {m.id}) ELSE left, <<>>, TRUE)
=============================================================================
