----------------------------- MODULE LeafLogic -----------------------------
(***************************************************************************)
(* What a Leaf does with its terminals and bindings of one kind:           *)
(* yogi-core/src/core/common/LeafLogicBaseT.hpp.  The functions run under  *)
(* the mutex of the logic, so each is one step of the modules that use     *)
(* these operators.                                                        *)
(*                                                                         *)
(* The code is written twice, once for terminals and once for groups of    *)
(* bindings, with the same calls on the state machine.  Here a side,       *)
(* "Terminal" or "Binding", selects the register.  A message is addressed  *)
(* to a register of the receiver:                                          *)
(*     TerminalDescription, TerminalRemoved, BindingMapping,               *)
(*     BindingNoticed, BindingRemovedAck          to "Binding"             *)
(*     BindingDescription, BindingRemoved, TerminalMapping,                *)
(*     TerminalNoticed, TerminalRemovedAck        to "Terminal"            *)
(* and, from a Node only,                                                  *)
(*     BindingEstablished, BindingReleased        to "Binding",            *)
(* with id the id of the addressed element and own the id of the sender's. *)
(***************************************************************************)
EXTENDS ScatterGatherLeaf
LOCAL Seqs == INSTANCE SequencesExt

Sides       == {"Terminal", "Binding"}
Opposite(s) == IF s = "Terminal" THEN "Binding" ELSE "Terminal"

Message ==
    [type : {"Description"}, to : Sides, own : Nat, identifier : Identifiers]
      \cup [type : {"Mapping"}, to : Sides, id : Nat, own : Nat]
      \cup [type : {"Noticed", "Removed", "RemovedAck", "Established", "Released"},
            to : Sides, id : Nat]

(***************************************************************************)
(* An element of a register.  established is bd.established of a binding   *)
(* group and tm.subscribed of a terminal; bindings holds the BindingT      *)
(* objects of a group, published the ones among them whose state is        *)
(* ESTABLISHED; sent is what a terminal of a caching kind published last,  *)
(* named by its number.                                                    *)
(***************************************************************************)
Entry == [identifier : Identifiers, hidden : BOOLEAN, fsm : Fsm,
          established : BOOLEAN, bindings : SUBSET Members,
          published : SUBSET Members, sent : Nat]

NewEntry(x, bindings) ==
    [identifier |-> x, hidden |-> FALSE, fsm |-> InitialFsm,
     established |-> FALSE, bindings |-> bindings, published |-> {}, sent |-> NoData]

EmptyLeaf == [Terminal |-> EmptyRegister, Binding |-> EmptyRegister, ops |-> EmptyOps]

IsLeaf(lf) ==
    /\ DOMAIN lf = DOMAIN EmptyLeaf /\ IsOps(lf.ops)
    /\ \A s \in Sides : IsRegister(lf[s], Entry)

\* A leaf afterwards, the messages sent and whether the assertions hold.
Result(leaf, out, ok) == [leaf |-> leaf, out |-> out, ok |-> ok]

----------------------------------------------------------------------------
Description(s, id, x) ==
    [type |-> "Description", to |-> Opposite(s), own |-> id, identifier |-> x]

\* The messages that the machine of element id of side s sends.
Messages(s, id, e, out) ==
    [i \in 1..Len(out) |->
        CASE out[i].type = "Description" -> Description(s, id, e.identifier)
          [] out[i].type = "Mapping" ->
                [type |-> "Mapping", to |-> Opposite(s), id |-> out[i].id, own |-> id]
          [] OTHER -> [type |-> out[i].type, to |-> Opposite(s), id |-> out[i].id]]

\* update_binding_state: nothing is published unless the state changes.
update_binding_state(e, established) ==
    IF e.established = established THEN e
    ELSE [e EXCEPT !.established = established,
                   !.published = IF established THEN e.bindings ELSE {}]

\* One call of the mapping-state-changed callback.  The binding group of a
\* leaf behind a node waits for the node to say that it is established, a
\* terminal for the node to subscribe to it.
MappingChanged(s, e, isMapped, remoteIsNode) ==
    CASE s = "Terminal" -> [e EXCEPT !.established = isMapped /\ ~remoteIsNode]
      [] s = "Binding" /\ ~isMapped       -> update_binding_state(e, FALSE)
      [] s = "Binding" /\ isMapped /\ ~remoteIsNode -> update_binding_state(e, TRUE)
      [] OTHER                            -> e

\* The same with the operations: the terminals are told of every call, the
\* groups if it makes a difference to their bindings.
Changed(st, s, id, isMapped, remoteIsNode) ==
    LET e == MappingChanged(s, st.e, isMapped, remoteIsNode)
        o == CASE ~Scattering -> OpsStep(st.ops, <<>>, TRUE)
               [] Scattering /\ s = "Terminal" ->
                     on_terminal_mapping_changed(st.ops, id, isMapped, TRUE)
               [] Scattering /\ s = "Binding" /\ e.established # st.e.established ->
                     on_binding_group_mapping_changed(st.ops, id, isMapped, TRUE)
               [] OTHER -> OpsStep(st.ops, <<>>, TRUE)
    IN  [e |-> e, ops |-> o.ops, ok |-> st.ok /\ o.ok]

\* The calls of a step in their order; no step makes more than two.
AllChanged(st, s, id, changes, remoteIsNode) ==
    LET first  == Changed(st, s, id, changes[1], remoteIsNode)
        second == Changed(first, s, id, changes[2], remoteIsNode)
    IN  CASE Len(changes) = 0 -> st
          [] Len(changes) = 1 -> first
          [] Len(changes) = 2 -> second

\* The state machine of element id has made step r.
Evaluate(leaf, s, id, r, remoteIsNode) ==
    LET e == leaf[s].elem[id]
        n == AllChanged([e |-> [e EXCEPT !.fsm = r.fsm], ops |-> leaf.ops, ok |-> r.ok],
                        s, id, r.changes, remoteIsNode)
    IN  Result([leaf EXCEPT ![s] = IF r.alive THEN Put(@, id, n.e) ELSE Erase(@, id),
                            !.ops = n.ops],
               Messages(s, id, e, r.out), n.ok)

AssertionFails(leaf) == Result(leaf, <<>>, FALSE)

----------------------------------------------------------------------------
(* The operations of the user of the leaf.                                 *)

\* Mutant: a new element is not described to the remote side.
Create_Silent(leaf, s, x, bindings, connected) ==
    Result([leaf EXCEPT ![s] = Insert(@, NewEntry(x, bindings))], <<>>, TRUE)

\* on_new_terminal, and on_new_binding for the first binding of a group.
Create(leaf, s, x, bindings, connected) ==
    LET id == NextId(leaf[s])
        f  == IF connected THEN reset(InitialFsm, FALSE)
                           ELSE Step(InitialFsm, <<>>, <<>>)
        e  == [NewEntry(x, bindings) EXCEPT !.fsm = f.fsm]
    IN  Result([leaf EXCEPT ![s] = Insert(@, e)], Messages(s, id, e, f.out), TRUE)

\* A terminal whose identifier is taken: insert may have made an id before
\* on_new_terminal throws AMBIGUOUS_IDENTIFIER.
CreateAmbiguous(leaf, s) == Result([leaf EXCEPT ![s] = Grow(@)], <<>>, TRUE)

\* Mutant: a binding that joins an established group is not told so.
JoinGroup_Untold(leaf, x, b) ==
    LET g == Grow(leaf["Binding"])
        id == Find(g, x)
    IN  Result([leaf EXCEPT !["Binding"] =
                   [g EXCEPT !.elem[id].bindings = @ \cup {b}]], <<>>, TRUE)

\* on_new_binding for an identifier that already has a group.
JoinGroup(leaf, x, b) ==
    LET g == Grow(leaf["Binding"])
        id == Find(g, x)
        e == g.elem[id]
        n == [e EXCEPT !.bindings = @ \cup {b},
                       !.published = IF e.established THEN @ \cup {b} ELSE @]
    IN  Result([leaf EXCEPT !["Binding"] = Put(g, id, n)], <<>>, TRUE)

\* Binding b has left group id.
Answered(leaf, id, b, connected) ==
    IF ~Scattering THEN OpsStep(leaf.ops, <<>>, TRUE)
    ELSE on_binding_removed(leaf.ops, Find(leaf["Terminal"], TerminalOf[b]), id, connected)

\* on_binding_destroyed while other bindings of the group remain.
LeaveGroup(leaf, id, b, connected) ==
    LET o == Answered(leaf, id, b, connected)
        n == [leaf["Binding"].elem[id] EXCEPT !.bindings = @ \ {b}, !.published = @ \ {b}]
    IN  Result([leaf EXCEPT !["Binding"] = Put(@, id, n), !.ops = o.ops], o.out, o.ok)

\* Mutant: the entry is erased without waiting for the remote side.
Destroy_AtOnce(leaf, s, id, connected) ==
    LET e == leaf[s].elem[id]
        r == IF connected THEN process_object_destroyed(e.fsm) ELSE Dead(e.fsm)
    IN  Result([leaf EXCEPT ![s] = Erase(@, id)], Messages(s, id, e, r.out), r.ok)

\* on_terminal_destroyed, and on_binding_destroyed for the last of a group.
Destroy(leaf, s, id, connected) ==
    LET e    == leaf[s].elem[id]
        gone == [e EXCEPT !.bindings = {}, !.published = {}]
        o    == CASE s = "Terminal" /\ Scattering -> on_terminal_removed(leaf.ops, id)
                  [] s = "Binding" -> Answered(leaf, id, CHOOSE b \in e.bindings : TRUE, connected)
                  [] OTHER -> OpsStep(leaf.ops, <<>>, TRUE)
        r    == IF connected THEN process_object_destroyed(e.fsm) ELSE Dead(e.fsm)
        reg  == Put(leaf[s], id, [gone EXCEPT !.fsm = r.fsm])
    IN  Result([leaf EXCEPT ![s] = IF r.alive THEN Hide(reg, id) ELSE Erase(reg, id),
                            !.ops = o.ops],
               o.out \o Messages(s, id, e, r.out), o.ok /\ r.ok)

----------------------------------------------------------------------------
(* The connection starts and ends.                                         *)

ResetSide(leaf, s, hidden) ==
    [leaf EXCEPT ![s].elem = [id \in DOMAIN @ |->
        [leaf[s].elem[id] EXCEPT !.fsm = reset(@, hidden).fsm]]]

\* The descriptions of the elements of a side, in the order of the ids.
Descriptions(leaf, s, hidden) ==
    LET ids == IF hidden THEN <<>> ELSE Ascending(DOMAIN leaf[s].elem)
    IN  [i \in 1..Len(ids) |-> Description(s, ids[i], leaf[s].elem[ids[i]].identifier)]

on_connection_started(leaf, remoteIsNode) ==
    LET hide == ~remoteIsNode
    IN  Result(ResetSide(ResetSide(leaf, "Terminal", hide), "Binding", FALSE),
               Descriptions(leaf, "Terminal", hide) \o Descriptions(leaf, "Binding", FALSE),
               \A s \in Sides : \A id \in DOMAIN leaf[s].elem : ~leaf[s].elem[id].hidden)

\* What ends with the connection: the answers owed through the groups that were
\* established and all that the terminals that were mapped wait for and owe.
OpsLost(leaf, t, b) ==
    LET groups == {id \in DOMAIN b.elem : b.elem[id].established}
        mapped == {id \in DOMAIN t.elem : is_mapped(t.elem[id].fsm)}
        group(o, id)    == LET n == on_binding_group_mapping_changed(o.ops, id, FALSE, FALSE)
                           IN  OpsStep(n.ops, <<>>, o.ok /\ n.ok)
        terminal(o, id) == LET n == on_terminal_mapping_changed(o.ops, id, FALSE, FALSE)
                           IN  OpsStep(n.ops, <<>>, o.ok /\ n.ok)
    IN  IF ~Scattering THEN OpsStep(leaf.ops, <<>>, TRUE)
        ELSE LET released == Seqs!FoldLeft(group, OpsStep(leaf.ops, <<>>, TRUE),
                                           Seqs!SetToSeq(groups))
             IN  Seqs!FoldLeft(terminal, released, Seqs!SetToSeq(mapped))

\* Hidden entries are erased, bindings are released (their machines are left
\* alone), the machines of the terminals are reset and the mapped among them
\* are reported as unmapped.
on_connection_destroyed(leaf) ==
    LET t == EraseHidden(leaf["Terminal"])
        b == EraseHidden(leaf["Binding"])
        o == OpsLost(leaf, t, b)
    IN  Result([Terminal |-> [t EXCEPT !.elem = [id \in DOMAIN t.elem |->
                    [t.elem[id] EXCEPT !.fsm = InitialFsm,
                                       !.established = @ /\ ~is_mapped(t.elem[id].fsm)]]],
                Binding  |-> [b EXCEPT !.elem = [id \in DOMAIN b.elem |->
                    update_binding_state(b.elem[id], FALSE)]],
                ops      |-> o.ops], <<>>, o.ok)

----------------------------------------------------------------------------
(* The message handlers; s = m.to is the register the message addresses.   *)

\* TerminalDescription and BindingDescription.
OnDescription(leaf, m, remoteIsNode) ==
    LET s == m.to
    IN  IF Visible(leaf[s], m.identifier) = {}
          THEN Result(leaf, <<[type |-> "Noticed", to |-> Opposite(s), id |-> m.own]>>, TRUE)
          ELSE LET id == Find(leaf[s], m.identifier)
               IN  Evaluate(leaf, s, id,
                       process_rcvd_description(leaf[s].elem[id].fsm, m.own), remoteIsNode)

\* The handlers that look an element up by its id; an id that is not in use
\* fails their assertion (a null lookup table entry for operator[]).
OnElement(leaf, m, r, remoteIsNode) ==
    IF Used(leaf[m.to], m.id) THEN Evaluate(leaf, m.to, m.id, r, remoteIsNode)
                              ELSE AssertionFails(leaf)

\* TerminalMapping and BindingMapping.
OnMapping(leaf, m, remoteIsNode) ==
    OnElement(leaf, m, process_rcvd_mapping(leaf[m.to].elem[m.id].fsm, m.own), remoteIsNode)

\* TerminalNoticed and BindingNoticed.
OnNoticed(leaf, m, remoteIsNode) ==
    OnElement(leaf, m, process_rcvd_noticed(leaf[m.to].elem[m.id].fsm), remoteIsNode)

\* TerminalRemoved and BindingRemoved.
OnRemoved(leaf, m, remoteIsNode) ==
    OnElement(leaf, m, process_rcvd_removed(leaf[m.to].elem[m.id].fsm), remoteIsNode)

\* TerminalRemovedAck and BindingRemovedAck.
OnRemovedAck(leaf, m, remoteIsNode) ==
    OnElement(leaf, m, process_rcvd_removed_ack(leaf[m.to].elem[m.id].fsm), remoteIsNode)

\* BindingEstablished and BindingReleased.
OnBindingState(leaf, m) ==
    LET e == leaf["Binding"].elem[m.id]
        n == IF e.fsm.state # "MAPPED_CONFIRMED" THEN e
             ELSE update_binding_state(e, m.type = "Established")
        o == IF Scattering /\ n.established # e.established
               THEN on_binding_group_mapping_changed(leaf.ops, m.id, n.established, TRUE)
               ELSE OpsStep(leaf.ops, <<>>, TRUE)
    IN  IF Used(leaf["Binding"], m.id) /\ e.fsm.state \in {"MAPPED_CONFIRMED", "AWAIT_ACK"}
          THEN Result([leaf EXCEPT !["Binding"] = Put(@, m.id, n), !.ops = o.ops], <<>>, o.ok)
          ELSE AssertionFails(leaf)
============================================================================
