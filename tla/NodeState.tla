----------------------------- MODULE NodeState ------------------------------
(***************************************************************************)
(* The registers of a Node for the terminals and bindings of one kind: the *)
(* types and the association functions of                                  *)
(* yogi-core/src/core/common/NodeLogicBaseT.hpp, and what the operators of *)
(* ScatterGatherNode, SubscribableNodeLogic and NodeLogic have in common.  *)
(*                                                                         *)
(* A connection is named by the Leaf or Node at its other end.             *)
(***************************************************************************)
EXTENDS SubscribableLeafLogic, Functions

CONSTANTS Leafs, Nodes

Peers == Leafs \cup Nodes

\* state_t: how many leafs and nodes own the terminal.
OwnerStates == {"JUST_CREATED", "1_LEAFS_0_NODES", "M_LEAFS_0_NODES", "0_LEAFS_1_NODES",
                "0_LEAFS_M_NODES", "N_LEAFS_N_NODES", "AWAIT_ACKS"}

\* fsm_map: the machines by connection.
With(f, c, x)  == [p \in DOMAIN f \cup {c} |-> IF p = c THEN x ELSE f[p]]
Without(f, c)  == [p \in DOMAIN f \ {c} |-> f[p]]
NoMachines     == [p \in {} |-> InitialFsm]
IsFsmMap(f, S) == DOMAIN f \subseteq S /\ \A p \in DOMAIN f : f[p] \in Fsm

NewTerminalInfo(x) ==
    [identifier |-> x, hidden |-> FALSE, state |-> "JUST_CREATED", leafs |-> NoMachines,
     nodes |-> NoMachines, users |-> NoMachines, binding |-> NoId,
     subscribers |-> [p \in {} |-> NoId], cache |-> NoData, active |-> {}]

NewBindingInfo(x) ==
    [identifier |-> x, hidden |-> FALSE, leafs |-> NoMachines, terminal |-> NoId]

IsTerminalInfo(t) ==
    /\ DOMAIN t = DOMAIN NewTerminalInfo(t.identifier)
    /\ t.identifier \in Identifiers /\ t.hidden \in BOOLEAN /\ t.state \in OwnerStates
    /\ IsFsmMap(t.leafs, Leafs) /\ IsFsmMap(t.nodes, Nodes) /\ IsFsmMap(t.users, Nodes)
    /\ DOMAIN t.subscribers \subseteq Nodes /\ Range(t.subscribers) \subseteq Nat /\ t.cache \in Nat
    /\ t.active \subseteq Nat

IsBindingInfo(b) ==
    /\ DOMAIN b = DOMAIN NewBindingInfo(b.identifier)
    /\ b.identifier \in Identifiers /\ ~b.hidden /\ IsFsmMap(b.leafs, Leafs)

(***************************************************************************)
(* conns are m_leafConnections and m_nodeConnections, known the            *)
(* identifiers that m_knownTerminalsChangedFn has reported as new and not  *)
(* as gone since, ops the m_operations of scatter-gather terminals.        *)
(***************************************************************************)
EmptyNode == [terminals |-> EmptyRegister, bindings |-> EmptyRegister,
              conns |-> {}, known |-> {}, ops |-> EmptyRegister]

\* operation_info_type, and the number of the call; source is NoId once the
\* terminal of the operation is gone.
IsOperation(op) ==
    /\ op.source \in Peers \cup {NoId} /\ op.remaining \subseteq Peers
    /\ {op.sourceOp, op.terminal, op.call} \subseteq Nat

----------------------------------------------------------------------------
(* A node afterwards, the messages sent on each connection and whether the *)
(* assertions hold.                                                        *)
Outcome(node, out, ok) == [node |-> node, out |-> out, ok |-> ok]

Nothing           == [p \in Peers |-> <<>>]
SendTo(c, msgs)   == [p \in Peers |-> IF p = c THEN msgs ELSE <<>>]
SendAll(S, m(_))  == [p \in Peers |-> IF p \in S THEN <<m(p)>> ELSE <<>>]
Joined(o1, o2)    == [p \in Peers |-> o1[p] \o o2[p]]

Failure(node) == Outcome(node, Nothing, FALSE)

\* After r the assertion p.
Asserted(r, p) == Outcome(r.node, r.out, r.ok /\ p)

\* Step s after r.
Followed(r, s) == Outcome(s.node, Joined(r.out, s.out), s.ok)

\* After r the step that F(node) describes, unless an assertion has failed.
Then(r, F(_)) == IF r.ok THEN Followed(r, F(r.node)) ELSE r

\* The elements of a set in the order in which a loop meets them.
InSomeOrder(S) == CHOOSE ids \in [1..Cardinality(S) -> S] : IsInjective(ids)

\* F applied to the entries ids one after the other.
ForAll(node, ids, F(_, _)) ==
    LET done[i \in 0..Len(ids)] ==
            IF i = 0 THEN Outcome(node, Nothing, TRUE)
            ELSE Then(done[i - 1], LAMBDA n : F(n, ids[i]))
    IN  done[Len(ids)]

Told(type, id) == [type |-> type, to |-> "Binding", id |-> id]

\* BindingEstablished or BindingReleased for the leafs in S that own binding bd.
TellOwners(bd, S, type) ==
    LET told(p) == Told(type, bd.leafs[p].mapped) IN SendAll(S \cap DOMAIN bd.leafs, told)

----------------------------------------------------------------------------
(* Terminals and bindings with the same identifier.                        *)

\* associate(terminal): an entry that is linked already has to be linked back.
AssociationOk(node, id) ==
    LET b == node.terminals.elem[id].binding
    IN  b # NoId => Used(node.bindings, b) /\ node.bindings.elem[b].terminal = id

Link(node, id, b) == [node EXCEPT !.terminals.elem[id].binding = b,
                                  !.bindings.elem[b].terminal = id]

\* associate: the entry of the other register with the same identifier, if any.
associate(node, id) ==
    LET t  == node.terminals.elem[id]
        bs == Visible(node.bindings, t.identifier)
    IN  IF t.binding # NoId \/ bs = {} THEN node
        ELSE Link(node, id, Find(node.bindings, t.identifier))

associate_binding(node, b) ==
    LET e  == node.bindings.elem[b]
        ts == Visible(node.terminals, e.identifier)
    IN  IF e.terminal # NoId \/ ts = {} THEN node
        ELSE Link(node, Find(node.terminals, e.identifier), b)

\* Mutant: the binding keeps pointing at the terminal.
disassociate_OneSided(node, id) == [node EXCEPT !.terminals.elem[id].binding = NoId]

disassociate(node, id) ==
    LET b == node.terminals.elem[id].binding
    IN  IF b = NoId THEN node
        ELSE [node EXCEPT !.bindings.elem[b].terminal = NoId,
                          !.terminals.elem[id].binding = NoId]

disassociate_binding(node, b) ==
    LET t == node.bindings.elem[b].terminal
    IN  IF t = NoId THEN node
        ELSE [node EXCEPT !.terminals.elem[t].binding = NoId,
                          !.bindings.elem[b].terminal = NoId]

----------------------------------------------------------------------------
owners(t, c) == IF c \in Nodes THEN t.nodes ELSE t.leafs

BindingOwners(node, t) ==
    IF t.binding = NoId THEN {} ELSE DOMAIN node.bindings.elem[t.binding].leafs

Interested(node, t) == DOMAIN t.subscribers \cup BindingOwners(node, t)

\* The id by which p knows the terminal that it listens to.
SubscriptionOf(node, t, p) ==
    IF p \in Nodes THEN t.subscribers[p] ELSE node.bindings.elem[t.binding].leafs[p].mapped

\* The assertions on those that are sent something that has come from c.
ReceiversMapped(node, t, c) ==
    /\ \A p \in DOMAIN t.subscribers \ {c} : p \in DOMAIN t.users /\ is_mapped(t.users[p])
    /\ \A p \in BindingOwners(node, t) \ {c} : is_mapped(node.bindings.elem[t.binding].leafs[p])

SetOwners(t, c, f) == IF c \in Nodes THEN [t EXCEPT !.nodes = f] ELSE [t EXCEPT !.leafs = f]
=============================================================================
