------------------------- MODULE ScatterGatherNode --------------------------
(***************************************************************************)
(* How a Node passes on scattered messages and collects the answers:       *)
(* yogi-core/src/core/scatter_gather/NodeLogic.hpp.  A Node gives every    *)
(* scattered message an id of its own, under which those that it passes    *)
(* the message to answer.  An operation is finished when all have sent an  *)
(* answer with the flag FINISHED; only the last one passes it on.          *)
(***************************************************************************)
EXTENDS NodeState

\* What the source of an operation is sent.
Answer(op, flags) ==
    IF op.source = NoId THEN Nothing
    ELSE SendTo(op.source, <<GatherMessage(op.sourceOp, op.call, flags)>>)

\* Mutant: every answer passes the flag on.
Resolve_Early(node, id, c, flags) ==
    LET op    == node.ops.elem[id]
        last  == op.remaining \ {c} = {}
        ended == [node EXCEPT !.ops = Erase(@, id)]
    IN  Outcome(CASE ~last -> [node EXCEPT !.ops.elem[id].remaining = @ \ {c}]
                  [] last /\ op.source = NoId -> ended
                  [] OTHER -> [ended EXCEPT !.terminals.elem[op.terminal].active = @ \ {id}],
                Answer(op, flags \cup {"FINISHED"}), TRUE)

\* Operation id waits for c no longer; the last answer ends it.
Resolve(node, id, c, flags) ==
    LET op    == node.ops.elem[id]
        last  == op.remaining \ {c} = {}
        ended == [node EXCEPT !.ops = Erase(@, id)]
    IN  Outcome(CASE ~last -> [node EXCEPT !.ops.elem[id].remaining = @ \ {c}]
                  [] last /\ op.source = NoId -> ended
                  [] OTHER -> [ended EXCEPT !.terminals.elem[op.terminal].active = @ \ {id}],
                Answer(op, (flags \ {"FINISHED"}) \cup (IF last THEN {"FINISHED"} ELSE {})),
                last /\ op.source # NoId =>
                    /\ Used(node.terminals, op.terminal)
                    /\ id \in node.terminals.elem[op.terminal].active)

\* Mutant: nobody answers for those that have gone.
on_subscriber_removed_Silent(node, id, c) == Outcome(node, Nothing, TRUE)

\* on_subscriber_removed: the node answers for leafs whose bindings are gone and
\* for connections that are; a node that lives answers itself.
on_subscriber_removed(node, id, c) ==
    LET active == node.terminals.elem[id].active
        alive  == c \in node.conns
        owing  == {op \in active : /\ node.ops.elem[op].source # c
                                   /\ c \in node.ops.elem[op].remaining
                                   /\ ~(alive /\ c \in Nodes)}
        flag   == IF alive THEN "BINDINGDESTROYED" ELSE "CONNECTIONLOST"
        resolve(n, op) == Resolve(n, op, c, {flag})
    IN  IF \E op \in active : ~Used(node.ops, op) THEN Failure(node)
        ELSE ForAll(node, InSomeOrder(owing), resolve)

\* Mutant: the operations outlive the terminal.
ForgetSource_Kept(node, id, c) == node

\* The rest of on_terminal_owner_removed: the operations of owner c go on
\* without anybody to answer to.
ForgetSource(node, id, c) ==
    LET mine == {op \in node.terminals.elem[id].active : node.ops.elem[op].source = c}
    IN  [node EXCEPT !.terminals.elem[id].active = @ \ mine,
                     !.ops.elem = [op \in DOMAIN @ |->
                         IF op \in mine THEN [@[op] EXCEPT !.source = NoId] ELSE @[op]]]

\* Scatter: a message that nobody is there to receive is not answered.
OnNodeScatter(node, c, m) ==
    LET t         == node.terminals.elem[m.id]
        op        == NextId(node.ops)
        receivers == Interested(node, t) \ {c}
        kept      == Insert(node.ops, [source |-> c, sourceOp |-> m.op, terminal |-> m.id,
                                       remaining |-> receivers, call |-> m.data])
        copy(p)   == ScatterMessage(SubscriptionOf(node, t, p), op, m.data)
    IN  CASE ~Used(node.terminals, m.id) -> Failure(node)
          [] Used(node.terminals, m.id) /\ receivers = {} ->
                Outcome([node EXCEPT !.ops = Erase(kept, op)], Nothing, TRUE)
          [] OTHER -> Outcome([node EXCEPT !.ops = kept,
                                           !.terminals.elem[m.id].active = @ \cup {op}],
                              SendAll(receivers, copy), ReceiversMapped(node, t, c))

\* Gather
OnNodeGather(node, c, m) ==
    IF ~Used(node.ops, m.id) \/ c \notin node.ops.elem[m.id].remaining THEN Failure(node)
    ELSE IF "FINISHED" \in m.flags THEN Resolve(node, m.id, c, m.flags)
         ELSE Outcome(node, Answer(node.ops.elem[m.id], m.flags), TRUE)
=============================================================================
