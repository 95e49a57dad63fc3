------------------------------ MODULE Network -------------------------------
(***************************************************************************)
(* Leafs connected through Nodes: Leaf.cpp and Node.cpp over connections   *)
(* that deliver in order until they die.  Every Leaf has one connection,   *)
(* to a Node; Nodes may be connected to each other.  The links of the      *)
(* network form a tree.                                                    *)
(*                                                                         *)
(* An end <<p, q>> is the connection object that p has for its link to q.  *)
(* As in LeafPair the two ends of a link are made at once, start one after *)
(* the other and learn of the death of the connection at their own time.   *)
(* What several bindings in one group see of each other is left to         *)
(* LeafPair: a Leaf has one binding per identifier here.                   *)
(***************************************************************************)
EXTENDS NodeLogic

CONSTANTS Links,            \* sets {p, q} of directly connected peers
          Unreliable,       \* the links whose connections may die
          TerminalNames,    \* TerminalNames[l]: identifiers l creates terminals for
          BindingNames,     \* BindingNames[l]: identifiers l creates bindings for
          MaxIds,           \* MaxIds[s]: bound on the ids of a leaf's register
          MaxInFlight,      \* bound on the messages from a leaf when its user acts
          MaxLosses,        \* bound on the connections that die
          MaxOperations,    \* bound on what the users create, destroy and cancel
          MaxPublished      \* bound on what the users publish

ASSUME NetworkAssumption ==
    /\ IsFiniteSet(Peers) /\ Unreliable \subseteq Links
    /\ Leafs \cap Nodes = {}
    /\ \A k \in Links : \E p \in Peers, n \in Nodes : p # n /\ k = {p, n}
    /\ \A l \in Leafs : \E n \in Nodes : {k \in Links : l \in k} = {{l, n}}
ASSUME NamesAssumption ==
    /\ TerminalNames \in [Leafs -> SUBSET Identifiers]
    /\ BindingNames  \in [Leafs -> SUBSET Identifiers]
ASSUME BoundsAssumption ==
    /\ MaxIds \in [Sides -> Nat]
    /\ {MaxInFlight, MaxLosses, MaxOperations, MaxPublished} \subseteq Nat

VARIABLES leaf,      \* leaf[l]: the registers of leaf l
          node,      \* node[n]: the registers and connections of node n
          conn,      \* conn[<<p, q>>]: what p knows of its connection to q
          inbox,     \* inbox[<<p, q>>]: messages on their way from q to p
          lost,      \* the links whose connections have died so far, in order
          acts,      \* number of operations of the users so far
          topics,    \* the identifiers under which data has been published so far
          heard,     \* heard[l]: the data that the terminals of leaf l have received
          audience,  \* the leafs that have to receive the data published last
          forsaken,  \* the scattered data that a node never answers for
          failed     \* an assertion of the code has failed

vars == <<leaf, node, conn, inbox, lost, acts, topics, heard, audience, forsaken, failed>>

Ends == {e \in Peers \X Peers : e[1] # e[2] /\ {e[1], e[2]} \in Links}

Reverse(e) == <<e[2], e[1]>>

\* The end of leaf l.
EndOf(l) == CHOOSE e \in Ends : e[1] = l

\* All links have been connected, before there is anything to tell.
Init ==
    /\ leaf   = [l \in Leafs |-> EmptyLeaf]
    /\ node   = [n \in Nodes |->
                    [EmptyNode EXCEPT !.conns = {c \in Peers : <<n, c>> \in Ends}]]
    /\ conn   = [e \in Ends |-> "started"]
    /\ inbox  = [e \in Ends |-> <<>>]
    /\ lost   = <<>>
    /\ acts   = 0
    /\ topics = <<>> /\ heard = [l \in Leafs |-> <<>>] /\ audience = {} /\ forsaken = {}
    /\ failed = FALSE

\* No message is on its way and both ends of every link agree whether it is up.
Quiet ==
    /\ \A e \in Ends : inbox[e] = <<>>
    /\ \A e \in Ends : conn[e] \in {"none", "started"} /\ conn[e] = conn[Reverse(e)]

Up(e) == conn[e] = "started"

\* Leaf q is reached from p over links that are up.
Reaches(p, q) ==
    \A S \in SUBSET Peers :
        p \in S /\ (\A e \in Ends : Up(e) /\ e[1] \in S => e[2] \in S) => q \in S

Has(l, s, x) == Visible(leaf[l][s], x) # {}

\* The other leafs that are reached and have bindings to x.
Listeners(l, x) == {k \in Leafs \ {l} : Reaches(l, k) /\ Has(k, "Binding", x)}

----------------------------------------------------------------------------
\* The messages out[q] that p sends to q; those to an end that is gone are lost.
Sent(box, p, out) ==
    [e \in Ends |-> IF e[2] = p /\ conn[e] # "none" THEN box[e] \o out[e[1]] ELSE box[e]]

\* Leaf l has done r, node n has done r; box are the messages then left.
LeafDid(l, r, box) ==
    /\ leaf'   = [leaf EXCEPT ![l] = r.leaf]
    /\ inbox'  = Sent(box, l, SendTo(EndOf(l)[2], r.out))
    /\ failed' = (failed \/ ~r.ok)
    /\ UNCHANGED node

NodeDid(n, r, box) ==
    /\ node'   = [node EXCEPT ![n] = r.node]
    /\ inbox'  = Sent(box, n, r.out)
    /\ failed' = (failed \/ ~r.ok)
    /\ UNCHANGED leaf

----------------------------------------------------------------------------
(* The users of the leafs.                                                 *)
UserDid(l, r) ==
    /\ acts < MaxOperations /\ acts' = acts + 1
    /\ LeafDid(l, r, inbox)
    /\ audience' = {}
    /\ UNCHANGED <<conn, lost, topics, heard, forsaken>>

Started(l) == conn[EndOf(l)] = "started"

RoomToSend(l) == Len(inbox[Reverse(EndOf(l))]) < MaxInFlight

RoomForId(l, s) == leaf[l][s].free # <<>> \/ leaf[l][s].size < MaxIds[s]

NewTerminal(l, x) ==
    /\ RoomToSend(l) /\ RoomForId(l, "Terminal")
    /\ Visible(leaf[l]["Terminal"], x) = {}
    /\ UserDid(l, Create(leaf[l], "Terminal", x, {}, Started(l)))

\* A binding belongs to a terminal that outlives it.
HasTerminalOf(l, b) == Visible(leaf[l]["Terminal"], TerminalOf[b]) # {}

TerminalInUse(l, x) ==
    \E e \in Range(leaf[l]["Binding"].elem) : \E b \in e.bindings : TerminalOf[b] = x

NewBinding(l, x, b) ==
    /\ RoomToSend(l) /\ RoomForId(l, "Binding")
    /\ Scattering => HasTerminalOf(l, b)
    /\ Visible(leaf[l]["Binding"], x) = {}
    /\ UserDid(l, Create(leaf[l], "Binding", x, {b}, Started(l)))

\* The user destroys a terminal or the binding of a group.
DestroyObject(l, s, id) ==
    /\ RoomToSend(l)
    /\ ~leaf[l][s].elem[id].hidden
    /\ Scattering /\ s = "Terminal" => ~TerminalInUse(l, leaf[l][s].elem[id].identifier)
    /\ UserDid(l, Destroy(leaf[l], s, id, Started(l)))

\* Something is sent through terminal id.  In a quiet network everybody who
\* listens is to receive it.
Utter(l, id) ==
    /\ Len(topics) < MaxPublished
    /\ ~leaf[l]["Terminal"].elem[id].hidden
    /\ LET x == leaf[l]["Terminal"].elem[id].identifier
       IN  /\ topics'   = Append(topics, x)
           /\ audience' = IF Quiet THEN Listeners(l, x) ELSE {}
    /\ UNCHANGED <<conn, lost, acts, heard, forsaken>>

\* The user publishes through a terminal.
Publish(l, id) ==
    /\ Kind \in {"publish_subscribe", "cached_publish_subscribe"}
    /\ Utter(l, id)
    /\ LeafDid(l, publish(leaf[l], id, Len(topics) + 1), inbox)

\* The user starts a scatter-gather operation; without a subscription that throws.
Scatter(l, id) ==
    /\ Scattering /\ leaf[l]["Terminal"].elem[id].established
    /\ Utter(l, id)
    /\ LeafDid(l, Scattered(leaf[l], id, Len(topics) + 1), inbox)

\* The user stops waiting for the answers.
CancelScatter(l, op) ==
    /\ leaf[l].ops.scatters.elem[op].terminal # NoId
    /\ UserDid(l, DidOps(leaf[l], sg_cancel_scatter(leaf[l].ops, op)))

\* The user answers or ignores a message that a terminal owes an answer for.
Respond(l, key) ==
    /\ LeafDid(l, DidOps(leaf[l], sg_respond_to_scattered_message(leaf[l].ops, key, {})), inbox)
    /\ UNCHANGED <<conn, lost, acts, topics, heard, audience, forsaken>>

----------------------------------------------------------------------------
(* The connections.                                                        *)
Connect(k) ==
    /\ \A e \in Ends : {e[1], e[2]} = k => conn[e] = "none"
    /\ conn'  = [e \in Ends |-> IF {e[1], e[2]} = k THEN "new" ELSE conn[e]]
    /\ inbox' = [e \in Ends |-> IF {e[1], e[2]} = k THEN <<>> ELSE inbox[e]]
    /\ UNCHANGED <<leaf, node, lost, acts, topics, heard, audience, forsaken, failed>>

StartLeaf(l) ==
    /\ conn[EndOf(l)] = "new"
    /\ conn' = [conn EXCEPT ![EndOf(l)] = "started"]
    /\ LeafDid(l, on_connection_started(leaf[l], TRUE), inbox)
    /\ UNCHANGED <<lost, acts, topics, heard, audience, forsaken>>

StartNode(n, c) ==
    /\ conn[<<n, c>>] = "new"
    /\ conn' = [conn EXCEPT ![<<n, c>>] = "started"]
    /\ NodeDid(n, connection_started(node[n], c), inbox)
    /\ UNCHANGED <<lost, acts, topics, heard, audience, forsaken>>

Ended(e) ==
    /\ conn[e] # "none" /\ {e[1], e[2]} \in Unreliable
    /\ conn' = [conn EXCEPT ![e] = "none"]
    /\ lost' = IF conn[Reverse(e)] = "none" THEN lost ELSE Append(lost, {e[1], e[2]})
    /\ Len(lost') \leq MaxLosses
    /\ audience' = {}
    /\ UNCHANGED <<acts, topics, heard>>

EndLeaf(l) ==
    /\ Ended(EndOf(l)) /\ UNCHANGED forsaken
    /\ LeafDid(l, IF Started(l) THEN on_connection_destroyed(leaf[l])
                  ELSE Result(leaf[l], <<>>, TRUE),
               [inbox EXCEPT ![EndOf(l)] = <<>>])

\* What a node that has lost its connection to node c still expects from it.
Expected(nd, c) == {op.call : op \in {o \in Range(nd.ops.elem) : c \in o.remaining \cap Nodes}}

EndNode(n, c) ==
    LET r == IF conn[<<n, c>>] = "started" THEN connection_destroyed(node[n], c)
             ELSE Outcome(node[n], Nothing, TRUE)
    IN  /\ Ended(<<n, c>>)
        /\ forsaken' = forsaken \cup Expected(r.node, c)
        /\ NodeDid(n, r, [inbox EXCEPT ![<<n, c>>] = <<>>])

----------------------------------------------------------------------------
(* The handlers.                                                           *)
LeafHandler(lf, m) ==
    CASE m.type = "Mapping"    -> OnMapping(lf, m, TRUE)
      [] m.type = "RemovedAck" -> OnRemovedAck(lf, m, TRUE)
      [] m.type \in {"Established", "Released"} -> OnBindingState(lf, m)
      [] m.type \in {"Subscribe", "Unsubscribe"} -> OnSubscription(lf, m)
      [] m.type \in {"Data", "CachedData"} -> OnData(lf, m)
      [] OTHER -> AssertionFails(lf)

\* What the handler can do: terminals answer a scattered message at once or
\* later, and the user aborts an operation or not.
LeafHandles(lf, m) ==
    CASE m.type = "Scatter" -> {OnLeafScatter(lf, m, now) : now \in SUBSET Members}
      [] m.type = "Gather"  -> {DidOps(lf, OnGather(lf.ops, m, abort)) : abort \in BOOLEAN}
      [] OTHER              -> {LeafHandler(lf, m)}

NodeHandler(nd, c, m) ==
    CASE m.type = "Description" /\ m.to = "Binding"  -> OnTerminalDescription(nd, c, m)
      [] m.type = "Removed"     /\ m.to = "Binding"  -> OnTerminalRemoved(nd, c, m)
      [] m.type = "Mapping"     /\ m.to = "Terminal" -> OnTerminalMapping(nd, c, m)
      [] m.type = "RemovedAck"  /\ m.to = "Terminal" -> OnTerminalRemovedAck(nd, c, m)
      [] m.type = "Description" /\ m.to = "Terminal" -> OnBindingDescription(nd, c, m)
      [] m.type = "Removed"     /\ m.to = "Terminal" -> OnBindingRemoved(nd, c, m)
      [] m.type = "Subscribe"   -> OnSubscribe(nd, c, m)
      [] m.type = "Unsubscribe" -> OnUnsubscribe(nd, c, m)
      [] m.type \in {"Data", "CachedData"} -> OnNodeData(nd, c, m)
      [] m.type = "Scatter"     -> OnNodeScatter(nd, c, m)
      [] m.type = "Gather"      -> OnNodeGather(nd, c, m)
      [] OTHER -> Failure(nd)

Receives(e) ==
    /\ conn[e] = "started" /\ inbox[e] # <<>>
    /\ UNCHANGED <<conn, lost, acts, topics, audience>>

Received(e) == [inbox EXCEPT ![e] = Tail(@)]

\* The data in message m, with the identifier of the binding it came through.
Heard(l, m) ==
    IF /\ m.type \in {"Data", "CachedData", "Scatter"} /\ Used(leaf[l]["Binding"], m.id)
       /\ m.type = "Scatter" => leaf[l]["Binding"].elem[m.id].established
      THEN [i \in 1..Cardinality(Receivers(leaf[l], m)) |->
               [name |-> leaf[l]["Binding"].elem[m.id].identifier, data |-> m.data,
                cached |-> m.type = "CachedData"]]
      ELSE <<>>

ReceiveLeaf(l) ==
    LET e == EndOf(l)
    IN  /\ Receives(e)
        /\ UNCHANGED forsaken
        /\ heard' = [heard EXCEPT ![l] = @ \o Heard(l, Head(inbox[e]))]
        /\ \E r \in LeafHandles(leaf[l], Head(inbox[e])) : LeafDid(l, r, Received(e))

\* The data in message m from c that node n has nobody else to pass on to.
Unheard(n, c, m) ==
    IF /\ m.type = "Scatter" /\ Used(node[n].terminals, m.id)
       /\ Interested(node[n], node[n].terminals.elem[m.id]) \subseteq {c}
      THEN {m.data} ELSE {}

ReceiveNode(n, c) ==
    LET e == <<n, c>>
    IN  /\ Receives(e) /\ UNCHANGED heard
        /\ forsaken' = forsaken \cup Unheard(n, c, Head(inbox[e]))
        /\ NodeDid(n, NodeHandler(node[n], c, Head(inbox[e])), Received(e))

----------------------------------------------------------------------------
UserNext(l) ==
    \/ \E x \in TerminalNames[l] : NewTerminal(l, x)
    \/ \E x \in BindingNames[l], b \in Members : NewBinding(l, x, b)
    \/ \E s \in Sides : \E id \in DOMAIN leaf[l][s].elem : DestroyObject(l, s, id)
    \/ \E id \in DOMAIN leaf[l]["Terminal"].elem : Publish(l, id) \/ Scatter(l, id)
    \/ \E op \in DOMAIN leaf[l].ops.scatters.elem : CancelScatter(l, op)
    \/ \E key \in leaf[l].ops.open : Respond(l, key)

LeafNext(l) == StartLeaf(l) \/ EndLeaf(l) \/ ReceiveLeaf(l) \/ UserNext(l)

NodeNext(n, c) == StartNode(n, c) \/ EndNode(n, c) \/ ReceiveNode(n, c)

Next ==
    \/ \E k \in Links : Connect(k)
    \/ \E l \in Leafs : LeafNext(l)
    \/ \E e \in Ends : e[1] \in Nodes /\ NodeNext(e[1], e[2])

Spec == Init /\ [][Next]_vars

----------------------------------------------------------------------------
(* Properties.                                                             *)

\* Leaf q is reached from the other side of end e.
Behind(e, q) ==
    /\ Up(e)
    /\ \A S \in SUBSET (Peers \ {e[1]}) :
          e[2] \in S /\ (\A f \in Ends : Up(f) /\ f[1] \in S /\ f[2] # e[1] => f[2] \in S)
              => q \in S

\* The values the variables can have.
TypeOK ==
    /\ DOMAIN leaf = Leafs
    /\ \A l \in Leafs : IsLeaf(leaf[l])
    /\ DOMAIN node = Nodes
    /\ \A n \in Nodes : /\ \A t \in Range(node[n].terminals.elem) : IsTerminalInfo(t)
                        /\ \A b \in Range(node[n].bindings.elem) : IsBindingInfo(b)
                        /\ node[n].conns \subseteq Peers /\ node[n].known \subseteq Identifiers
                        /\ \A op \in Range(node[n].ops.elem) : IsOperation(op)
    /\ conn \in [Ends -> {"none", "new", "started"}]
    /\ inbox \in [Ends -> Seq(Message \cup DataMessage)]
    /\ topics \in Seq(Identifiers) /\ audience \subseteq Leafs /\ forsaken \subseteq 1..Len(topics)
    /\ heard \in [Leafs -> Seq([name : Identifiers, data : 1..Len(topics), cached : BOOLEAN])]
    /\ lost \in Seq(Unreliable) /\ Len(lost) \leq MaxLosses /\ acts \in 0..MaxOperations
    /\ failed \in BOOLEAN

\* No YOGI_ASSERT, YOGI_NEVER_REACHED or dereferenced end iterator of
\* NodeLogicBaseT, LeafLogicBaseT and MappedObjectFsm is reached.
NoAssertionFails == ~failed

\* The two registers of a node point at each other: an entry that names its
\* counterpart is named by it, and entries found under one identifier are linked.
AssociationsMutual ==
    \A n \in Nodes :
        LET ts == node[n].terminals
            bs == node[n].bindings
        IN  /\ \A id \in DOMAIN ts.elem :
                  LET b == ts.elem[id].binding
                  IN  b # NoId => Used(bs, b) /\ bs.elem[b].terminal = id
            /\ \A b \in DOMAIN bs.elem :
                  LET id == bs.elem[b].terminal
                  IN  /\ Visible(ts, bs.elem[b].identifier) = IF id = NoId THEN {} ELSE {id}
                      /\ id # NoId => ts.elem[id].binding = b

\* Once the network is quiet the owners that a node knows of a terminal are the
\* neighbours that have it or lead to a leaf that has it, no entry of a terminal
\* that is gone stays behind, and m_knownTerminalsChangedFn has been told of every
\* one that is gone.
OwnersTracked ==
    Quiet => \A n \in Nodes :
        LET reg == node[n].terminals
        IN  /\ \A id \in DOMAIN reg.elem : ~reg.elem[id].hidden
            /\ \A x \in node[n].known : Visible(reg, x) # {}
            /\ \A e \in Ends, x \in Identifiers :
                  e[1] = n =>
                      (\E id \in Visible(reg, x) : e[2] \in DOMAIN owners(reg.elem[id], e[2]))
                    = (\E l \in Leafs : Behind(e, l) /\ Has(l, "Terminal", x))

RemoteTerminal(l, x) == \E k \in Leafs \ {l} : Reaches(l, k) /\ Has(k, "Terminal", x)

Bound(l, x) == \E id \in Visible(leaf[l]["Binding"], x) : leaf[l]["Binding"].elem[id].established

\* A binding of a quiet network is established only if another leaf that is
\* reached has the terminal.
NoFalseBinding ==
    Quiet => \A l \in Leafs : \A x \in Identifiers : Bound(l, x) => RemoteTerminal(l, x)

\* ... and it is established if there is one.
NoMissedBinding ==
    Quiet => \A l \in Leafs : \A x \in Identifiers :
                 Has(l, "Binding", x) /\ RemoteTerminal(l, x) => Bound(l, x)

\* Both: the bindings of a quiet network say what there is, however the terminals,
\* their owners and the connections came and went.
BindingsExact == NoFalseBinding /\ NoMissedBinding

Subscribed(l, x) ==
    \E id \in Visible(leaf[l]["Terminal"], x) : leaf[l]["Terminal"].elem[id].established

\* A terminal of a quiet network is subscribed to if some other leaf that is
\* reached has a binding to it, and not if there is none: nobody is missed and
\* nothing is sent that nobody listens to (SubscribableNodeLogicBaseT).
SubscriptionsExact ==
    Quiet /\ Subscribable => \A l \in Leafs, x \in Identifiers :
        Has(l, "Terminal", x) => (Subscribed(l, x) <=> Listeners(l, x) # {})

\* What is published in a quiet network reaches all that listen, once, and
\* through a binding to the terminal it was published with, whatever happens
\* before and after.
DataArrives ==
    /\ \A l \in Leafs : \A i, j \in 1..Len(heard[l]) :
          /\ heard[l][i].name = topics[heard[l][i].data]
          /\ heard[l][i] = heard[l][j] /\ ~heard[l][i].cached => i = j
    /\ Quiet => \A l \in audience : Len(topics) \in {heard[l][i].data : i \in 1..Len(heard[l])}

\* The answers that are on their way to a leaf.
Answers(l) == {m \in Range(inbox[EndOf(l)]) : m.type = "Gather"}

\* An operation lives as long as anything of it is outstanding, although its id is
\* used again at every hop.  What a leaf is about to receive names an operation
\* that it has not forgotten and answers what was scattered there.  And the flag
\* FINISHED is not passed on too early: what leaf l still owes an answer for has
\* not been finished where it was scattered, if the only connections that have
\* died are those of other leafs, which cannot have scattered it.
AnswersMatch ==
    \A l \in Leafs :
        /\ \A m \in Answers(l) : /\ Used(leaf[l].ops.scatters, m.id)
                                 /\ leaf[l].ops.scatters.elem[m.id].call = m.data
        /\ \A g \in leaf[l].ops.gathers :
              (\A i \in 1..Len(lost) :
                  \E k \in lost[i] \cap Leafs : k # l /\ topics[g.data] \notin TerminalNames[k])
              => \E k \in Leafs : \E op \in Range(leaf[k].ops.scatters.elem) : op.call = g.data

\* Nobody owes an answer to anything.
NothingOwed == \A l \in Leafs : leaf[l].ops.open = {}

\* The calls whose answers some user waits for.
Waiting == {op.call : op \in {o \in UNION {Range(leaf[l].ops.scatters.elem) : l \in Leafs} :
                                o.terminal # NoId}}

\* A scatter-gather operation completes once nobody owes an answer any more, except
\* those that a node had nobody to pass on to and those for which a node waits for
\* another node that it has no connection to any more.
OnlyForsakenHang == Quiet /\ NothingOwed => Waiting \subseteq forsaken

\* Caching terminals, if only one leaf has one: nobody hears old data after newer
\* data, and in a quiet network all that listen have heard what was published
\* last, even if it was published before they listened or were connected.
CacheCurrent ==
    Caching => \A l, k \in Leafs, x \in Identifiers :
        /\ \A i \in 1..(Len(heard[k]) - 1) : heard[k][i].data \leq heard[k][i + 1].data
        /\ Quiet /\ k \in Listeners(l, x) =>
              \A id \in Visible(leaf[l]["Terminal"], x) :
                  LET sent == leaf[l]["Terminal"].elem[id].sent
                  IN  sent # NoData => heard[k] # <<>> /\ heard[k][Len(heard[k])].data = sent
=============================================================================
