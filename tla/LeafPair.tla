------------------------------ MODULE LeafPair ------------------------------
(***************************************************************************)
(* Two Leafs connected to each other: Leaf.cpp over a connection that      *)
(* delivers in order (LocalConnection's strands, a TCP stream) until it    *)
(* dies, with LeafLogicBaseT doing the work on both ends.                  *)
(*                                                                         *)
(* The connection is made for both leafs at once (Leaf::on_new_connection) *)
(* but each end starts at its own time and learns of the death at its own  *)
(* time.  Messages to an end that has not started wait (deliver_msg spins  *)
(* while in STATE_REGISTRATION, a TCP end has not begun to receive);       *)
(* messages to an end that is gone are lost.                               *)
(***************************************************************************)
EXTENDS LeafLogic

CONSTANTS Leafs,            \* the two leafs
          TerminalNames,    \* TerminalNames[l]: identifiers l creates terminals for
          BindingNames,     \* BindingNames[l]: identifiers l creates bindings for
          MaxIds,           \* bound on the ids of a register
          MaxInFlight,      \* bound on the messages to a leaf when the user acts
          MaxConnections    \* bound on the connections made

ASSUME LeafsAssumption == \E a, b \in Leafs : a # b /\ Leafs = {a, b}
ASSUME NamesAssumption ==
    /\ TerminalNames \in [Leafs -> SUBSET Identifiers]
    /\ BindingNames  \in [Leafs -> SUBSET Identifiers]
\* The pair is about the mapping of terminals and bindings; nothing here calls
\* the operations of the scatter-gather kind, which Network models.
ASSUME PairAssumption == ~Scattering
ASSUME BoundsAssumption == MaxIds \in Nat /\ MaxInFlight \in Nat /\ MaxConnections \in Nat

VARIABLES leaf,      \* leaf[l]: the registers of leaf l
          conn,      \* conn[l]: what Leaf l knows of its connection
          inbox,     \* inbox[l]: messages on their way to leaf l
          made,      \* number of connections made so far
          failed     \* an assertion of the code has failed

vars == <<leaf, conn, inbox, made, failed>>

\* The remote end of either connection is a Leaf (connection.remote_is_node()).
RemoteIsNode == FALSE

Other(l) == CHOOSE k \in Leafs : k # l

Connected == \A l \in Leafs : conn[l] = "started"

Elements(l, s) == DOMAIN leaf[l][s].elem

Init ==
    /\ leaf   = [l \in Leafs |-> EmptyLeaf]
    /\ conn   = [l \in Leafs |-> "none"]
    /\ inbox  = [l \in Leafs |-> <<>>]
    /\ made   = 0
    /\ failed = FALSE

----------------------------------------------------------------------------
\* A message sent to an end that is gone is lost.
Deliverable(k, out) == IF conn[k] = "none" THEN <<>> ELSE out

\* Leaf l has run an operation with result r, called by its user.
UserStep(l, r) ==
    /\ leaf'   = [leaf EXCEPT ![l] = r.leaf]
    /\ inbox'  = [inbox EXCEPT ![Other(l)] = @ \o Deliverable(Other(l), r.out)]
    /\ failed' = (failed \/ ~r.ok)
    /\ UNCHANGED <<conn, made>>

RoomToSend(l) == Len(inbox[Other(l)]) < MaxInFlight

RoomForId(l, s) == leaf[l][s].free # <<>> \/ leaf[l][s].size < MaxIds

NewTerminal(l, x) ==
    /\ RoomToSend(l) /\ RoomForId(l, "Terminal")
    /\ Visible(leaf[l]["Terminal"], x) = {}
    /\ UserStep(l, Create(leaf[l], "Terminal", x, {}, conn[l] = "started"))

NewTerminalAmbiguous(l, x) ==
    /\ RoomForId(l, "Terminal")
    /\ Visible(leaf[l]["Terminal"], x) # {}
    /\ UserStep(l, CreateAmbiguous(leaf[l], "Terminal"))

DestroyTerminal(l, id) ==
    /\ RoomToSend(l)
    /\ ~leaf[l]["Terminal"].elem[id].hidden
    /\ UserStep(l, Destroy(leaf[l], "Terminal", id, conn[l] = "started"))

\* Binding objects are created once at a time.
Unbound(l, b) == \A id \in Elements(l, "Binding") : b \notin leaf[l]["Binding"].elem[id].bindings

NewBinding(l, x, b) ==
    /\ RoomToSend(l) /\ RoomForId(l, "Binding") /\ Unbound(l, b)
    /\ Visible(leaf[l]["Binding"], x) = {}
    /\ UserStep(l, Create(leaf[l], "Binding", x, {b}, conn[l] = "started"))

NewBindingInGroup(l, x, b) ==
    /\ RoomForId(l, "Binding") /\ Unbound(l, b)
    /\ Visible(leaf[l]["Binding"], x) # {}
    /\ UserStep(l, JoinGroup(leaf[l], x, b))

DestroyBinding(l, id, b) ==
    /\ RoomToSend(l)
    /\ b \in leaf[l]["Binding"].elem[id].bindings
    /\ UserStep(l, IF leaf[l]["Binding"].elem[id].bindings = {b}
                     THEN Destroy(leaf[l], "Binding", id, conn[l] = "started")
                     ELSE LeaveGroup(leaf[l], id, b, conn[l] = "started"))

----------------------------------------------------------------------------
(* The connection.                                                         *)

\* Leaf::on_new_connection on both ends; it throws for an end that already
\* has a connection.
Connect ==
    /\ made < MaxConnections
    /\ \A l \in Leafs : conn[l] = "none"
    /\ conn'  = [l \in Leafs |-> "new"]
    /\ inbox' = [l \in Leafs |-> <<>>]
    /\ made'  = made + 1
    /\ UNCHANGED <<leaf, failed>>

Start(l) ==
    /\ conn[l] = "new"
    /\ LET r == on_connection_started(leaf[l], RemoteIsNode)
       IN  /\ leaf'   = [leaf EXCEPT ![l] = r.leaf]
           /\ inbox'  = [inbox EXCEPT ![Other(l)] = @ \o Deliverable(Other(l), r.out)]
           /\ failed' = (failed \/ ~r.ok)
    /\ conn' = [conn EXCEPT ![l] = "started"]
    /\ UNCHANGED made

\* Leaf::on_connection_destroyed; the logics are told only if they started.
Disconnect(l) ==
    /\ conn[l] # "none"
    /\ LET r == IF conn[l] = "started" THEN on_connection_destroyed(leaf[l])
                                       ELSE Result(leaf[l], <<>>, TRUE)
       IN  leaf' = [leaf EXCEPT ![l] = r.leaf] /\ failed' = (failed \/ ~r.ok)
    /\ conn'  = [conn EXCEPT ![l] = "none"]
    /\ inbox' = [inbox EXCEPT ![l] = <<>>]
    /\ UNCHANGED made

----------------------------------------------------------------------------
(* Leaf l handles the next message on its connection.                      *)
Receives(l, type) ==
    conn[l] = "started" /\ inbox[l] # <<>> /\ Head(inbox[l]).type = type

Handled(l, r) ==
    /\ leaf'   = [leaf EXCEPT ![l] = r.leaf]
    /\ inbox'  = [inbox EXCEPT ![l] = Tail(@),
                                ![Other(l)] = @ \o Deliverable(Other(l), r.out)]
    /\ failed' = (failed \/ ~r.ok)
    /\ UNCHANGED <<conn, made>>

ReceiveDescription(l) ==
    Receives(l, "Description") /\ Handled(l, OnDescription(leaf[l], Head(inbox[l]), RemoteIsNode))

ReceiveMapping(l) ==
    Receives(l, "Mapping") /\ Handled(l, OnMapping(leaf[l], Head(inbox[l]), RemoteIsNode))

ReceiveNoticed(l) ==
    Receives(l, "Noticed") /\ Handled(l, OnNoticed(leaf[l], Head(inbox[l]), RemoteIsNode))

ReceiveRemoved(l) ==
    Receives(l, "Removed") /\ Handled(l, OnRemoved(leaf[l], Head(inbox[l]), RemoteIsNode))

ReceiveRemovedAck(l) ==
    Receives(l, "RemovedAck") /\ Handled(l, OnRemovedAck(leaf[l], Head(inbox[l]), RemoteIsNode))

----------------------------------------------------------------------------
UserNext(l) ==
    \/ \E x \in TerminalNames[l] : NewTerminal(l, x) \/ NewTerminalAmbiguous(l, x)
    \/ \E id \in Elements(l, "Terminal") : DestroyTerminal(l, id)
    \/ \E x \in BindingNames[l], b \in Members :
           NewBinding(l, x, b) \/ NewBindingInGroup(l, x, b)
    \/ \E id \in Elements(l, "Binding"), b \in Members : DestroyBinding(l, id, b)

Receive(l) ==
    \/ ReceiveDescription(l) \/ ReceiveMapping(l) \/ ReceiveNoticed(l)
    \/ ReceiveRemoved(l)     \/ ReceiveRemovedAck(l)

Next ==
    \/ Connect
    \/ \E l \in Leafs : Start(l) \/ Disconnect(l) \/ Receive(l) \/ UserNext(l)

(***************************************************************************)
(* The scheduler's threads run what is posted to them: an end that has     *)
(* been connected starts, a message that has arrived is handled, and an    *)
(* end whose peer is gone learns of it (post_death, the TCP read error or  *)
(* the missing heartbeat).  Nothing makes the user act.                    *)
(***************************************************************************)
Fairness ==
    \A l \in Leafs :
        /\ WF_vars(Start(l))
        /\ WF_vars(Receive(l))
        /\ WF_vars(conn[Other(l)] = "none" /\ Disconnect(l))

Spec == Init /\ [][Next]_vars /\ Fairness

----------------------------------------------------------------------------
(* Properties.                                                             *)

\* The values the variables can have.
TypeOK ==
    /\ DOMAIN leaf = Leafs
    /\ \A l \in Leafs : IsLeaf(leaf[l])
    /\ conn \in [Leafs -> {"none", "new", "started"}]
    /\ inbox \in [Leafs -> Seq(Message)]
    /\ made \in Nat
    /\ failed \in BOOLEAN

\* No YOGI_ASSERT and no YOGI_NEVER_REACHED of MappedObjectFsm and
\* LeafLogicBaseT is ever reached with its condition false, whatever the order
\* in which the two ends create, destroy, connect, disconnect and receive.
NoAssertionFails == ~failed

\* An id is never given to a new object while the remote end still uses it:
\* the id to which the machine of a living object is mapped is that of a remote
\* element with the same identifier, visible or hidden.
NoStaleMapping ==
    Connected =>
        \A l \in Leafs, s \in Sides : \A id \in Elements(l, s) :
            LET e == leaf[l][s].elem[id]
                r == leaf[Other(l)][Opposite(s)]
            IN  is_mapped(e.fsm) =>
                    /\ Used(r, e.fsm.mapped)
                    /\ r.elem[e.fsm.mapped].identifier = e.identifier

\* Once every message has been handled the two ends agree: nothing is hidden,
\* and a terminal and a remote group of bindings with the same identifier are
\* mapped to each other.
Agreement ==
    (Connected /\ \A l \in Leafs : inbox[l] = <<>>) =>
        \A l \in Leafs, s \in Sides : \A id \in Elements(l, s) :
            LET e       == leaf[l][s].elem[id]
                matches == Visible(leaf[Other(l)][Opposite(s)], e.identifier)
            IN  /\ ~e.hidden /\ e.fsm.skip = 0
                /\ IF matches = {} THEN e.fsm.state = "UNUSED_CONFIRMED"
                   ELSE e.fsm.state = "MAPPED_CONFIRMED" /\ {e.fsm.mapped} = matches

\* What the user sees of a group of bindings is what its machine knows: all of
\* its bindings are ESTABLISHED while it is mapped on a live connection and all
\* are RELEASED otherwise.
BindingStates ==
    \A l \in Leafs : \A id \in Elements(l, "Binding") :
        LET e == leaf[l]["Binding"].elem[id]
        IN  ~e.hidden =>
              /\ e.established = (conn[l] = "started" /\ is_mapped(e.fsm))
              /\ e.published = IF e.established THEN e.bindings ELSE {}

\* A register neither loses an id nor gives it out twice, also when an
\* insertion fails or hidden entries are erased at the end of a connection.
IdsConserved ==
    \A l \in Leafs, s \in Sides :
        LET r == leaf[l][s]
        IN  /\ Cardinality(DOMAIN r.elem) + Len(r.free) = r.size
            /\ DOMAIN r.elem \cup FreeIds(r) = 1..r.size

\* A destroyed object does not keep its id for ever: its hidden entry is erased.
HiddenErased ==
    \A l \in Leafs, s \in Sides, id \in 1..MaxIds :
        LET hidden == id \in Elements(l, s) /\ leaf[l][s].elem[id].hidden
        IN  hidden ~> ~hidden

\* A binding whose terminal stays on the other end of a connection that stays
\* up ends up, and stays, established.
EventuallyEstablished ==
    \A l \in Leafs : \A x \in BindingNames[l] :
        LET present == /\ Connected
                       /\ Visible(leaf[l]["Binding"], x) # {}
                       /\ Visible(leaf[Other(l)]["Terminal"], x) # {}
            bound   == \E id \in Visible(leaf[l]["Binding"], x) :
                           leaf[l]["Binding"].elem[id].established
        IN  (<>[]present) => (<>[]bound)
=============================================================================
