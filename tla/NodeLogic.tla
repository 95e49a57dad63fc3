----------------------------- MODULE NodeLogic -----------------------------
(***************************************************************************)
(* What a Node does with the terminals and bindings of one kind that it    *)
(* learns of from its connections:                                         *)
(* yogi-core/src/core/common/NodeLogicBaseT.hpp.  The functions run under  *)
(* the mutex of the logic, so each is one step of the modules that use     *)
(* these operators.                                                        *)
(*                                                                         *)
(* A Node has an entry for every identifier under which some Leaf or Node  *)
(* has a terminal (an owner of the entry), and tells the Nodes it is       *)
(* connected to (the users) about it.  It has an entry for every           *)
(* identifier to which some Leaf has bindings, and tells those Leafs when  *)
(* a terminal exists elsewhere.  Towards the owners of terminals the Node  *)
(* plays the part of the bindings in the mapping protocol of LeafLogic,    *)
(* towards users and the owners of bindings that of the terminals.         *)
(***************************************************************************)
EXTENDS SubscribableNodeLogic

OwnerState(t) ==
    LET l == Cardinality(DOMAIN t.leafs)
        n == Cardinality(DOMAIN t.nodes)
    IN  CASE l = 0 /\ n = 0 -> "AWAIT_ACKS"
          [] l = 0 /\ n = 1 -> "0_LEAFS_1_NODES"
          [] l = 0 /\ n > 1 -> "0_LEAFS_M_NODES"
          [] l = 1 /\ n = 0 -> "1_LEAFS_0_NODES"
          [] l > 1 /\ n = 0 -> "M_LEAFS_0_NODES"
          [] OTHER          -> "N_LEAFS_N_NODES"

Deserted(t) == DOMAIN t.leafs = {} /\ DOMAIN t.nodes = {} /\ DOMAIN t.users = {}

\* update_state: an entry without owners and users is erased.
update_state(node, id) ==
    LET t == node.terminals.elem[id]
    IN  IF Deserted(t)
          THEN [node EXCEPT !.terminals = Erase(@, id), !.known = @ \ {t.identifier}]
          ELSE [node EXCEPT !.terminals.elem[id].state = OwnerState(t)]

\* The machine of user c of terminal id has made step r.
UserStep(node, id, c, r) ==
    LET t == node.terminals.elem[id]
        n == [t EXCEPT !.users = IF r.alive THEN With(@, c, r.fsm) ELSE Without(@, c)]
        step == Outcome([node EXCEPT !.terminals = Put(@, id, n)],
                        SendTo(c, Messages("Terminal", id, t, r.out)), r.ok)
    IN  IF r.alive THEN step
        ELSE Then(step, LAMBDA m : on_terminal_user_removed(m, id, c))

\* Node c is told of terminal id.
Describe(node, id, c) == UserStep(node, id, c, reset(InitialFsm, FALSE))

\* The same for all nodes in S.
DescribeToAll(node, id, S) ==
    LET t     == node.terminals.elem[id]
        r     == reset(InitialFsm, FALSE)
        users == [c \in DOMAIN t.users \cup S |-> IF c \in S THEN r.fsm ELSE t.users[c]]
        description(c) == Description("Terminal", id, t.identifier)
    IN  Outcome([node EXCEPT !.terminals.elem[id].users = users], SendAll(S, description), TRUE)

\* update_users_for_abandoned_terminal
update_users_for_abandoned_terminal(node, id, exception) ==
    LET users == node.terminals.elem[id].users
        told  == {c \in DOMAIN users \ {exception} : ~destroyed(users[c])}
        tell(n, c) == UserStep(n, id, c, process_object_destroyed(n.terminals.elem[id].users[c]))
    IN  ForAll(node, InSomeOrder(told), tell)

----------------------------------------------------------------------------
(* remove_terminal_owner, from the point where owner c is erased.          *)

\* Node u is the last owner: it is told that this node does not own the terminal.
TellLastOwner(node, id) ==
    LET t == node.terminals.elem[id]
        u == CHOOSE c \in DOMAIN t.nodes : TRUE
    IN  CASE t.state # "0_LEAFS_1_NODES" -> Outcome(node, Nothing, TRUE)
          [] t.state = "0_LEAFS_1_NODES" /\ u \notin DOMAIN t.users -> Failure(node)
          [] t.state = "0_LEAFS_1_NODES" /\ u \in DOMAIN t.users /\ destroyed(t.users[u]) ->
                Outcome(node, Nothing, TRUE)
          [] OTHER -> LET r == process_object_destroyed(t.users[u])
                      IN  UserStep(node, id, u, [r EXCEPT !.ok = @ /\ r.alive])

\* The bindings that have lost their last terminal are released: those of the
\* leaf that alone has the terminal now, or all of them.
ReleaseBindings(node, id, c, bindingId) ==
    LET bd    == node.bindings.elem[bindingId]
        state == IF Used(node.terminals, id) THEN node.terminals.elem[id].state ELSE "AWAIT_ACKS"
        lost  == CASE state = "1_LEAFS_0_NODES" -> DOMAIN node.terminals.elem[id].leafs
                   [] state = "AWAIT_ACKS"      -> Leafs \ {c}
                   [] OTHER                     -> {}
    IN  Outcome(node, IF bindingId = NoId THEN Nothing
                      ELSE TellOwners(bd, lost, "Released"), TRUE)

EraseOwner(node, id, c) ==
    LET t    == node.terminals.elem[id]
        left == on_terminal_owner_removed([node EXCEPT !.terminals =
                    Put(@, id, SetOwners(t, c, Without(owners(t, c), c)))], id, c)
        abandoned(n) == update_users_for_abandoned_terminal(
                            disassociate([n EXCEPT !.terminals = Hide(@, id)], id), id, c)
        updated(n)   == Outcome(update_state(n, id), Nothing, TRUE)
        lastOwner(n) == IF Used(n.terminals, id) THEN TellLastOwner(n, id)
                        ELSE Outcome(n, Nothing, TRUE)
        release(n)   == ReleaseBindings(n, id, c, t.binding)
        finish(r)    == Then(Then(Then(r, updated), lastOwner), release)
    IN  CASE t.state \in {"1_LEAFS_0_NODES", "0_LEAFS_1_NODES"} -> finish(abandoned(left))
          [] t.state \in {"M_LEAFS_0_NODES", "0_LEAFS_M_NODES", "N_LEAFS_N_NODES"} ->
                finish(Outcome(left, Nothing, TRUE))
          [] OTHER -> Failure(node)

\* Without a broken connection the owner goes when its machine says so: a
\* removal that belongs to an earlier mapping is skipped.
remove_terminal_owner(node, id, c, broken) ==
    LET t    == node.terminals.elem[id]
        f    == owners(t, c)
        r    == process_rcvd_removed(f[c])
        step == Outcome([node EXCEPT !.terminals = Put(@, id, SetOwners(t, c, With(f, c, r.fsm)))],
                        SendTo(c, Messages("Binding", id, t, r.out)), r.ok)
        erase(n) == EraseOwner(n, id, c)
    IN  CASE broken /\ c \notin DOMAIN f  -> Outcome(node, Nothing, TRUE)
          [] broken /\ c \in DOMAIN f     -> EraseOwner(node, id, c)
          [] ~broken /\ c \notin DOMAIN f -> Failure(node)
          [] ~broken /\ c \in DOMAIN f /\ r.changes = <<>> -> step
          [] OTHER                        -> Then(step, erase)

----------------------------------------------------------------------------
(* A connection starts or ends.                                            *)

\* The ids of a register in the order of its iterators.
Ids(reg) == Ascending(DOMAIN reg.elem)

\* on_connection_started: a node is told what terminals there are.
connection_started(node, c) ==
    LET elem  == node.terminals.elem
        shown == IF c \in Nodes THEN {id \in DOMAIN elem : ~elem[id].hidden} ELSE {}
        r     == reset(InitialFsm, FALSE)
        told  == [id \in DOMAIN elem |->
                     IF id \in shown THEN [elem[id] EXCEPT !.users = With(@, c, r.fsm)] ELSE elem[id]]
        descriptions == [i \in 1..Cardinality(shown) |->
            LET id == Ascending(shown)[i] IN Description("Terminal", id, elem[id].identifier)]
    IN  Outcome([node EXCEPT !.terminals.elem = told, !.conns = @ \cup {c}],
                SendTo(c, descriptions),
                c \notin node.conns /\ \A id \in shown : c \notin DOMAIN elem[id].users)

\* A binding entry without owners is erased.
DropBindingOwner(node, b, c) ==
    LET left == [node EXCEPT !.bindings.elem[b].leafs = Without(@, c)]
        told == IF c \notin DOMAIN node.bindings.elem[b].leafs THEN Outcome(left, Nothing, TRUE)
                ELSE on_binding_owner_removed(left, b, c)
        erased(n) == IF DOMAIN n.bindings.elem[b].leafs # {} THEN n
                     ELSE [disassociate_binding(n, b) EXCEPT !.bindings = Erase(@, b)]
    IN  Then(told, LAMBDA n : Outcome(erased(n), Nothing, TRUE))

DropTerminalPeer(node, id, c) ==
    LET left   == [node EXCEPT !.terminals.elem[id].users = Without(@, c)]
        owner(n) == IF Used(n.terminals, id) THEN remove_terminal_owner(n, id, c, TRUE)
                    ELSE Outcome(n, Nothing, TRUE)
    IN  Then(on_terminal_user_removed(left, id, c), LAMBDA n : owner(update_state(n, id)))

\* on_connection_destroyed, for a connection that has started.
connection_destroyed(node, c) ==
    LET gone         == [node EXCEPT !.conns = @ \ {c}]
        binding(n, b) == DropBindingOwner(n, b, c)
        unbound      == ForAll(gone, Ids(node.bindings), binding)
        terminal(n, id) == DropTerminalPeer(n, id, c)
    IN  Then(unbound, LAMBDA n : ForAll(n, Ids(n.terminals), terminal))

----------------------------------------------------------------------------
(* The message handlers: message m has come from connection c.             *)

\* The entry of a register for identifier x, made if there is none.
FindOrInsert(reg, x, e) ==
    IF Visible(reg, x) = {} THEN Insert(reg, e) ELSE Grow(reg)

MachineOf(f, c) == IF c \in DOMAIN f THEN f[c] ELSE InitialFsm

\* Mutant: leafs are told as well.
Audience_All(node, t, c) ==
    CASE t.state = "JUST_CREATED"    -> node.conns \ {c}
      [] t.state = "0_LEAFS_1_NODES" -> DOMAIN t.nodes \ (DOMAIN t.users \cup {c})
      [] OTHER                       -> {}

\* The nodes that are told of a terminal with a new owner c: all others if the
\* entry is new, the node that was the only owner so far if there is one.
Audience(node, t, c) ==
    CASE t.state = "JUST_CREATED"    -> (node.conns \cap Nodes) \ {c}
      [] t.state = "0_LEAFS_1_NODES" -> DOMAIN t.nodes \ (DOMAIN t.users \cup {c})
      [] OTHER                       -> {}

\* Mutant: a second terminal under the same name does not reach the bindings.
NewlyBound_FirstOnly(t, c) == IF t.state = "JUST_CREATED" THEN Leafs \ {c} ELSE {}

\* The leafs whose bindings are established by new owner c: all others, or the
\* leaf that was the only owner so far.
NewlyBound(t, c) ==
    CASE t.state = "JUST_CREATED"    -> Leafs \ {c}
      [] t.state = "1_LEAFS_0_NODES" -> DOMAIN t.leafs \ {c}
      [] OTHER                       -> {}

(* The steps of the handler of a TerminalDescription, after r.             *)

\* Other nodes are told of the terminal.
Announce(r, id, t, c) == Then(r, LAMBDA n : DescribeToAll(n, id, Audience(n, t, c)))

Bind(r, id) == Then(r, LAMBDA n : Outcome(associate(n, id), Nothing, AssociationOk(n, id)))

\* The leafs with bindings to it are told.
Establish(r, id, t, c) ==
    LET told(n) == LET b == n.terminals.elem[id].binding
                   IN  IF b = NoId THEN Nothing
                       ELSE TellOwners(n.bindings.elem[b], NewlyBound(t, c), "Established")
    IN  Then(r, LAMBDA n : Outcome(n, told(n), TRUE))

\* The number of owners is updated and a new identifier reported as known.
UpdateOwners(r, id, t) ==
    Then(r, LAMBDA n : Outcome([update_state(n, id) EXCEPT
                                   !.known = IF t.state = "JUST_CREATED" THEN @ \cup {t.identifier}
                                             ELSE @],
                               Nothing, TRUE))

OwnerAdded(r, id, c, own) == Then(r, LAMBDA n : on_terminal_owner_added(n, id, c, own))

\* TerminalDescription
OnTerminalDescription(node, c, m) ==
    LET reg == FindOrInsert(node.terminals, m.identifier, NewTerminalInfo(m.identifier))
        id  == Find(reg, m.identifier)
        t   == reg.elem[id]
        r   == process_rcvd_description(MachineOf(owners(t, c), c), m.own)
        own == SetOwners(t, c, With(owners(t, c), c, r.fsm))
        mapped == Outcome([node EXCEPT !.terminals = Put(reg, id, own)],
                          SendTo(c, Messages("Binding", id, t, r.out)),
                          r.ok /\ t.state # "AWAIT_ACKS")
        all == UpdateOwners(Establish(Bind(Announce(mapped, id, t, c), id), id, t, c), id, t)
    IN  IF Len(r.out) = 2 THEN OwnerAdded(mapped, id, c, m.own)
        ELSE IF c \in DOMAIN owners(t, c) THEN all
        ELSE OwnerAdded(all, id, c, m.own)

\* TerminalMapping, from a user.
OnTerminalMapping(node, c, m) ==
    IF c \notin Nodes \/ ~Used(node.terminals, m.id) THEN Failure(node)
    ELSE LET t == node.terminals.elem[m.id]
             r == process_rcvd_mapping(MachineOf(t.users, c), m.own)
         IN  UserStep(node, m.id, c,
                 [r EXCEPT !.ok = @ /\ t.state # "JUST_CREATED" /\ Len(r.out) < 2])

\* TerminalRemoved, from an owner.
OnTerminalRemoved(node, c, m) ==
    IF ~Used(node.terminals, m.id) THEN Failure(node)
    ELSE remove_terminal_owner(node, m.id, c, FALSE)

\* Mutant: a user that has let go is not told of the terminal's new owners.
Redescribed_Never(t, c) == FALSE

\* A user that has acknowledged the removal is told again of a terminal that has
\* got other owners in the meantime.
Redescribed(t, c) ==
    \/ t.state \in {"0_LEAFS_M_NODES", "1_LEAFS_0_NODES", "N_LEAFS_N_NODES", "M_LEAFS_0_NODES"}
    \/ t.state = "0_LEAFS_1_NODES" /\ c \notin DOMAIN t.nodes

\* TerminalRemovedAck, from a user.
OnTerminalRemovedAck(node, c, m) ==
    LET t == node.terminals.elem[m.id]
        r == process_rcvd_removed_ack(t.users[c])
        update(n) == Outcome(update_state(IF Deserted(n.terminals.elem[m.id])
                                            THEN disassociate(n, m.id) ELSE n, m.id),
                             Nothing, TRUE)
        step == IF Redescribed(t, c) THEN Describe(node, m.id, c) ELSE UserStep(node, m.id, c, r)
    IN  IF \/ c \notin Nodes \/ ~Used(node.terminals, m.id)
           \/ c \notin DOMAIN t.users \/ t.state = "JUST_CREATED" THEN Failure(node)
        ELSE Then(step, update)

\* BindingDescription
OnBindingDescription(node, c, m) ==
    LET x   == m.identifier
        reg == FindOrInsert(node.bindings, x, NewBindingInfo(x))
        b   == Find(reg, x)
        bd  == reg.elem[b]
        r   == process_rcvd_description(MachineOf(bd.leafs, c), m.own)
        mapped == Outcome([node EXCEPT !.bindings =
                              Put(reg, b, [bd EXCEPT !.leafs = With(@, c, r.fsm)])],
                          SendTo(c, Messages("Terminal", b, bd, r.out)), r.ok)
        bind(n) == Outcome(associate_binding(n, b), Nothing, TRUE)
        establish(n) ==
            LET id    == n.bindings.elem[b].terminal
                t     == n.terminals.elem[id]
                alone == t.state = "1_LEAFS_0_NODES" /\ DOMAIN t.leafs = {c}
            IN  Outcome(n, IF id = NoId \/ alone THEN Nothing
                           ELSE SendTo(c, <<Told("Established", m.own)>>), TRUE)
        remapped(n) == on_binding_owner_remapped(n, b, c, m.own)
        added(n)    == on_binding_owner_added(n, b, c, m.own)
    IN  IF c \in Nodes THEN Failure(node)
        ELSE IF Len(r.out) = 2 THEN Then(mapped, remapped)
        ELSE Then(Then(Then(mapped, bind), establish), added)

\* BindingRemoved
OnBindingRemoved(node, c, m) ==
    LET bd == node.bindings.elem[m.id]
        r  == process_rcvd_removed(bd.leafs[c])
        n  == [node EXCEPT !.bindings.elem[m.id].leafs[c] = r.fsm]
    IN  IF ~Used(node.bindings, m.id) \/ c \notin DOMAIN bd.leafs THEN Failure(node)
        ELSE Then(Outcome(n, SendTo(c, Messages("Terminal", m.id, bd, r.out)), r.ok),
                  LAMBDA k : IF is_mapped(r.fsm) THEN Outcome(k, Nothing, TRUE)
                             ELSE DropBindingOwner(k, m.id, c))
=============================================================================
