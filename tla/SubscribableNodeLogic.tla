----------------------- MODULE SubscribableNodeLogic ------------------------
(***************************************************************************)
(* How a Node passes on who listens to a terminal, and what its owners     *)
(* publish: yogi-core/src/core/common/SubscribableNodeLogicBaseT.hpp,      *)
(* PublishSubscribeNodeLogicBaseT.hpp and                                  *)
(* cached_publish_subscribe/NodeLogic.hpp.                                 *)
(*                                                                         *)
(* The other Nodes that have subscribed (subscribers, with the id they     *)
(* gave to the terminal) and the Leafs that own bindings are interested in *)
(* a terminal.  An owner of the terminal is subscribed to as long as       *)
(* somebody else is interested in it.                                      *)
(*                                                                         *)
(* The operators on_... are the virtual functions that NodeLogic calls;    *)
(* terminals that nobody can subscribe to (deaf_mute) have empty ones.     *)
(***************************************************************************)
EXTENDS ScatterGatherNode

\* only_subscriber_or_binding_owner: no connection or one.
only_subscriber_or_binding_owner(node, t) ==
    IF Cardinality(Interested(node, t)) = 1 THEN Interested(node, t) ELSE {}

\* An assertion of the functions that look for interest besides a connection.
BindingIsOwned(node, t) == t.binding # NoId => BindingOwners(node, t) # {}

\* terminal_owner_fsm_mapped_id
OwnerId(t, c) == IF c \in DOMAIN owners(t, c) THEN owners(t, c)[c].mapped ELSE NoId

\* foreach_mapped_owner
MappedOwners(t) == {c \in DOMAIN t.leafs : is_mapped(t.leafs[c])}
                     \cup {c \in DOMAIN t.nodes : is_mapped(t.nodes[c])}

\* Subscribe or Unsubscribe for the owners among S.
TellTerminals(t, S, type) ==
    LET told(c) == [type |-> type, to |-> "Terminal", id |-> OwnerId(t, c)]
    IN  SendAll({c \in S : OwnerId(t, c) # NoId}, told)

\* unsubscribe_if_needed: what is sent when exception has lost its interest.
unsubscribe_if_needed(node, t, exception) ==
    IF Interested(node, t) = {}
      THEN TellTerminals(t, MappedOwners(t) \ {exception}, "Unsubscribe")
      ELSE TellTerminals(t, only_subscriber_or_binding_owner(node, t), "Unsubscribe")

\* remove_subscriber_if_needed
remove_subscriber_if_needed(node, id, c) ==
    LET t    == node.terminals.elem[id]
        left == [t EXCEPT !.subscribers = Without(@, c)]
        n    == [node EXCEPT !.terminals = Put(@, id, left)]
    IN  IF c \notin DOMAIN t.subscribers THEN Outcome(node, Nothing, TRUE)
        ELSE Then(Outcome(n, unsubscribe_if_needed(n, left, c),
                          only_subscriber_or_binding_owner(n, left) # {c}),
                  LAMBDA k : on_subscriber_removed(k, id, c))

\* Mutant: what was published before is kept for nobody.
CachedDataFor_Never(t, c, subscription) == Nothing

\* sendCachedData
CachedDataFor(t, c, subscription) ==
    IF Caching /\ t.cache # NoData
      THEN SendTo(c, <<Datum("CachedData", subscription, t.cache)>>) ELSE Nothing

----------------------------------------------------------------------------
(* Owners and users of terminals come and go.                              *)

\* on_terminal_owner_added and on_terminal_owner_remapped; own is the id that
\* owner c has given to the terminal.
on_terminal_owner_added(node, id, c, own) ==
    LET t == node.terminals.elem[id]
    IN  IF ~Subscribable THEN Outcome(node, Nothing, TRUE)
        ELSE Outcome(node,
                     IF Interested(node, t) \ {c} = {} THEN Nothing
                     ELSE SendTo(c, <<[type |-> "Subscribe", to |-> "Terminal", id |-> own]>>),
                     is_mapped(owners(t, c)[c]) /\ BindingIsOwned(node, t))

\* on_terminal_owner_removed: without owners there are no subscribers, and a
\* node that is the only owner is not one.
on_terminal_owner_removed(node, id, c) ==
    LET t    == node.terminals.elem[id]
        subs == CASE DOMAIN t.leafs # {} \/ Cardinality(DOMAIN t.nodes) > 1 -> DOMAIN t.subscribers
                  [] DOMAIN t.leafs = {} /\ DOMAIN t.nodes = {} -> {}
                  [] OTHER -> DOMAIN t.subscribers \ DOMAIN t.nodes
    IN  ForgetSource([node EXCEPT !.terminals.elem[id].subscribers = [p \in subs |-> @[p]]], id, c)

on_terminal_user_removed(node, id, c) ==
    Asserted(remove_subscriber_if_needed(node, id, c), c \notin DOMAIN node.terminals.elem[id].users)

----------------------------------------------------------------------------
(* Owners of bindings come and go.                                         *)

\* Mutant: the only listener so far does not learn that there is another one.
NewlyHeard_FirstOnly(node, t, bd, c) ==
    IF Interested(node, t) \subseteq {c} THEN MappedOwners(t) \ {c} ELSE {}

\* Mutant: the owners are told of every listener.
NewlyHeard_Always(node, t, bd, c) == MappedOwners(t) \ {c}

\* The owners of the terminal that the bindings of leaf c make somebody listen
\* to: all others if nobody else is interested, or the only other one.
NewlyHeard(node, t, bd, c) ==
    LET others == DOMAIN bd.leafs \ {c}
    IN  CASE Interested(node, t) \subseteq {c} -> MappedOwners(t) \ {c}
          [] Cardinality(DOMAIN t.subscribers) = 1 /\ others = {} -> DOMAIN t.subscribers
          [] DOMAIN t.subscribers = {} /\ Cardinality(others) = 1 -> others
          [] OTHER -> {}

on_binding_owner_added(node, b, c, own) ==
    LET bd == node.bindings.elem[b]
        t  == node.terminals.elem[bd.terminal]
    IN  IF ~Subscribable \/ bd.terminal = NoId THEN Outcome(node, Nothing, TRUE)
        ELSE Outcome(node,
                     Joined(TellTerminals(t, NewlyHeard(node, t, bd, c), "Subscribe"),
                            CachedDataFor(t, c, own)),
                     /\ BindingIsOwned(node, t)
                     /\ \A p \in DOMAIN t.subscribers \cap DOMAIN t.nodes :
                           DOMAIN bd.leafs = {c} => is_mapped(t.nodes[p]))

\* on_binding_owner_remapped: only the cache has something to say.
on_binding_owner_remapped(node, b, c, own) ==
    LET id == node.bindings.elem[b].terminal
    IN  Outcome(node, IF id = NoId THEN Nothing
                      ELSE CachedDataFor(node.terminals.elem[id], c, own), TRUE)

on_binding_owner_removed(node, b, c) ==
    LET id == node.bindings.elem[b].terminal
        t  == node.terminals.elem[id]
    IN  IF ~Subscribable \/ id = NoId THEN Outcome(node, Nothing, TRUE)
        ELSE Then(Outcome(node, unsubscribe_if_needed(node, t, c),
                          c \in Leafs /\ only_subscriber_or_binding_owner(node, t) # {c}),
                  LAMBDA n : on_subscriber_removed(n, id, c))

----------------------------------------------------------------------------
(* The messages of nodes that listen, and data from the owners.            *)

\* The owners that learn of the interest of node c: the only other one that is
\* interested, or all others if nobody is.
NewlySubscribed(node, t, c) ==
    LET only == only_subscriber_or_binding_owner(node, t) \ {c}
    IN  CASE only # {} -> only
          [] only = {} /\ DOMAIN t.subscribers = {} /\ t.binding = NoId -> MappedOwners(t) \ {c}
          [] OTHER -> {}

\* Subscribe
OnSubscribe(node, c, m) ==
    LET t    == node.terminals.elem[m.id]
        own  == t.users[c].mapped
    IN  IF \/ c \notin Nodes \/ ~Used(node.terminals, m.id)
           \/ c \in DOMAIN t.subscribers \/ c \notin DOMAIN t.users THEN Failure(node)
        ELSE IF ~is_mapped(t.users[c]) THEN Outcome(node, Nothing, TRUE)
        ELSE Outcome([node EXCEPT !.terminals.elem[m.id].subscribers = With(@, c, own)],
                     Joined(TellTerminals(t, NewlySubscribed(node, t, c), "Subscribe"),
                            CachedDataFor(t, c, own)), TRUE)

\* Unsubscribe
OnUnsubscribe(node, c, m) ==
    IF ~Used(node.terminals, m.id) THEN Failure(node)
    ELSE remove_subscriber_if_needed(node, m.id, c)

\* send_data_to_subscribers
ForwardData(node, t, c, m) ==
    LET copy(p) == Datum(m.type, SubscriptionOf(node, t, p), m.data)
    IN  Outcome(node, SendAll(Interested(node, t) \ {c}, copy), ReceiversMapped(node, t, c))

\* Data and CachedData, from an owner.
OnNodeData(node, c, m) ==
    LET n == IF Caching THEN [node EXCEPT !.terminals.elem[m.id].cache = m.data] ELSE node
    IN  IF ~Used(node.terminals, m.id) THEN Failure(node)
        ELSE ForwardData(n, n.terminals.elem[m.id], c, m)
=============================================================================
