-------------------------- MODULE MappedObjectFsm --------------------------
(***************************************************************************)
(* The finite state machine by which each side of a connection tracks the  *)
(* mapping of one of its objects (a terminal or a group of bindings) to    *)
(* the matching object of the remote side:                                 *)
(* yogi-core/src/core/common/MappedObjectFsm.hpp.                          *)
(*                                                                         *)
(* Every process_... member function becomes an operator that maps the     *)
(* machine to a result: the machine afterwards, the messages handed to the *)
(* send callbacks in the order of the calls, the arguments of the calls of *)
(* the mapping-state-changed callback, whether the machine is still alive  *)
(* (the return value of the function) and whether every YOGI_ASSERT on the *)
(* path holds.  YOGI_NEVER_REACHED is an assertion that fails.             *)
(***************************************************************************)
EXTENDS Naturals, Sequences

\* base::Id: numbers start at 1; the default constructed id is invalid.
NoId == 0

States == {"UNUSED_UNCONFIRMED", "UNUSED_CONFIRMED", "MAPPED_UNCONFIRMED",
           "MAPPED_CONFIRMED", "AWAIT_ACK", "AWAIT_CONFIRMATION",
           "AWAIT_REMOVALS"}

Fsm == [state : States, skip : Nat, mapped : Nat]

InitialFsm == [state |-> "UNUSED_CONFIRMED", skip |-> 0, mapped |-> NoId]

is_mapped(f) == f.state \in {"MAPPED_UNCONFIRMED", "MAPPED_CONFIRMED"}

destroyed(f) == f.state \in {"AWAIT_ACK", "AWAIT_CONFIRMATION", "AWAIT_REMOVALS"}

----------------------------------------------------------------------------
(* A message the machine sends; id is the id the remote side gave to the   *)
(* object the message is about (NoId for a description, which names its    *)
(* target by identifier).                                                  *)
Out(type, id) == [type |-> type, id |-> id]

Step(f, out, changes) ==
    [fsm |-> f, out |-> out, changes |-> changes, alive |-> TRUE, ok |-> TRUE]

Dead(f) == [fsm |-> f, out |-> <<>>, changes |-> <<>>, alive |-> FALSE, ok |-> TRUE]

\* A failed assertion ends the process, so nothing after it takes place.
NeverReached(f) ==
    [fsm |-> f, out |-> <<>>, changes |-> <<>>, alive |-> TRUE, ok |-> FALSE]

Asserting(p, f, res) == IF p THEN res ELSE NeverReached(f)

To(f, state)         == [f EXCEPT !.state = state]
MapTo(f, state, id)  == [f EXCEPT !.state = state, !.mapped = id]
SkipOne(f)           == [f EXCEPT !.skip = @ - 1]
SkipOneMore(f)       == [f EXCEPT !.skip = @ + 1]

----------------------------------------------------------------------------
reset(f, hidden) ==
    IF hidden THEN Step(InitialFsm, <<>>, <<>>)
              ELSE Step(To(InitialFsm, "UNUSED_UNCONFIRMED"),
                        <<Out("Description", NoId)>>, <<>>)

process_object_destroyed(f) ==
    CASE f.state = "MAPPED_CONFIRMED" ->
            Step(To(f, "AWAIT_ACK"), <<Out("Removed", f.mapped)>>, <<>>)
      [] f.state = "UNUSED_CONFIRMED" /\ f.skip > 0 ->
            Step(To(f, "AWAIT_REMOVALS"), <<>>, <<>>)
      [] f.state = "UNUSED_CONFIRMED" /\ f.skip = 0 ->
            Dead(f)
      [] f.state \in {"MAPPED_UNCONFIRMED", "UNUSED_UNCONFIRMED"} ->
            Step(To(f, "AWAIT_CONFIRMATION"), <<>>, <<>>)
      [] OTHER -> NeverReached(f)

\* Mutant: the removal that is still to come for the old mapping is not counted.
process_rcvd_description_NoSkip(f, remoteId) ==
    CASE f.state = "UNUSED_UNCONFIRMED" ->
            Step(MapTo(f, "MAPPED_UNCONFIRMED", remoteId),
                 <<Out("Mapping", remoteId)>>, <<TRUE>>)
      [] f.state = "UNUSED_CONFIRMED" ->
            Step(MapTo(f, "MAPPED_CONFIRMED", remoteId),
                 <<Out("Mapping", remoteId)>>, <<TRUE>>)
      [] is_mapped(f) ->
            Step(MapTo(f, f.state, remoteId),
                 <<Out("RemovedAck", f.mapped), Out("Mapping", remoteId)>>,
                 <<FALSE, TRUE>>)
      [] OTHER -> NeverReached(f)

process_rcvd_description(f, remoteId) ==
    CASE f.state = "UNUSED_UNCONFIRMED" ->
            Step(MapTo(f, "MAPPED_UNCONFIRMED", remoteId),
                 <<Out("Mapping", remoteId)>>, <<TRUE>>)
      [] f.state = "UNUSED_CONFIRMED" ->
            Step(MapTo(f, "MAPPED_CONFIRMED", remoteId),
                 <<Out("Mapping", remoteId)>>, <<TRUE>>)
      [] is_mapped(f) ->
            Step(SkipOneMore(MapTo(f, f.state, remoteId)),
                 <<Out("RemovedAck", f.mapped), Out("Mapping", remoteId)>>,
                 <<FALSE, TRUE>>)
      [] OTHER -> NeverReached(f)

process_rcvd_mapping(f, remoteId) ==
    CASE f.state = "UNUSED_UNCONFIRMED" ->
            Step(MapTo(f, "MAPPED_CONFIRMED", remoteId), <<>>, <<TRUE>>)
      [] f.state = "MAPPED_UNCONFIRMED" ->
            Asserting(remoteId = f.mapped, f, Step(To(f, "MAPPED_CONFIRMED"), <<>>, <<>>))
      [] f.state = "AWAIT_CONFIRMATION" /\ f.mapped \in {NoId, remoteId} ->
            Step(MapTo(f, "AWAIT_ACK", remoteId), <<Out("Removed", remoteId)>>, <<>>)
      [] f.state = "AWAIT_CONFIRMATION" /\ f.mapped \notin {NoId, remoteId} ->
            Step(SkipOneMore(MapTo(f, "AWAIT_ACK", remoteId)),
                 <<Out("RemovedAck", f.mapped), Out("Removed", remoteId)>>, <<>>)
      [] OTHER -> NeverReached(f)

process_rcvd_noticed(f) ==
    CASE f.state = "UNUSED_UNCONFIRMED" ->
            Step(To(f, "UNUSED_CONFIRMED"), <<>>, <<>>)
      [] f.state = "MAPPED_UNCONFIRMED" ->
            Step(SkipOneMore(MapTo(f, "UNUSED_CONFIRMED", NoId)),
                 <<Out("RemovedAck", f.mapped)>>, <<FALSE>>)
      [] f.state = "AWAIT_CONFIRMATION" /\ f.mapped # NoId ->
            Step(SkipOneMore(MapTo(f, "AWAIT_REMOVALS", NoId)),
                 <<Out("RemovedAck", f.mapped)>>, <<>>)
      [] f.state = "AWAIT_CONFIRMATION" /\ f.mapped = NoId ->
            Dead(f)
      [] OTHER -> NeverReached(f)

process_rcvd_removed(f) ==
    CASE f.state = "UNUSED_CONFIRMED" ->
            Asserting(f.skip > 0, f, Step(SkipOne(f), <<>>, <<>>))
      [] f.state = "MAPPED_CONFIRMED" /\ f.skip > 0 ->
            Step(SkipOne(f), <<>>, <<>>)
      [] f.state = "MAPPED_CONFIRMED" /\ f.skip = 0 ->
            Step(MapTo(f, "UNUSED_CONFIRMED", NoId),
                 <<Out("RemovedAck", f.mapped)>>, <<FALSE>>)
      [] f.state = "AWAIT_ACK" /\ f.skip > 0 ->
            Asserting(f.mapped # NoId, f, Step(SkipOne(f), <<>>, <<>>))
      [] f.state = "AWAIT_ACK" /\ f.skip = 0 ->
            Asserting(f.mapped # NoId, f,
                   Step(MapTo(f, "AWAIT_ACK", NoId),
                        <<Out("RemovedAck", f.mapped)>>, <<>>))
      [] f.state = "AWAIT_REMOVALS" /\ f.skip > 1 ->
            Step(SkipOne(f), <<>>, <<>>)
      [] f.state = "AWAIT_REMOVALS" /\ f.skip \leq 1 ->
            Asserting(f.skip = 1, f, Dead(f))
      [] OTHER -> NeverReached(f)

\* Mutant: the entry is kept although the removal has been acknowledged.
process_rcvd_removed_ack_Kept(f) ==
    CASE f.state = "AWAIT_ACK" -> Asserting(f.skip = 0, f, Step(f, <<>>, <<>>))
      [] OTHER -> NeverReached(f)

process_rcvd_removed_ack(f) ==
    CASE f.state = "AWAIT_ACK" -> Asserting(f.skip = 0, f, Dead(f))
      [] OTHER -> NeverReached(f)
============================================================================
