# A TLA+ verification project for YOGI

YOGI is a messaging library: *Leafs* hold *Terminals* (named endpoints of a
type: publish-subscribe, scatter-gather, producer-consumer ...) and *Bindings*
(requests to be connected with terminals of a given name); *Nodes* route between
the Leafs of a network; *Connections*, inside a process or over TCP, carry the
messages. The library is `src/yogi-core`; everything else in the repository
(language bindings, the hub, the supervisor, the account manager, the web GUI)
is built on it. All file names below are relative to `src/yogi-core/src`.

Contents: [inventory](#inventory) · [modules](#modules) ·
[runs](#runs-and-what-they-show) · [fairness](#fairness) ·
[proofs](#what-is-proved) · [findings](#findings) ·
[not modelled](#what-is-not-modelled) · [plan](#plan)

To check a run: `tlc -config <cfg> <module>`; a proof: `tlapm <module>.tla`.
`PROJECT.json` lists the runs, the source lines every definition stands for, the
hazards, and for every property a mutation of the code that breaks it.

## Inventory

| Component | State | Operations | What makes it correct |
|---|---|---|---|
| `core/common/MappedObjectFsm.hpp` | one of seven states, the mapped remote id, a count of messages to skip | reset, object destroyed, received description / mapping / noticed / removed / removed-ack | no assertion is ever hit; both ends reach the same view |
| `base/IdentifiedObjectRegister.hpp` | elements by id and by identifier, stack of free ids | insert, hide, erase, find | no id lost or given out twice |
| `core/common/LeafLogicBaseT.hpp` | registers of terminals and of binding groups, the connection | new / destroyed terminal and binding, connection started / destroyed, ten message handlers | bindings are ESTABLISHED exactly while mapped; ids are not reused early |
| `core/Leaf.cpp` | the connection, whether it has started, nine logics | on_new_connection, on_connection_started, on_connection_destroyed, dispatch | the logics see matching starts and ends |
| `core/common/NodeLogicBaseT.hpp`, `core/Node.cpp` | known terminals, owners, users, binding groups per connection | the same handlers, for many connections | an established binding is told when its last terminal goes |
| `core/common/Subscribable*`, `core/publish_subscribe`, `core/cached_publish_subscribe`, `core/producer_consumer`, ... | subscription counts, cached messages | subscribe, unsubscribe, publish | no subscriber is missed, a late subscriber gets the cached value |
| `core/scatter_gather` | running operations, remaining answers | scatter, gather, cancel | every operation completes once all answers are in, and its id is not mixed up with another's |
| `core/BindingT.hpp`, `base/AsyncOperation.hpp` | the published state, two stored handlers and a count of running ones | async_get_state, async_await_state_change, cancel, publish_state, destructor | no change is missed; nothing runs after destruction; destruction ends |
| `api/PublicObjectRegister` | handles | create, destroy, get_s | a handle in use is not destroyed |
| `base/LockFreeRingBuffer.hpp` | an array, a read and a write index | write, read, front/pop, arrays for asynchronous transfers | a FIFO queue for one producer and one consumer without a lock |
| `connections/tcp/TcpConnection.cpp` | two ring buffers, five "running" flags, temporary buffers, two heartbeat counters | send, asynchronous send and receive, deserialize, timer, assign, await_death, destructor | messages arrive whole, once and in order; no wakeup is lost; it can be destroyed |
| `connections/tcp/TcpConnectionFactory.cpp`, `TcpClient.cpp`, `TcpServer.cpp` | a handshake per connection, an accept or connect operation | the handshake with its timer, accept, connect, cancel | the handler is called once, with a connection or an error |
| `connections/local/LocalConnection.cpp` | registration / running / closed, the number of posted functions | register, post, deliver, close | both ends learn of the end after they learnt of the start |
| `scheduling/MultiThreadedScheduler.cpp` | a thread pool | post, resize | everything posted runs |
| `serialization`, `messaging` | none | encode, decode | decoding inverts encoding |

**How they interact.** The user calls a Leaf's logic, which holds the Leaf's
mutex, changes its registers and calls `Connection::send`. A connection calls the
Leaf's message handlers on a thread of the scheduler, under the same mutex. The
logic publishes a binding's state by calling the binding, which calls the user's
handler with its own mutex held. A TCP connection moves bytes between its ring
buffers and the socket with asynchronous operations whose completions run on
scheduler threads; `send` blocks in the caller's thread until there is room.

**What is hard.** Both ends of a connection create and destroy objects while
descriptions, mappings and removals are on their way, so that every pair of
messages may cross, ids are reused and the connection may end and be made anew
at any point. The ring buffer has no lock. A TCP connection releases its mutex in
the middle of a message. `deserialize` decides to stop without the mutex. A
destructor runs while other threads call handlers that use the object. The
`hazards` of `PROJECT.json` list these places by line.

## Modules

| Module | Models | How |
|---|---|---|
| `MappedObjectFsm` | the machine | a pure operator per `process_*` function: from a machine to the new machine, the messages to send, the callbacks to make and whether an assertion failed |
| `IdentifiedObjectRegister` | the register | pure operators on `[size, free, elem]`; `free` is the stack of ids |
| `ScatterGatherLeaf` | `core/scatter_gather/LeafLogic.hpp` and the operations of its terminals | the scattered operations of a Leaf by id, and the answers it owes to others |
| `LeafLogic` | the logic of a Leaf | an operator per handler: from the registers of a Leaf to a result `[leaf, out, ok]`. The Terminal and Binding handlers of the code are textual twins; one operator serves both, with the side as a parameter |
| `SubscribableLeafLogic` | `core/common/SubscribableLeafLogicBaseT.hpp` and the Leaf logics of the publish-subscribe family | subscribe and unsubscribe messages of a Node, publishing, the cached message of a terminal |
| `LeafPair` | two Leafs and a connection | variables `leaf`, `conn`, `inbox`, `made`, `failed`; an action per user operation, connection event and kind of message |
| `MappingInvariant` | no code of its own | what holds between a register, the messages on their way to it and the remote register it maps to: the invariant of the mapping protocol, for the proofs about `LeafPair` |
| `NodeState` | the data of `core/common/NodeLogicBaseT.hpp` | terminals and binding groups with their owners and users, each with a `MappedObjectFsm` per connection; an outcome `[node, out, ok]`, where `out` gives the messages for every connection |
| `ScatterGatherNode` | `core/scatter_gather/NodeLogic.hpp` | operations by id, their source and the connections that owe an answer |
| `SubscribableNodeLogic` | `core/common/SubscribableNodeLogicBaseT.hpp`, the Node logics of the publish-subscribe family | who subscribes to which terminal, forwarding, the cache of a Node |
| `NodeLogic` | the logic of a Node | an operator per handler: from a Node, a connection and a message to an outcome; terminals and bindings are associated by identifier, and the virtual functions are those of the two modules above |
| `Network` | Leafs on Nodes that form a tree | variables `leaf`, `node`, `conn`, `inbox`, `lost`, `acts`, `failed`, and a record of what the users said and heard (`topics`, `heard`, `audience`, `forsaken`); an action per user operation, connection event and delivered message. `conn` and `inbox` are per end `<<p, q>>` of a link, so the two ends start and end at their own time |
| `FifoQueue` | what a ring buffer promises | a bounded queue: put and take several bytes at once |
| `LockFreeRingBuffer` | the ring buffer | a producer and a consumer, each with a program counter; an action per atomic load or store and per byte copied; refines `FifoQueue` |
| `SizeCoding` | `serialization/*_one.hpp` for `std::size_t` | encoding and decoding as operators, the base as a constant |
| `TcpConnection` | one direction of a TCP connection | `send` is an action up to each wait and from each wakeup; completions of socket operations take any number of bytes; `deserialize` is a step per access to the lock-free buffer. The buffers are the FIFO queues `LockFreeRingBuffer` refines |
| `TcpLifetime` | a TCP connection from `assign` to its destructor | buffers are counts of parts; two threads in `send`, the operations on the socket, `deserialize`, the timer, `await_death` and the destructor. A thread that waits on `m_cv` goes on only after a `notify_all` (`notified`), so a missing one shows |
| `TcpConnectionFactory` | `TcpConnectionFactory.cpp`, `TcpClient.cpp`, `TcpServer.cpp` | one object, client or server: what is pending on the socket and on the timer, the flags, the handler of every call and the thread that destroys the object; an action per completion, timer event, step of a handler and operation of the user |
| `AsyncOperation` | arm, fire, await_idle | operators on `[stored, running]`, one per critical section |
| `Binding` | `BindingT`, three threads | a program counter for the Leaf's logic, a scheduler thread and the user; an action per critical section |

The modules of the routing extend each other in the order `ScatterGatherLeaf`,
`LeafLogic`, `SubscribableLeafLogic`, `NodeState`, `ScatterGatherNode`,
`SubscribableNodeLogic`, `NodeLogic`, `Network`, which is the order in which the
classes call each other. The constant `Kind` says which terminals a network has:
`deaf_mute` (only the mapping), `publish_subscribe`, `cached_publish_subscribe` or
`scatter_gather`; all the other types of the library derive from these. `LeafPair`
has deaf-mute terminals (`PairAssumption`), and both ends of its connection are Leafs
(`RemoteIsNode`).

`MCLeafPair`, `MCNetwork`, `MCLockFreeRingBuffer` and `MCTcpConnection` give
the constants their values; `Binding`, `TcpConnectionFactory` and `TcpLifetime` need
no such module. `LockFreeRingBuffer_proofs`, `TcpConnection_proofs`, `Binding_proofs`,
`TcpConnectionFactory_proofs`, `TcpLifetime_proofs`, `LeafPair_proofs`,
`MappingInvariant_proofs` and `Network_proofs` hold the theorems. A definition
whose name continues another one's after an underscore (`Create_Silent`) and whose
comment begins with *Mutant* is a deliberately wrong version of it, used to show
that a property can fail.

Data are abstracted: identifiers and bindings are model values, a message is a
record of its kind and ids, published data are the number of the publication,
bytes are numbers below `2 * Radix`. Where a conversion matters (sizes on the wire,
which is what frames the stream) it is computed as in the code.

## Runs and what they show

| Run | Configuration | Shows |
|---|---|---|
| `leafpair_churn` | two names, two bindings per group, two ids a side, two messages in flight, two connections; names and bindings are symmetric | `NoAssertionFails`, `Agreement`, `IdsConserved`, `BindingStates`, `NoStaleMapping`: whatever crosses, no assertion fails, the ends agree when the network is quiet, bindings publish what the mapping is, no id is lost or reused early |
| `leafpair_liveness` | one name, one binding, one message in flight, one connection | `HiddenErased`, `EventuallyEstablished` |
| `network_tee` | three Leafs on two Nodes, publish-subscribe terminals of one name on all, bindings on two; four user operations, one loss of the connection between the Nodes | `NoAssertionFails`, `AssociationsMutual`, `OwnersTracked`, `BindingsExact`, `SubscriptionsExact`: in a quiet network every Node knows exactly which neighbours lead to the terminal and reports no terminal that is gone, a binding is established exactly if another Leaf has the terminal, and a terminal is subscribed to exactly if another Leaf listens |
| `network_cached` | the same tree, a caching terminal on one Leaf, bindings on the two others; three operations, two publications, one loss (of the source's connection or between the Nodes) | `DataArrives`, `CacheCurrent`: what is published in a quiet network reaches all that listen, once; nobody hears old data after new data, and a late or reconnected listener ends up with what was published last |
| `network_scatter` | three Leafs on a Node, one scatters twice, two answer, refuse, answer late or drop their binding, one of them may lose its connection; cancellation and destruction at any time | `NoAssertionFails`, `AnswersMatch`, `OnlyForsakenHang`: reused operation ids are never mixed up, FINISHED is not passed on while an answer is owed, and an operation completes unless the Node has nobody to ask |
| `network_rebind` | two Leafs on one Node, a binding created again before the removal of the first is acknowledged | violation, see [findings](#findings) |
| `ring_buffer` | an array of 4, chunks of up to 4 bytes | `AssertionsHold`, `SlotsDisjoint`, the refinement `IsFifo` |
| `tcp_flow` | three messages and a heartbeat, base 4, a send buffer that holds one message, 2 bytes on the wire and on the receiving end | `NoLostWakeup`, no overflow (`TypeOK`), `InOrderIfUndisturbed`, `EventuallyDeliveredIfRoom`: messages arrive whole and in order, and all of them if none had to wait for room. `SizesReadBack`: at the real base 128, numbers within 150 of 0, 2^7, 2^14, 2^21 and 2^28 are read back and no proper prefix is taken for a number |
| `tcp_long` | one message longer than the send buffer | violation, see [findings](#findings) |
| `tcp_setup` | a client or a server, two calls, either made by the user or by the handler of the other; a peer that answers, fails or is silent; cancellation and destruction at any time | `NothingLate`, `ConnectionsGenuine`, `SocketSettled`, `OperationsEnd`: whichever of timer and socket comes second completes the call and nothing is left to happen then; a connection is handed out exactly for a complete header; the socket is closed or handed over; calls and the destructor end |
| `tcp_life` | a send buffer of one part, a receive buffer of two messages, up to two parts of descriptions; two senders, a timer or none, death of any cause, destruction at any time | `CommunicatorReady`, `DeathTold`, `NothingAfterDestruction`, `DestroyReturns`, `SilenceNoticed`: messages come only between the start and the end the communicator is told of, whoever awaits the death is told, the destructor leaves nothing behind; it returns, and a silent peer is noticed, unless somebody waits for room for ever in one of the ways the properties name |
| `binding_follow` | 3 changes, 4 calls, handlers that may start the next wait | `RunningCounted`, `NoMissedChange`, `NothingAfterDestruction`, `DestroyReturnsUndisturbed` |

**Bounds.** Every bound is a constant that appears in a guard. Two ids a side let
an id be freed and reused while the other is in use; `MaxInFlight` bounds what the
users start and not what handlers answer, and two messages (three in `Network`) let
a description and its removal be under way while the other end describes its own
object, which is what the `skip` counter of the machine is for; two connections
cover a reconnection with old entries. In `Network` four operations create the
terminal, the binding and a second owner and destroy one of them; one loss cuts the
network while any of this is under way, and the link is made anew. `network_cached`
needs one operation less because it has one source; its two publications tell old
data from new. In `network_scatter` five operations create the three objects and
leave two for cancelling, destroying a binding or destroying a terminal, and two
scatters use an operation id again; its one message in flight bounds only what a
user starts while the Leaf has something under way, so the messages of different
Leafs still cross. `OneBindingAtATime` keeps the passing `Network` runs away
from the case that `network_rebind` shows. A ring of 4 has every position of the
two indices, full, empty and wrapped, and a chunk of 4 is longer than what fits. On
TCP the network and the receive buffer are smaller than a message, so every message
is cut at every place, and base 4 gives messages with sizes of one and of two bytes. Three state changes and
four calls let each of the three threads be anywhere while another one starts. In
`tcp_setup` a second call is what a late completion of the first could disturb; a
third one adds nothing (the run also passes with three, and the theorems hold for
any number). In `tcp_life` every message is longer than what is free, so each `send`
waits, also while the other thread or the heartbeat waits, and descriptions may not
fit; the run also passes with a send buffer of two parts and three of descriptions.

Deadlock is checked in the `leafpair` and `ring_buffer` runs. In the others the
system may come to rest: the operations of a `Network` are used up, all messages
are sent, the binding, client, server or connection is destroyed.

## Fairness

* `LeafPair`: an end that was connected starts, a message that has arrived is
  handled, an end whose peer is gone learns of it. These are functions posted to
  the scheduler or completions of socket operations. Users are never forced to
  act, and no connection is forced to be made or to stay.
* `TcpConnection`: an operation on the socket completes when bytes can be moved
  (boost::asio), what is posted runs, and a waiting thread is woken because every
  change it waits for is followed by `m_cv.notify_all()`. The user need not send;
  the timer need not fire.
* `TcpConnectionFactory`: completions that are due run, a timer that is not endless
  expires, handlers return and the thread in the destructor goes on. The peer may be
  silent for ever, and the user need not do anything.
* `TcpLifetime`: completions that are due, posted functions, expired timers, notified
  threads and the destructor go on. The destructor takes `m_receiveMutex` if it is
  free again and again (strong fairness): others hold it for a moment at a time, and
  the mutex is assumed not to starve a waiting thread for ever. The peer may be silent for
  ever, and take no data; nobody need send.
* `Network` has no fairness: only its safety is checked.
* `Binding`: handlers return, posted functions run, mutexes and conditions are
  granted. The state need not change and the user need not call.

But for that one action only weak fairness is used. The safety runs do not depend on it.

## What is proved

TLAPS proves the following for every value of the constants that meets the named
assumptions; TLC checks the same definitions on the instances above.

`LockFreeRingBuffer_proofs`, for every `MAX_SIZE >= 2` and any set of bytes:

* `TypeCorrect`, `AssertionsNeverFail`, `NoDataRace` and `Refinement` (the ring
  buffer implements `FifoQueue` with capacity `MAX_SIZE - 1`).
* The inductive invariant is `TypeOK`, the assertions, and for each thread what it
  knows in the middle of an operation: the number of bytes it may copy is at most
  what is free (stored) *now*, because the other thread only makes that number
  larger; and the bytes copied so far are in the slots from its index on. The
  index lemmas (`Available`, `FreeNotStored`, `AdvanceInjective` ...) state that
  free and stored slots partition the array with one slot left over.
* The refinement maps the queue to the bytes between the indices; only the store
  of an index is a step of the queue.

`TcpConnection_proofs`, for every base of the size encoding, all messages and all sizes
of the buffers:

* `WakeupsKept`: the receiving end never sleeps on unread data. `NoLostWakeup` is
  inductive as it stands; it includes that `on_receive_some_data_completed` is not
  between its commit and its check.
* `TypeCorrect`: no buffer overflows. The invariant `Typed` adds that the array of a
  pending receive is free (`RoomToReceive`) and that a waiting `send` has taken a message.
* `NumbersReadBack`: a number below `Capacity`, which five bytes hold, is read back as it
  was written. `deserialize_size` is a recursive function; the value it computes is found by
  `Induction` over a *set* of naturals, which follows from the least element of its
  complement (`Least`, from `WFMin`), so that no operator parameter is needed.
* `MessagesInOrder`: the messages arrive whole, once and in order. The invariant `FInv`
  says that all bytes ever written are a *tape* of frames, each of them a heartbeat or the
  next message (`Layout`), that the bytes still to be read (in `m_inBuffer`, on the network,
  in `m_outBuffer` and in the hands of a waiting `send`, `Unread`) are its end (`Carries`),
  and that `deserialize` is inside a size (`InSizeOf`) or inside the content
  (`InContentOf`) of the frame after the ones delivered (`Reads`). `Framed` says that such a
  tape exists: nothing in the state marks the frames, so where the reader stands in them is
  exactly what has to be argued. `send` and the heartbeat add a frame (`FrameWritten`), the
  socket moves bytes within `Unread` (`Quiet`), `deserialize` takes them from its front
  (`SizeRead`, `PayloadRead`, `MessageRead`). A disturbed `send` would put bytes on the tape
  that are no frame, which is what run `tcp_long` shows; `FInv` promises nothing then.

The assumption `SizesAssumption` of `TcpConnection`, that five bytes hold the type and the
size of each message, is below 32 GiB at base 128; the code writes the low 35 bits of a
larger size without a word.

`Binding_proofs`: `TypeCorrect`, `HandlersCounted`, `ChangesSeen`, `CleanDestruction`. The
invariant adds who holds `m_mutex`, that at most one function is posted and
`m_getStateActive` says so, that the state the user knows is the current one
except between the two halves of `publish_state`, and that an operation the
destructor has found idle stays idle. The last needs no assumption on handlers:
one that could still arm an operation is itself counted as running.

`TcpConnectionFactory_proofs`, for any set of calls: `TypeCorrect`,
`NoLateCompletion`, `OnlyGenuine` and `SocketsSettled`. None of the three properties
is inductive: each depends on which of timer and socket has come first. The
invariant says that at most one call is armed (`OneArmed`) and that it is in one of
four phases (`Phases`): before the handshake; in it with no result; the socket has
ended it and the cancelled or expired timer is still to report; or the timer has and
the cancelled operation on the socket is still to report. With it go what holds when
no call is armed (`Resting`), what is known of a call that has not ended
(`Untouched`), that the holder of `m_mutex` is a handler that runs (`HolderRuns`),
and that an object found idle by its destructor stays so (`IdleStays`).

`TcpLifetime_proofs`, for buffers of any size and any number of descriptions:
`TypeCorrect`, `CommunicatorsReady`, `DeathsTold` and `CleanDestruction`. The
invariant adds two parts. `Beginning`: as long as the connection is alive it has a
communicator from the moment anything runs on the socket, and receives only after that
has been told of the start; `CommunicatorReady` needs it because `deserialize` looks at
`m_alive` alone. `Ending`: what each step of the destructor has established stays true;
`NothingAfterDestruction` needs it because the two waits at the end look at different
flags under different mutexes, so that those of the first must still be down after the
second.

`LeafPair_proofs`, for any names, bindings, number of ids, of messages and of
connections: `TypeCorrect`, `IdsAreConserved` and `BindingsShowTheMapping`. The
invariant `IInv` speaks of each end alone and assumes nothing of the messages but
their form, so the three hold whatever the other end sends:

* every register is sound, that is well-formed and `Conserved`: the stack of free ids
  has no repetitions and is disjoint from the ids in use, and the two together are
  `1..size`. `IdsConserved` only counts, and a count alone is not inductive: an id
  that is on the stack twice would be counted for one that is lost;
* every visible group of bindings `Shows` what its machine knows. The step lemmas
  (`DescriptionSteps`, `MappingSteps`, ...) go through every case of the machine and
  state that it is `Legal`: the last callback it makes says whether it is mapped
  afterwards, and without a callback that has not changed. `AllChangedEntry` follows
  the callbacks of one step through the entry, `EvaluateGood` puts that into the
  register.

The second half of `LeafPair_proofs`, for the same constants, is what relates the two ends:
`AssertionsHold`, `MappingsAreNeverStale` and `EndsAgree`. None of the three is
inductive, because an assertion fails on a message that was sent several steps earlier,
when the other end was in a different state. The invariant therefore speaks of the two
registers *and* the messages between them. `MappingInvariant` states it for one pair, the
terminals of one Leaf and the groups of bindings of the other, in these parts:

* descriptions and replies: every unconfirmed element has exactly one description on
  its way out or one reply on its way in, and a reply comes before anything else that
  is said about the element (`DescriptionsPending`, `ReplyComing`, `Once`, `RepliesFirst`);
* mappings: an element *holds* a remote one if it is mapped to it or will be by a
  message under way. Two elements hold each other unless one of them has acknowledged
  the removal of the other (`Mutual`), and what is held exists (`PartnersLive`);
* the count of removals: those under way to an element and those its partners have
  still to send are as many as the element expects, that is its `skip` counter plus what it
  holds. An acknowledgement shifts the count by one until it is handled (`Counted`,
  with the cases `AckedEarly` and `Crossed`). This is the part without which neither
  the assertions about `skip` nor the reuse of ids can be argued;
* order: of several objects of one identifier that were created one after the other,
  an end hears in the order of their creation (`LatestFollows`, `MappingsFollow`,
  `RepliesInOrder`, `RemovalsInOrder`).

`MappingInvariant_proofs` shows, with one lemma per event (an element is created,
hidden, described, mapped, confirmed, released, acknowledged, erased ...), that each event
at either end keeps the invariant of the pair. `LeafPair_proofs` finds the two pairs in
a state of `LeafPair`: `Window` takes from an inbox the messages for one side, and
`Views` says what is left of the invariant when an end is gone or has not started
yet. TLC checked the invariant on small instances of `LeafPair` before it was proved.
The lemmas about the machine and the registers come from the first half.

`Network_proofs`, for every finite set of Leafs and Nodes, all links, names and kinds of
terminals, any number of steps: `AssociationsAreMutual`. A Node keeps terminals and
bindings in two registers that name each other's entries by id, every handler changes
both, and an id is given out again once its entry is erased, so one forgotten
`disassociate` would let a binding name somebody else's terminal. The inductive
invariant is `Settled`, of each Node on its own, in these parts:

* the registers are orderly: no id is used and free at once, or free twice
  (`Orderly`), so that a new entry never gets the id of an old one;
* at most one terminal that is not hidden and one binding have an identifier
  (`OneTerminal`, `OneBinding`), an entry that names a counterpart is named by it and has
  its identifier (`TerminalsLinked`, `BindingsLinked`), and entries found under one
  identifier are linked (`AllLinked`);
* a terminal is hidden exactly if it has no owners left, and else its `state` says how many
  there are (`OwnedWell`). Without this part the rest is not inductive:
  `remove_terminal_owner` looks at `state` to decide whether an entry is hidden and
  disassociated, `update_state` at the owners to decide whether it is erased, and an entry
  erased while it is linked would leave a binding behind that names nothing.

Nothing is assumed of the messages that arrive, so neither the other peers nor the order of
delivery matter, and as a handler that fails an assertion stops between two of its
steps, the proof has to show that each of the places where it can stop is settled
(`StopsSettled`, `StepsFail`). Inside a handler the entry that is worked on is out of
place; `Fits(nd, X, Y, Z)` is `Settled` but for the links of the terminals in `X` and
bindings in `Y` and the owners of the terminals in `Z`. Most handlers touch neither owners nor
associations (`SameLinks`). `connection_destroyed` goes through all bindings and all
terminals that it found at its beginning and erases some of them on the way: `LoopFits`
shows by induction over the rounds that the entries still to be visited are still there
(`Pending`). `IsFiniteSet(Peers)` of `NetworkAssumption` makes the loops end. TLC checked
`Settled` on the three passing configurations of `MCNetwork` before it was proved.

The types of the ring buffer, `Binding`, `TcpConnectionFactory` and `TcpLifetime` are
proved and not part of a run.

Only model-checked: liveness (out of the prover's reach, like ENABLED) and, of `Network`, its
types, its assertions and what holds once it is quiet (`OwnersTracked`, `BindingsExact`,
`SubscriptionsExact`, `DataArrives`, `CacheCurrent`, `AnswersMatch`, `OnlyForsakenHang`). These
need an invariant of all the messages between the Nodes of a tree, of the kind
`MappingInvariant` is for one connection. `SizesReadBack` evaluates at base 128, around the numbers at which the
encoding grows, what `NumbersReadBack` proves of every base.

## Findings

Each is a run that TLC must find violated.

1. `tcp_long`: the predicates of the waits in `TcpConnection::send` write to the
   buffer and forget how much they wrote. A wakeup that makes room for a part of
   what is left writes that part, and the next one writes it again. The stream
   loses its framing. It needs a message that does not fit into what is free of the
   64 KiB send buffer; `tcp_flow` shows that messages that fit are delivered.
2. `network_rebind`: a binding is destroyed and created again before the Node has
   answered for the first time. The Node takes the second description for that of an
   owner it knows, acknowledges, maps and returns before the code that says
   `BindingEstablished`. The binding stays RELEASED until a terminal comes or goes.

Seen while modelling and written into the properties as exceptions:

* A heartbeat may be written into the middle of a message whose `send` waits for
  room (`TcpConnection.cpp:388`; `~mixed` in `InOrderIfUndisturbed`), and if the
  socket drains the buffer during such a wait the last bytes are written with no
  asynchronous send under way (`:554`; `EventuallyDeliveredIfRoom`).
* A handler that starts the next wait after the destructor's cancellation makes the
  destructor wait for the next event, for bindings (`BindingT.hpp:70`;
  `DestroyReturnsUndisturbed`) and for clients and servers (`NoLateRetry` in
  `OperationsEnd`).
* `on_connection_started` is called with `m_mutex` locked and sends the descriptions. If
  they do not fit into the send buffer, the wait releases the recursive mutex once and
  keeps it (`TcpConnection.cpp:119`): the connection, its timer and its destructor stand
  still (`stuck`; `DestroyReturns`, `SilenceNoticed`).
* A heartbeat that waits for room keeps the timer from being started again (`:388`), so
  a peer that is silent and takes no data is never timed out (`SilenceNoticed`), which
  the test `HeartbeatTimeout` expects of a silent peer.
* The destructor waits for `m_receiveMutex` while a message handler that answers waits
  for room with it (`:432`), that is for the peer (`DestroyReturns`).
* The last listener destroys its binding while a Scatter message is on its way: the
  Node has nobody to pass it on to and drops it without an answer (a TODO at
  `scatter_gather/NodeLogic.hpp:159` asks whether that is harmful), and the operation of
  the scattering user does not end before its terminal or its connection goes. These
  operations are the first kind of `forsaken` (`OnlyForsakenHang`).
* A Node that has unsubscribed but still owes an answer loses its connection: the
  Node that waits for the answer does nothing
  (`SubscribableNodeLogicBaseT.hpp:199`), although `yogi_core.h:297` promises
  `YOGI_SG_CONNECTIONLOST`. These operations are the second kind of `forsaken`.
* A Node reports a terminal as removed when a hidden old entry of it is erased, also
  if a new visible one exists, so of the reported terminals only one direction holds
  (the last part of `OwnersTracked`).

Also seen: operations whose terminal is gone stay in `m_scatterOperations` until the
answers come, and those of a Node whose source is gone until the responders answer,
even if these die; a cancelled operation is reported without
`YOGI_SG_FINISHED` (`Terminal.hpp:133`), unlike `yogi_core.h:1061` says;
`TcpConnectionFactory` keeps branches that cannot be reached (a result that is
already set when the last part of the header arrives or fails), which the model
keeps too; `m_canceled` and `m_shakingHands` are not initialised, so `Init` leaves
them open; a handshake that is cancelled may still report TIMEOUT; `assign` starts the
timer before the communicator may refuse the connection (`TcpConnection.cpp:485-492`),
so heartbeats may be sent before the communicator type.

## What is not modelled

* Weak memory: the ring buffer is checked under sequential consistency, while
  some of its loads are `memory_order_relaxed`.
* Memory exhaustion and other exceptions inside operations.
* On a `LeafPair` connection a message is lost only because the receiving end has
  ended the connection; that the stream in between is reliable is what
  `TcpConnection` and `LocalConnection` are for.
* In `Network`: cycles of Nodes; a second connection of a Leaf while the Node still
  has the first (to a Node that is another Leaf); several bindings in a group (see
  `LeafPair`); the asynchronous delivery of known-terminal reports, of which
  `NodeState` keeps the resulting set.
* Subscriptions and scatter-gather between two Leafs that are connected directly:
  there the mapping is the subscription, and the messages need no routing.
* The tasks of a scatter-gather terminal and the receive operations of all terminals
  (`fire_and_reload`, `disarm`): data count as heard when the terminal has them.
  `get_cache` only reads.
* Of `TcpConnection`: what the temporary buffers that two threads in `send` share then
  contain (a listed hazard; `TcpLifetime` has the two threads and not the bytes); death
  handlers that call the library, which they do with `m_mutex` held; a timer that
  cannot be set.
* `LocalConnection`'s count of posted functions and delayed death.
* In `TcpConnectionFactory`: timers that cannot be set up, and the exception of
  `remote_endpoint()` in a log line of `TcpServer.cpp`.
* `MultiThreadedScheduler`, whose threads are the fairness of the other modules, and
  most of `PublicObjectRegister`.
* The components marked `not_modelled` in `PROJECT.json`.

**Share of the repository.** The map names about 4,300 of 119,000 lines. The rest is
mostly not behaviour of its own: protobuf code generated for three programs, the
C++, Python and JavaScript bindings that pass calls on to the C API, a web
GUI, and the tests. Of the core library the logics of Leafs and Nodes, TCP
connections from set-up to destruction, the ring buffer and bindings are covered; the paragraphs above say
what is missing there. The hub is one `Node`, `TcpServer` and `TcpClient`s in a
process. The supervisor, the account manager and the GUI are applications whose
state is processes, a database and a screen.

## Plan

Done: the mapping protocol between two Leafs and through Nodes, the ring buffer with its
refinement, the TCP data path, asynchronous operations and bindings, in this order
because everything else stands on the mapping protocol and on the transport; then
what the mapping is for (subscriptions, caches, scatter-gather), and the set-up and the
life of TCP connections with their theorems.

Next, in this order:

1. `LocalConnection` with its posts and delayed death.
2. The tasks of scatter-gather terminals with `fire_and_reload` and `disarm`.
3. `PublicObjectRegister`, `MultiThreadedScheduler`.
4. An abstract specification of a connection (an ordered channel that may end)
   which the TCP data path and `LocalConnection` are shown to implement.

Also: that a `Network` settles (every quiet state is reached again), as a liveness
property.

Theorems to come: the assertions of a `Network`, from `MappingInvariant` for each of its
connections.
