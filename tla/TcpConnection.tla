--------------------------- MODULE TcpConnection ---------------------------
(***************************************************************************)
(* How messages travel over a TCP connection:                              *)
(* yogi-core/src/connections/tcp/TcpConnection.cpp.  One direction of a    *)
(* connection between two TcpConnection objects that have exchanged their  *)
(* communicator types and that nobody closes.                              *)
(*                                                                         *)
(* The sending object: send() writes a message to the ring buffer          *)
(* m_outBuffer and waits for room on m_cv, which releases m_mutex; so does *)
(* the heartbeat of the timer.  At most one asynchronous send empties the  *)
(* buffer into the socket.  The receiving object: at most one asynchronous *)
(* receive fills the ring buffer m_inBuffer and at most one deserialize()  *)
(* empties it, under m_receiveMutex only when it starts or stops.          *)
(*                                                                         *)
(* The ring buffers are bounded FIFO queues of bytes, which is what        *)
(* LockFreeRingBuffer is shown to implement.                               *)
(***************************************************************************)
EXTENDS SizeCoding

CONSTANTS Messages,      \* the messages sent, in order: [type, payload] records
          OutSize,       \* capacity of m_outBuffer
          InSize,        \* capacity of m_inBuffer
          WireSize,      \* bytes the network holds
          MaxBeats,      \* bound on the heartbeats
          MaxRewrites    \* bound on the wakeups that write part of what is left

\* The type id of a message is its number in the MessageRegister.
Message == [type : Nat \ {0}, payload : Seq(Octet)]

ASSUME MessagesAssumption == Messages \in Seq(Message)
\* Five bytes hold the type and the size of every message (at base 128 a message is
\* shorter than 32 GiB).
ASSUME SizesAssumption ==
    \A i \in 1..Len(Messages) :
        /\ Messages[i].type < Capacity
        /\ Len(Messages[i].payload) + Len(serialize_size(Messages[i].type)) < Capacity
ASSUME BoundsAssumption ==
    /\ OutSize \in Nat \ {0} /\ InSize \in Nat \ {0} /\ WireSize \in Nat \ {0}
    /\ MaxBeats \in Nat /\ MaxRewrites \in Nat

VARIABLES sent,         \* the calls of send() so far
          sender,       \* where send() waits and the bytes from its iterator on
          rewrites,     \* the wakeups of send() that wrote part of what was left
          sinceSend,    \* m_heartbeatsSinceLastSend
          beatWaits,    \* send_heartbeat waits for room
          beats,        \* heartbeats so far
          mixed,        \* a heartbeat was written while send() waited
          outBuffer,
          sending,      \* m_sendSomeDataRunning
          sendArray,    \* the size of the array given to async_send
          wire,         \* bytes on their way to the other end
          inBuffer,
          receiving,    \* m_recvSomeDataRunning
          receiveArray, \* the size of the array given to async_receive
          committed,    \* on_receive_some_data_completed has yet to ask full()
          deserializer, \* where deserialize() is; "off": not m_deserializeRunning
          remaining,    \* m_remainingMsgPayload
          tmpIn,        \* m_tmpInBuffer
          delivered     \* the messages given to the communicator

sendVars    == <<sent, sender, rewrites, sinceSend, beatWaits, beats, mixed,
                 outBuffer, sending, sendArray>>
receiveVars == <<inBuffer, receiving, receiveArray, committed, deserializer,
                 remaining, tmpIn, delivered>>
vars        == <<sendVars, wire, receiveVars>>

Idle == [at |-> "idle", rest |-> <<>>]

Init ==
    /\ sent = 0 /\ sender = Idle /\ rewrites = 0
    /\ sinceSend = 0 /\ beatWaits = FALSE /\ beats = 0 /\ mixed = FALSE
    /\ outBuffer = <<>> /\ sending = FALSE /\ sendArray = 0
    /\ wire = <<>>
    /\ inBuffer = <<>> /\ receiving = TRUE /\ receiveArray = InSize
    /\ committed = FALSE
    /\ deserializer = "off" /\ remaining = 0 /\ tmpIn = <<>>
    /\ delivered = <<>>

----------------------------------------------------------------------------
Min2(m, n)   == IF m < n THEN m ELSE n
First(s, n)  == SubSeq(s, 1, Min2(n, Len(s)))
After(s, n)  == SubSeq(s, n + 1, Len(s))

\* Mutant: one byte too many is written to a buffer that is nearly full.
write_OneMore(buffer, bytes) == buffer \o First(bytes, OutSize - Len(buffer) + 1)

\* LockFreeRingBuffer::write: as many of the bytes as there is room for, and
\* what is left of them.
write(buffer, bytes) == buffer \o First(bytes, OutSize - Len(buffer))

unwritten(buffer, bytes) == After(bytes, OutSize - Len(buffer))

\* start_async_send_some_data, for the given new value of m_outBuffer.
StartSend(buffer) ==
    /\ sending' = TRUE
    /\ sendArray' = IF sending THEN sendArray ELSE Len(buffer)

Header(m) == serialize_size(Len(m.payload) + Len(serialize_size(m.type)))
                 \o serialize_size(m.type)

(***************************************************************************)
(* send().  The mutex is held from the call, or from the wakeup, to the    *)
(* next wait.  The predicate of a wait writes from the iterator `it', which *)
(* is not moved on by what the predicate writes.                           *)
(***************************************************************************)

\* Mutant: the iterator that write() returns is dropped.
SendPayload_NoIterator(m, buffer) ==
    /\ outBuffer' = write(buffer, m.payload)
    /\ StartSend(outBuffer')
    /\ sender' = IF unwritten(buffer, m.payload) = <<>> THEN Idle
                 ELSE [at |-> "payload", rest |-> m.payload]

\* The second half of send(), once the header is in the buffer.
SendPayload(m, buffer) ==
    /\ outBuffer' = write(buffer, m.payload)
    /\ StartSend(outBuffer')
    /\ sender' = IF unwritten(buffer, m.payload) = <<>> THEN Idle
                 ELSE [at |-> "payload", rest |-> unwritten(buffer, m.payload)]

Send ==
    /\ sender = Idle /\ sent < Len(Messages)
    /\ sent' = sent + 1
    /\ LET m    == Messages[sent + 1]
           rest == unwritten(outBuffer, Header(m))
       IN  \/ rest = <<>> /\ SendPayload(m, write(outBuffer, Header(m)))
           \/ /\ rest # <<>>
              /\ outBuffer' = write(outBuffer, Header(m))
              /\ StartSend(outBuffer')
              /\ sender' = [at |-> "header", rest |-> rest]
    /\ UNCHANGED <<rewrites, sinceSend, beatWaits, beats, mixed, wire, receiveVars>>

\* The predicate finds room for a part of the bytes: it writes them, and the
\* thread goes on waiting with the iterator where it was.
WakeTooEarly ==
    /\ sender # Idle
    /\ unwritten(outBuffer, sender.rest) # <<>> /\ Len(outBuffer) < OutSize
    /\ rewrites < MaxRewrites
    /\ rewrites' = rewrites + 1
    /\ outBuffer' = write(outBuffer, sender.rest)
    /\ UNCHANGED <<sent, sender, sinceSend, beatWaits, beats, mixed, sending, sendArray,
                   wire, receiveVars>>

WakeInHeader ==
    /\ sender.at = "header" /\ unwritten(outBuffer, sender.rest) = <<>>
    /\ SendPayload(Messages[sent], write(outBuffer, sender.rest))
    /\ UNCHANGED <<sent, rewrites, sinceSend, beatWaits, beats, mixed, wire, receiveVars>>

WakeInPayload ==
    /\ sender.at = "payload" /\ unwritten(outBuffer, sender.rest) = <<>>
    /\ outBuffer' = write(outBuffer, sender.rest)
    /\ sender' = Idle
    /\ UNCHANGED <<sent, rewrites, sinceSend, beatWaits, beats, mixed, sending, sendArray,
                   wire, receiveVars>>

----------------------------------------------------------------------------
(* The timer.                                                              *)

Heartbeat == <<0>>

\* on_timeout while data arrive from the other end.
OnTimeout ==
    /\ beats < MaxBeats /\ ~beatWaits
    /\ IF sinceSend = 0
         THEN /\ sinceSend' = 1
              /\ UNCHANGED <<beats, mixed, outBuffer, sending, sendArray, beatWaits>>
         ELSE /\ beats' = beats + 1
              /\ outBuffer' = write(outBuffer, Heartbeat)
              /\ StartSend(outBuffer')
              /\ beatWaits' = (unwritten(outBuffer, Heartbeat) # <<>>)
              /\ mixed' = (mixed \/ (sender # Idle /\ ~beatWaits'))
              /\ UNCHANGED sinceSend
    /\ UNCHANGED <<sent, sender, rewrites, wire, receiveVars>>

WakeInHeartbeat ==
    /\ beatWaits /\ unwritten(outBuffer, Heartbeat) = <<>>
    /\ outBuffer' = write(outBuffer, Heartbeat)
    /\ beatWaits' = FALSE
    /\ mixed' = (mixed \/ sender # Idle)
    /\ UNCHANGED <<sent, sender, rewrites, sinceSend, beats, sending, sendArray,
                   wire, receiveVars>>

\* Mutant: what the socket has not taken at once is left in the buffer.
OnSendCompleted_NoRestart(n) ==
    /\ sending /\ n \leq sendArray /\ Len(wire) + n \leq WireSize
    /\ sinceSend' = 0
    /\ wire'      = wire \o First(outBuffer, n)
    /\ outBuffer' = After(outBuffer, n)
    /\ sending'   = FALSE
    /\ sendArray' = 0
    /\ UNCHANGED <<sent, sender, rewrites, beatWaits, beats, mixed, receiveVars>>

\* on_send_some_data_completed: the socket has taken n bytes of the array.
OnSendCompleted(n) ==
    /\ sending /\ n \leq sendArray /\ Len(wire) + n \leq WireSize
    /\ sinceSend' = 0
    /\ wire'      = wire \o First(outBuffer, n)
    /\ outBuffer' = After(outBuffer, n)
    /\ sending'   = (outBuffer' # <<>>)
    /\ sendArray' = Len(outBuffer')
    /\ UNCHANGED <<sent, sender, rewrites, beatWaits, beats, mixed, receiveVars>>

----------------------------------------------------------------------------
(* The receiving end.                                                      *)

\* start_async_receive_some_data, for the given value of m_inBuffer.
StartReceive(buffer) ==
    /\ receiving' = TRUE
    /\ receiveArray' = IF receiving THEN receiveArray ELSE InSize - Len(buffer)

\* Where a newly posted deserialize() begins.
Begin == IF remaining = 0 THEN "size" ELSE "payload"

\* on_receive_some_data_completed: the socket has put n bytes into the array.
\* An array of size 0 completes at once.
OnReceiveCompleted(n) ==
    /\ receiving /\ ~committed /\ n \leq receiveArray /\ n \leq Len(wire)
    /\ n = 0 <=> receiveArray = 0
    /\ wire' = After(wire, n)
    /\ inBuffer' = inBuffer \o First(wire, n)
    /\ deserializer' = IF deserializer = "off" THEN Begin ELSE deserializer
    /\ committed' = TRUE
    /\ UNCHANGED <<sendVars, receiving, receiveArray, remaining, tmpIn, delivered>>

\* The rest of it, still under m_receiveMutex: deserialize() may have taken
\* bytes from the buffer in the meantime.
ReceiveAgain ==
    /\ committed /\ committed' = FALSE
    /\ receiving' = (Len(inBuffer) < InSize)
    /\ receiveArray' = InSize - Len(inBuffer)
    /\ UNCHANGED <<sendVars, wire, inBuffer, deserializer, remaining, tmpIn, delivered>>

\* deserialize(), which runs without a lock: one byte of the size is moved to
\* m_tmpInBuffer.  A size of 0 is a heartbeat.
ReadSize ==
    /\ deserializer = "size" /\ inBuffer # <<>>
    /\ inBuffer' = Tail(inBuffer)
    /\ LET bytes == Append(tmpIn, Head(inBuffer))
           size  == deserialize_size(bytes)
       IN  IF can_deserialize_size(bytes)
             THEN /\ remaining' = size /\ tmpIn' = <<>>
                  /\ deserializer' = IF size = 0 THEN "size" ELSE "payload"
             ELSE /\ tmpIn' = bytes
                  /\ UNCHANGED <<remaining, deserializer>>
    /\ UNCHANGED <<sendVars, wire, receiving, receiveArray, committed, delivered>>

ReadSizeEmpty ==
    /\ deserializer = "size" /\ inBuffer = <<>>
    /\ deserializer' = "wait"
    /\ UNCHANGED <<sendVars, wire, inBuffer, receiving, receiveArray, committed,
                   remaining, tmpIn, delivered>>

ReadPayload ==
    /\ deserializer = "payload"
    /\ tmpIn' = tmpIn \o First(inBuffer, remaining)
    /\ inBuffer' = After(inBuffer, Min2(remaining, Len(inBuffer)))
    /\ remaining' = remaining - Min2(remaining, Len(inBuffer))
    /\ deserializer' = IF remaining' = 0 THEN "forward" ELSE "wait"
    /\ UNCHANGED <<sendVars, wire, receiving, receiveArray, committed, delivered>>

\* deserialize_message_and_forward_to_communicator
Forward ==
    /\ deserializer = "forward" /\ ~committed
    /\ delivered' = Append(delivered, [type    |-> deserialize_size(tmpIn),
                                        payload |-> After(tmpIn, size_end(tmpIn))])
    /\ tmpIn' = <<>>
    /\ deserializer' = "size"
    /\ UNCHANGED <<sendVars, wire, inBuffer, receiving, receiveArray, committed, remaining>>

\* Mutant: data that arrived in the meantime are not looked at.
wait_for_more_data_NoCheck ==
    /\ deserializer = "wait" /\ ~committed
    /\ StartReceive(inBuffer)
    /\ deserializer' = "off"
    /\ UNCHANGED <<sendVars, wire, inBuffer, committed, remaining, tmpIn, delivered>>

\* wait_for_more_data_to_deserialize: deserialize() is posted anew if data
\* have arrived since it found the buffer empty.
wait_for_more_data ==
    /\ deserializer = "wait" /\ ~committed
    /\ StartReceive(inBuffer)
    /\ deserializer' = IF inBuffer = <<>> THEN "off" ELSE Begin
    /\ UNCHANGED <<sendVars, wire, inBuffer, committed, remaining, tmpIn, delivered>>

----------------------------------------------------------------------------
Deserialize ==
    \/ ReadSize \/ ReadSizeEmpty \/ ReadPayload \/ Forward \/ wait_for_more_data

Next ==
    \/ Send \/ WakeTooEarly \/ WakeInHeader \/ WakeInPayload
    \/ OnTimeout \/ WakeInHeartbeat
    \/ \E n \in 1..OutSize : OnSendCompleted(n)
    \/ \E n \in 0..InSize : OnReceiveCompleted(n)
    \/ ReceiveAgain
    \/ Deserialize

(***************************************************************************)
(* The completion of an operation on the socket is reported when it has    *)
(* made progress, what is posted to the scheduler is run, and every change *)
(* that a waiting thread waits for is followed by m_cv.notify_all().       *)
(* Nothing makes the user send, and the timer may be slow.                 *)
(***************************************************************************)
Fairness ==
    /\ WF_vars(WakeTooEarly) /\ WF_vars(WakeInHeader)
    /\ WF_vars(WakeInPayload) /\ WF_vars(WakeInHeartbeat)
    /\ WF_vars(\E n \in 1..OutSize : OnSendCompleted(n))
    /\ WF_vars(\E n \in 0..InSize : OnReceiveCompleted(n)) /\ WF_vars(ReceiveAgain)
    /\ WF_vars(Deserialize)

Spec == Init /\ [][Next]_vars /\ Fairness

----------------------------------------------------------------------------
(* Properties.                                                             *)

\* The values the variables can have; no buffer holds more than its capacity.
TypeOK ==
    /\ sent \in 0..Len(Messages)
    /\ sender \in [at : {"idle", "header", "payload"}, rest : Seq(Octet)]
    /\ rewrites \in 0..MaxRewrites
    /\ sinceSend \in 0..1 /\ beatWaits \in BOOLEAN /\ beats \in 0..MaxBeats
    /\ mixed \in BOOLEAN
    /\ outBuffer \in Seq(Octet) /\ Len(outBuffer) \leq OutSize
    /\ sending \in BOOLEAN /\ sendArray \in 0..OutSize
    /\ wire \in Seq(Octet) /\ Len(wire) \leq WireSize
    /\ inBuffer \in Seq(Octet) /\ Len(inBuffer) \leq InSize
    /\ receiving \in BOOLEAN /\ committed \in BOOLEAN /\ receiveArray \in 0..InSize
    /\ deserializer \in {"off", "size", "payload", "forward", "wait"}
    /\ remaining \in Nat /\ tmpIn \in Seq(Octet)

\* No data are left lying in m_inBuffer and no socket is left unread: while no
\* deserialize() is posted or running the buffer is empty and a receive is
\* under way, although deserialize() sees the buffer empty before it takes the
\* mutex and clears m_deserializeRunning.
NoLostWakeup == deserializer = "off" => inBuffer = <<>> /\ receiving /\ ~committed

\* The communicator is given the messages that were sent, whole, in the order
\* in which they were sent and each of them once (IConnection.hpp: "communicate
\* with each other via variable length messages").
DeliveredInOrder ==
    /\ Len(delivered) \leq sent
    /\ \A i \in 1..Len(delivered) : delivered[i] = Messages[i]

\* The same as far as it holds under backpressure: unless a waiting send() was
\* woken when only a part of its rest fits, or a heartbeat was written meanwhile.
InOrderIfUndisturbed == rewrites = 0 /\ ~mixed => DeliveredInOrder

\* Every message that was sent arrives while the connection is up.
EventuallyDelivered ==
    \A i \in 1..Len(Messages) : sent \geq i ~> Len(delivered) \geq i

\* The same as far as it holds: if no send() ever has to wait for room.
EventuallyDeliveredIfRoom == [](sender = Idle) => EventuallyDelivered
=============================================================================
