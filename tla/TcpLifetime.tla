----------------------------- MODULE TcpLifetime -----------------------------
(***************************************************************************)
(* How a TCP connection begins and ends:                                   *)
(* yogi-core/src/connections/tcp/TcpConnection.cpp, from assign() and the  *)
(* exchange of the communicator types to the death of the connection and   *)
(* its destructor.  What the bytes say is left to TcpConnection: a buffer  *)
(* is the number of its parts here, and a message has two parts, the       *)
(* header and the rest, which send() writes and waits for one by one.      *)
(*                                                                         *)
(* Two threads may be in send() at once, as every type of terminal has a   *)
(* logic with a mutex of its own: a thread of the user, and the one in     *)
(* deserialize() whose message made the communicator answer.               *)
(*                                                                         *)
(* m_mutex is released by everybody who waits on m_cv, but for             *)
(* on_connection_started(), which is called with it; m_receiveMutex is     *)
(* held while on_connection_started() or a message handler waits.  A       *)
(* thread that waits on m_cv looks again only after a notify_all().        *)
(* Handlers of the user return without calling the library.                *)
(***************************************************************************)
EXTENDS Naturals

CONSTANTS OutSize,          \* parts that m_outBuffer holds
          InSize,           \* messages that m_inBuffer holds
          MaxDescriptions   \* bound on the parts sent when the connection starts

ASSUME SizesAssumption ==
    OutSize \in Nat \ {0} /\ InSize \in Nat \ {0} /\ MaxDescriptions \in Nat

VARIABLES alive,         \* m_alive
          assigned,      \* m_communicator is set
          told,          \* what the communicator was told of the connection
          socketOpen,
          op,            \* op[o]: the asynchronous operation o and how it has ended
          typed,         \* the communicator type is sent, the other one is awaited
          stuck,         \* on_connection_started() waits for room
          out,           \* the parts in m_outBuffer
          in,            \* the messages in m_inBuffer
          sender,        \* sender[t]: what thread t waits for in send()
          deserializer,  \* where deserialize() is; "off": not m_deserializeRunning
          timer,         \* m_timer, or "beat": send_heartbeat() waits for room
          sinceReceive,  \* m_heartbeatsSinceLastReceive
          sinceSend,     \* m_heartbeatsSinceLastSend
          death,         \* m_awaitDeathOp is armed
          user,          \* where the destructor is
          notified       \* the waiting threads that look at their condition again

Operations == {"pre", "receive", "send"}
Threads    == {"user", "handler"}
Waiters    == Threads \cup {"beat", "destructor"}

vars == <<alive, assigned, told, socketOpen, op, typed, stuck, out, in, sender,
          deserializer, timer, sinceReceive, sinceSend, death, user, notified>>

Init ==
    /\ alive = TRUE /\ assigned = FALSE /\ told = "nothing" /\ socketOpen = TRUE
    /\ op = [o \in Operations |-> "off"] /\ typed = FALSE /\ stuck = FALSE
    /\ out = 0 /\ in = 0
    /\ sender = [t \in Threads |-> "no"] /\ deserializer = "off"
    /\ timer = "off" /\ sinceReceive = 0 /\ sinceSend = 0
    /\ death = FALSE /\ user = "idle" /\ notified = {}

----------------------------------------------------------------------------
\* The threads that wait on m_cv, all of which notify_all() wakes.
Waiting ==
    {t \in Threads : sender[t] # "no"} \cup {w \in {"beat"} : timer = w}
        \cup {w \in {"destructor"} : user \in {"wait", "waitReceive"}}

MutexFree == ~stuck

ReceiveMutexFree == ~stuck /\ sender["handler"] = "no"

\* How an operation on the socket begins: a closed socket makes it fail.
Begun == IF socketOpen THEN "pending" ELSE "failed"

\* start_async_send_some_data.
StartSend(ops) == [ops EXCEPT !["send"] = IF @ = "off" THEN Begun ELSE @]

\* start_async_receive_some_data.  If the buffer is full it receives nothing, at once.
StartReceive(ops) ==
    [ops EXCEPT !["receive"] = IF @ # "off" THEN @ ELSE IF in = InSize THEN "empty" ELSE Begun]

\* close_socket(): what is pending on the socket fails.
Aborted(ops) == [o \in Operations |-> IF ops[o] = "pending" THEN "failed" ELSE ops[o]]

\* Mutant: whoever waits for the end of the connection is not told.
die_Silent(o) ==
    /\ socketOpen' = FALSE /\ op' = [Aborted(op) EXCEPT ![o] = "off"]
    /\ alive' = FALSE
    /\ UNCHANGED death
    /\ notified' = Waiting

\* die(), which fires m_awaitDeathOp if it is the first to notice.
die(o) ==
    /\ socketOpen' = FALSE /\ op' = [Aborted(op) EXCEPT ![o] = "off"]
    /\ alive' = FALSE
    /\ death' = (death /\ ~alive)
    /\ notified' = Waiting

----------------------------------------------------------------------------
(* The user.                                                               *)

\* assign(), with or without a timeout.  The timer is started before the
\* communicator is asked, which refuses if it has a connection already.
Assign(timed, accepted) ==
    /\ user = "idle" /\ MutexFree /\ ~assigned /\ alive
    /\ timer' = IF timed /\ timer = "off" THEN "pending" ELSE timer
    /\ IF accepted
       THEN /\ told' = "new" /\ assigned' = TRUE
            /\ op' = [op EXCEPT !["pre"] = Begun]
       ELSE UNCHANGED <<told, assigned, op>>
    /\ UNCHANGED <<alive, socketOpen, typed, stuck, out, in, sender, deserializer,
                   sinceReceive, sinceSend, death, user, notified>>

async_await_death ==
    /\ user = "idle" /\ MutexFree /\ alive /\ ~death
    /\ death' = TRUE
    /\ UNCHANGED <<alive, assigned, told, socketOpen, op, typed, stuck, out, in, sender,
                   deserializer, timer, sinceReceive, sinceSend, user, notified>>

cancel_await_death ==
    /\ user = "idle" /\ MutexFree /\ death
    /\ death' = FALSE
    /\ UNCHANGED <<alive, assigned, told, socketOpen, op, typed, stuck, out, in, sender,
                   deserializer, timer, sinceReceive, sinceSend, user, notified>>

----------------------------------------------------------------------------
(* send(), called by the communicator with the mutex of a logic held.      *)

\* The rest of a message, once the header is in the buffer, which then holds n.
SendRest(t, n) ==
    /\ op' = StartSend(op)
    /\ out' = IF n < OutSize THEN n + 1 ELSE n
    /\ sender' = [sender EXCEPT ![t] = IF n < OutSize \/ ~alive THEN "no" ELSE "rest"]

Send(t) ==
    IF out < OutSize THEN SendRest(t, out + 1)
    ELSE /\ op' = StartSend(op) /\ sender' = [sender EXCEPT ![t] = "header"]
         /\ UNCHANGED out

UserSends ==
    /\ told = "started" /\ sender["user"] = "no" /\ MutexFree /\ alive
    /\ Send("user")
    /\ UNCHANGED <<alive, assigned, told, socketOpen, typed, stuck, in, deserializer, timer,
                   sinceReceive, sinceSend, death, user, notified>>

\* Thread t, notified while it waits in send(), looks whether there is room or the
\* connection is dead.
SenderWakes(t) ==
    /\ sender[t] # "no" /\ t \in notified /\ MutexFree
    /\ notified' = notified \ {t}
    /\ \/ /\ alive /\ out = OutSize
          /\ UNCHANGED <<op, out, sender>>
       \/ /\ sender[t] = "header" /\ (~alive \/ out < OutSize)
          /\ SendRest(t, IF alive THEN out + 1 ELSE out)
       \/ /\ sender[t] = "rest" /\ (~alive \/ out < OutSize)
          /\ out' = IF alive THEN out + 1 ELSE out
          /\ sender' = [sender EXCEPT ![t] = "no"]
          /\ UNCHANGED op
    /\ UNCHANGED <<alive, assigned, told, socketOpen, typed, stuck, in, deserializer, timer,
                   sinceReceive, sinceSend, death, user>>

----------------------------------------------------------------------------
(* The socket.                                                             *)
SocketCompletes(o, how) ==
    /\ op[o] = "pending" /\ (how = "eof" => o = "receive" \/ (o = "pre" /\ typed))
    /\ op' = [op EXCEPT ![o] = how]
    /\ UNCHANGED <<alive, assigned, told, socketOpen, typed, stuck, out, in, sender,
                   deserializer, timer, sinceReceive, sinceSend, death, user, notified>>

on_send_communicator_type_completed ==
    /\ op["pre"] = "ok" /\ ~typed /\ MutexFree
    /\ typed' = TRUE /\ op' = [op EXCEPT !["pre"] = Begun]
    /\ UNCHANGED <<alive, assigned, told, socketOpen, stuck, out, in, sender, deserializer,
                   timer, sinceReceive, sinceSend, death, user, notified>>

\* The communicator is told, and sends n parts of descriptions.  If they do not fit
\* it waits with m_mutex held, which keeps out all that could wake it.
on_receive_communicator_type_completed ==
    /\ op["pre"] = "ok" /\ typed /\ MutexFree /\ ReceiveMutexFree
    /\ told' = IF assigned THEN "started" ELSE told
    /\ \E n \in 0..MaxDescriptions :
          LET fits == out + n \leq OutSize
              ops  == IF n > 0 THEN StartSend(op) ELSE op
          IN  /\ n > 0 => assigned /\ alive
              /\ out' = IF fits THEN out + n ELSE OutSize
              /\ stuck' = ~fits
              /\ op' = IF fits THEN StartReceive([ops EXCEPT !["pre"] = "off"]) ELSE ops
              /\ notified' = IF fits THEN Waiting ELSE notified
    /\ UNCHANGED <<alive, assigned, socketOpen, typed, in, sender, deserializer, timer,
                   sinceReceive, sinceSend, death, user>>

on_send_some_data_completed ==
    /\ op["send"] = "ok" /\ MutexFree
    /\ sinceSend' = 0
    /\ \E n \in 1..out :
          /\ out' = out - n
          /\ op' = [op EXCEPT !["send"] = IF n = out THEN "off" ELSE Begun]
    /\ notified' = Waiting
    /\ UNCHANGED <<alive, assigned, told, socketOpen, typed, stuck, in, sender, deserializer,
                   timer, sinceReceive, death, user>>

on_receive_some_data_completed ==
    /\ op["receive"] \in {"ok", "empty"} /\ ReceiveMutexFree
    /\ sinceReceive' = 0
    /\ \E n \in IF op["receive"] = "ok" THEN 1..(InSize - in) ELSE {0} :
          /\ in' = in + n
          /\ op' = [op EXCEPT !["receive"] = IF in + n = InSize THEN "off" ELSE Begun]
    /\ deserializer' = IF deserializer = "off" /\ alive THEN "run" ELSE deserializer
    /\ notified' = Waiting
    /\ UNCHANGED <<alive, assigned, told, socketOpen, typed, stuck, out, sender, timer,
                   sinceSend, death, user>>

\* An operation that has failed, or found that the other side has closed.
OperationFails(o) ==
    /\ op[o] \in {"failed", "eof"} /\ MutexFree /\ (o = "receive" => ReceiveMutexFree)
    /\ die(o)
    /\ UNCHANGED <<assigned, told, typed, stuck, out, in, sender, deserializer, timer,
                   sinceReceive, sinceSend, user>>

----------------------------------------------------------------------------
(* deserialize(), on a thread of the scheduler.                            *)

\* A message is given to the communicator, which may answer, unless the connection
\* is dead.
Forward ==
    \/ UNCHANGED <<op, out, sender>>
    \/ alive /\ Send("handler")

deserialize ==
    /\ deserializer = "run" /\ sender["handler"] = "no"
    /\ \/ /\ in = 0
          /\ deserializer' = "stop" /\ UNCHANGED <<in, op, out, sender>>
       \/ /\ in > 0 /\ MutexFree
          /\ in' = in - 1 /\ Forward
          /\ UNCHANGED deserializer
    /\ UNCHANGED <<alive, assigned, told, socketOpen, typed, stuck, timer, sinceReceive,
                   sinceSend, death, user, notified>>

\* Mutant: no receive is started.
wait_for_more_data_to_deserialize_Idle ==
    /\ deserializer = "stop" /\ ReceiveMutexFree
    /\ deserializer' = IF in > 0 /\ alive THEN "run" ELSE "off"
    /\ notified' = IF in > 0 THEN notified ELSE Waiting
    /\ UNCHANGED <<alive, assigned, told, socketOpen, op, typed, stuck, out, in, sender, timer,
                   sinceReceive, sinceSend, death, user>>

\* If there is more to read nobody is notified, even if the connection is dead and
\* deserialize() does not go on.
wait_for_more_data_to_deserialize ==
    /\ deserializer = "stop" /\ ReceiveMutexFree
    /\ op' = StartReceive(op)
    /\ deserializer' = IF in > 0 /\ alive THEN "run" ELSE "off"
    /\ notified' = IF in > 0 THEN notified ELSE Waiting
    /\ UNCHANGED <<alive, assigned, told, socketOpen, typed, stuck, out, in, sender, timer,
                   sinceReceive, sinceSend, death, user>>

----------------------------------------------------------------------------
(* The timer.                                                              *)
TimerExpires ==
    /\ timer = "pending"
    /\ timer' = "expired"
    /\ UNCHANGED <<alive, assigned, told, socketOpen, op, typed, stuck, out, in, sender,
                   deserializer, sinceReceive, sinceSend, death, user, notified>>

\* Nothing was received for three periods.
ReceiveTimeout ==
    /\ timer = "expired" /\ MutexFree /\ sinceReceive = 3
    /\ socketOpen' = FALSE /\ op' = Aborted(op)
    /\ alive' = FALSE /\ death' = FALSE
    /\ timer' = "off" /\ notified' = Waiting
    /\ UNCHANGED <<assigned, told, typed, stuck, out, in, sender, deserializer, sinceReceive,
                   sinceSend, user>>

\* Mutant: a heartbeat that is sent counts as one received.
Heartbeat_Resets ==
    /\ timer = "expired" /\ MutexFree /\ sinceReceive < 3 /\ alive
    /\ IF sinceSend = 0
       THEN /\ sinceSend' = 1 /\ timer' = "pending" /\ sinceReceive' = sinceReceive + 1
            /\ UNCHANGED <<op, out>>
       ELSE /\ op' = StartSend(op) /\ UNCHANGED sinceSend /\ sinceReceive' = 0
            /\ IF out < OutSize THEN out' = out + 1 /\ timer' = "pending"
                                ELSE timer' = "beat" /\ UNCHANGED out
    /\ UNCHANGED <<alive, assigned, told, socketOpen, typed, stuck, in, sender, deserializer,
                   death, user, notified>>

\* A period has passed; if nothing was sent in the last one, a heartbeat is.
Heartbeat ==
    /\ timer = "expired" /\ MutexFree /\ sinceReceive < 3 /\ alive
    /\ sinceReceive' = sinceReceive + 1
    /\ IF sinceSend = 0
       THEN sinceSend' = 1 /\ timer' = "pending" /\ UNCHANGED <<op, out>>
       ELSE /\ op' = StartSend(op) /\ UNCHANGED sinceSend
            /\ IF out < OutSize THEN out' = out + 1 /\ timer' = "pending"
                                ELSE timer' = "beat" /\ UNCHANGED out
    /\ UNCHANGED <<alive, assigned, told, socketOpen, typed, stuck, in, sender, deserializer,
                   death, user, notified>>

\* send_heartbeat() looks again, and the timer goes on, even if the connection is
\* dead.
HeartbeatWakes ==
    /\ timer = "beat" /\ "beat" \in notified /\ MutexFree
    /\ notified' = notified \ {"beat"}
    /\ out' = IF alive /\ out < OutSize THEN out + 1 ELSE out
    /\ timer' = IF ~alive \/ out < OutSize THEN "pending" ELSE "beat"
    /\ UNCHANGED <<alive, assigned, told, socketOpen, op, typed, stuck, in, sender,
                   deserializer, sinceReceive, sinceSend, death, user>>

\* The connection is dead, or the destructor has cancelled the timer.
TimerEnds ==
    /\ MutexFree
    /\ \/ timer = "expired" /\ sinceReceive < 3 /\ ~alive /\ UNCHANGED death
       \/ timer = "aborted" /\ death' = FALSE
    /\ timer' = "off" /\ notified' = Waiting
    /\ UNCHANGED <<alive, assigned, told, socketOpen, op, typed, stuck, out, in, sender,
                   deserializer, sinceReceive, sinceSend, user>>

----------------------------------------------------------------------------
(* The destructor.                                                         *)
Destroy ==
    /\ user = "idle"
    /\ user' = "begin"
    /\ UNCHANGED <<alive, assigned, told, socketOpen, op, typed, stuck, out, in, sender,
                   deserializer, timer, sinceReceive, sinceSend, death, notified>>

\* Mutant: m_alive is left as it is.
DestructorBegins_Alive ==
    /\ user = "begin" /\ MutexFree /\ ReceiveMutexFree
    /\ assigned' = FALSE
    /\ notified' = Waiting /\ user' = "tell"
    /\ UNCHANGED <<alive, told, socketOpen, op, typed, stuck, out, in, sender, deserializer,
                   timer, sinceReceive, sinceSend, death>>

DestructorBegins ==
    /\ user = "begin" /\ MutexFree /\ ReceiveMutexFree
    /\ alive' = FALSE /\ assigned' = FALSE
    /\ notified' = Waiting /\ user' = "tell"
    /\ UNCHANGED <<told, socketOpen, op, typed, stuck, out, in, sender, deserializer, timer,
                   sinceReceive, sinceSend, death>>

\* The communicator, if there was one, takes the mutexes of its logics, which the
\* threads in send() hold.
DestructorTells ==
    /\ user = "tell"
    /\ told = "nothing" \/ (MutexFree /\ \A t \in Threads : sender[t] = "no")
    /\ told' = IF told = "nothing" THEN told ELSE "destroyed"
    /\ user' = "close"
    /\ UNCHANGED <<alive, assigned, socketOpen, op, typed, stuck, out, in, sender, deserializer,
                   timer, sinceReceive, sinceSend, death, notified>>

DestructorCloses ==
    /\ user = "close" /\ MutexFree
    /\ socketOpen' = FALSE /\ op' = Aborted(op)
    /\ timer' = IF timer = "pending" THEN "aborted" ELSE timer
    /\ death' = FALSE
    /\ user' = "wait" /\ notified' = notified \cup {"destructor"}
    /\ UNCHANGED <<alive, assigned, told, typed, stuck, out, in, sender, deserializer,
                   sinceReceive, sinceSend>>

\* Mutant: only what m_mutex protects is waited for.
DestructorWaits_First ==
    /\ "destructor" \in notified
    /\ user = "wait" /\ MutexFree
    /\ user' = IF op["pre"] = "off" /\ op["send"] = "off" /\ timer = "off" THEN "gone" ELSE user
    /\ notified' = notified \ {"destructor"}
    /\ UNCHANGED <<alive, assigned, told, socketOpen, op, typed, stuck, out, in, sender,
                   deserializer, timer, sinceReceive, sinceSend, death>>

\* The two waits at the end: first under m_mutex for what it protects, then under
\* m_receiveMutex for the rest.
DestructorWaits ==
    /\ "destructor" \in notified
    /\ \/ /\ user = "wait" /\ MutexFree
          /\ IF op["pre"] = "off" /\ op["send"] = "off" /\ timer = "off"
             THEN user' = "waitReceive" /\ UNCHANGED notified
             ELSE notified' = notified \ {"destructor"} /\ UNCHANGED user
       \/ /\ user = "waitReceive" /\ ReceiveMutexFree
          /\ user' = IF op["receive"] = "off" /\ deserializer = "off" THEN "gone" ELSE user
          /\ notified' = notified \ {"destructor"}
    /\ UNCHANGED <<alive, assigned, told, socketOpen, op, typed, stuck, out, in, sender,
                   deserializer, timer, sinceReceive, sinceSend, death>>

----------------------------------------------------------------------------
Completion(o) ==
    \/ o = "pre" /\ (on_send_communicator_type_completed \/ on_receive_communicator_type_completed)
    \/ o = "send" /\ on_send_some_data_completed
    \/ o = "receive" /\ on_receive_some_data_completed
    \/ OperationFails(o)

Deserialization == deserialize \/ wait_for_more_data_to_deserialize

on_timeout == ReceiveTimeout \/ Heartbeat \/ HeartbeatWakes \/ TimerEnds

Destructor == DestructorTells \/ DestructorCloses \/ DestructorWaits

Next ==
    \/ \E timed, accepted \in BOOLEAN : Assign(timed, accepted)
    \/ async_await_death \/ cancel_await_death \/ Destroy
    \/ UserSends \/ \E t \in Threads : SenderWakes(t)
    \/ \E o \in Operations : Completion(o) \/ \E how \in {"ok", "failed", "eof"} : SocketCompletes(o, how)
    \/ Deserialization
    \/ TimerExpires \/ on_timeout
    \/ DestructorBegins \/ Destructor

(***************************************************************************)
(* What is complete or posted runs, timers expire, threads that were       *)
(* notified look again.  The destructor gets m_receiveMutex if it becomes  *)
(* free again and again.  The other side may be silent for ever, and take  *)
(* no data.                                                                *)
(***************************************************************************)
Fairness ==
    /\ \A o \in Operations : WF_vars(Completion(o))
    /\ \A t \in Threads : WF_vars(SenderWakes(t))
    /\ WF_vars(Deserialization)
    /\ WF_vars(TimerExpires) /\ WF_vars(on_timeout)
    /\ SF_vars(DestructorBegins) /\ WF_vars(Destructor)

Spec == Init /\ [][Next]_vars /\ Fairness

----------------------------------------------------------------------------
(* Properties.                                                             *)

\* The values the variables can have.
TypeOK ==
    /\ alive \in BOOLEAN /\ assigned \in BOOLEAN /\ socketOpen \in BOOLEAN
    /\ told \in {"nothing", "new", "started", "destroyed"}
    /\ op \in [Operations -> {"off", "pending", "ok", "empty", "eof", "failed"}]
    /\ typed \in BOOLEAN /\ stuck \in BOOLEAN
    /\ out \in 0..OutSize /\ in \in 0..InSize
    /\ sender \in [Threads -> {"no", "header", "rest"}]
    /\ deserializer \in {"off", "run", "stop"}
    /\ timer \in {"off", "pending", "expired", "aborted", "beat"}
    /\ sinceReceive \in 0..3 /\ sinceSend \in 0..1
    /\ death \in BOOLEAN
    /\ user \in {"idle", "begin", "tell", "close", "wait", "waitReceive", "gone"}
    /\ notified \subseteq Waiters

\* Messages are given, and room is waited for, only between the start of the
\* connection and its end as the communicator is told of them: deserialize() looks
\* at m_alive alone, and send() is given the connection by the communicator.
CommunicatorReady ==
    /\ alive /\ deserializer # "off" => assigned /\ told = "started"
    /\ \A t \in Threads : sender[t] # "no" => told = "started"
    /\ assigned => told \in {"new", "started"}

\* Whoever waits for the connection to die has been told of it, whichever of the
\* operations, the timer and the destructor noticed first.
DeathTold == death => alive \/ user \in {"tell", "close"}

\* When the destructor returns nothing is pending and no thread is in the object.
NothingAfterDestruction ==
    user = "gone" =>
        /\ \A o \in Operations : op[o] = "off"
        /\ \A t \in Threads : sender[t] = "no"
        /\ deserializer = "off" /\ timer = "off" /\ ~death /\ ~stuck

\* Somebody waits for room with m_receiveMutex held.
Blocked == stuck \/ sender["handler"] # "no"

\* The destructor returns, and send() returns once the connection is dead, unless
\* a message handler or on_connection_started() waits for room for ever.
DestroyReturns ==
    []<>~Blocked =>
        /\ user = "begin" ~> user = "gone"
        /\ ~alive /\ sender["user"] # "no" ~> sender["user"] = "no"

\* A connection with a timeout dies unless data keep coming, or its heartbeat or
\* on_connection_started() waits for room for ever.
SilenceNoticed ==
    \/ <>~alive
    \/ <>[](timer = "off")
    \/ []<><<on_receive_some_data_completed>>_vars
    \/ <>[](timer = "beat" \/ stuck)
=============================================================================
