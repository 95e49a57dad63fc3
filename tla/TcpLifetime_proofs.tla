------------------------- MODULE TcpLifetime_proofs -------------------------
(***************************************************************************)
(* What the communicator and the user of a TCP connection can rely on at   *)
(* its end, for buffers of any size and any number of descriptions.        *)
(***************************************************************************)
EXTENDS TcpLifetime, TLAPS

(***************************************************************************)
(* The inductive invariant.  CommunicatorReady depends on what the         *)
(* exchange of the communicator types leads to: as long as the connection  *)
(* is alive it has a communicator from the moment that anything runs on    *)
(* the socket, and the receiving begins when that has been told of the     *)
(* start.  NothingAfterDestruction depends on what the destructor has seen *)
(* so far and on that staying true: a dead connection starts nothing but a *)
(* receive, and nobody who could send is left once the communicator has    *)
(* been told of the end.                                                   *)
(***************************************************************************)
Beginning ==
    /\ alive /\ told # "nothing" => assigned
    /\ alive /\ op["pre"] # "off" => assigned
    /\ alive /\ op["receive"] # "off" => assigned /\ told = "started"
    /\ stuck => op["pre"] # "off"

Ending ==
    /\ user \notin {"idle", "begin"} => ~alive /\ ~assigned /\ ~stuck
    /\ user \in {"close", "wait", "waitReceive", "gone"} => told \in {"nothing", "destroyed"}
    /\ user \in {"wait", "waitReceive", "gone"} => ~death
    /\ user \in {"waitReceive", "gone"} =>
          op["pre"] = "off" /\ op["send"] = "off" /\ timer = "off"
    /\ user = "gone" => op["receive"] = "off" /\ deserializer = "off"

\* The part of TypeOK about truth values, which the provers want on its own.
Flags ==
    /\ alive \in BOOLEAN /\ assigned \in BOOLEAN /\ socketOpen \in BOOLEAN
    /\ typed \in BOOLEAN /\ stuck \in BOOLEAN /\ death \in BOOLEAN

IInv == TypeOK /\ CommunicatorReady /\ DeathTold /\ Beginning /\ Ending

\* The invariant holds at first.
LEMMA AtFirst == Init => IInv
<1> USE SizesAssumption DEF Init, Operations, Threads, Waiters
<1> SUFFICES ASSUME Init PROVE IInv
  OBVIOUS
<1>0. Flags
  BY DEF Flags
<1>1. TypeOK
  BY <1>0 DEF Flags, TypeOK
<1>2. CommunicatorReady
  BY DEF CommunicatorReady
<1>3. DeathTold
  BY DEF DeathTold
<1>4. Beginning
  BY DEF Beginning
<1>5. Ending
  BY DEF Ending
<1> QED
  BY <1>1, <1>2, <1>3, <1>4, <1>5 DEF IInv

\* Every step preserves it.
LEMMA Step == ASSUME IInv, [Next]_vars PROVE IInv'
<1> USE SizesAssumption
    DEF IInv, TypeOK, CommunicatorReady, DeathTold, Beginning, Ending, Operations, Threads, Waiters,
        MutexFree, ReceiveMutexFree, Begun, StartSend, StartReceive, Aborted
<1>0. Waiting \subseteq Waiters
  BY DEF Waiting
<1>1. ASSUME NEW timed \in BOOLEAN, NEW accepted \in BOOLEAN, Assign(timed, accepted) PROVE IInv'
  <2>1. TypeOK'
    BY <1>1 DEF Assign
  <2>2. CommunicatorReady'
    BY <1>1 DEF Assign
  <2>3. DeathTold'
    BY <1>1 DEF Assign
  <2>4. Beginning'
    BY <1>1 DEF Assign
  <2>5. Ending'
    BY <1>1 DEF Assign
  <2> QED
    BY <2>1, <2>2, <2>3, <2>4, <2>5
<1>2. ASSUME async_await_death \/ cancel_await_death \/ Destroy PROVE IInv'
  <2>0. Flags'
    BY <1>2 DEF async_await_death, cancel_await_death, Destroy, Flags
  <2> QED
    BY <1>2, <2>0 DEF async_await_death, cancel_await_death, Destroy, Flags
<1>3. ASSUME UserSends PROVE IInv'
  BY <1>3 DEF UserSends, Send, SendRest
<1>4. ASSUME NEW t \in Threads, SenderWakes(t) PROVE IInv'
  BY <1>4 DEF SenderWakes, SendRest
<1>5. ASSUME NEW o \in Operations, NEW how \in {"ok", "failed", "eof"}, SocketCompletes(o, how)
      PROVE IInv'
  BY <1>5 DEF SocketCompletes
<1>6. ASSUME on_send_communicator_type_completed PROVE IInv'
  BY <1>6 DEF on_send_communicator_type_completed
<1>7. ASSUME on_receive_communicator_type_completed PROVE IInv'
  BY <1>0, <1>7 DEF on_receive_communicator_type_completed
<1>8. ASSUME on_send_some_data_completed PROVE IInv'
  BY <1>0, <1>8 DEF on_send_some_data_completed
<1>9. ASSUME on_receive_some_data_completed PROVE IInv'
  BY <1>0, <1>9 DEF on_receive_some_data_completed
<1>10. ASSUME NEW o \in Operations, OperationFails(o) PROVE IInv'
  <2>1. TypeOK'
    BY <1>0, <1>10 DEF OperationFails, die
  <2>2. CommunicatorReady'
    BY <1>0, <1>10 DEF OperationFails, die
  <2>3. DeathTold'
    BY <1>0, <1>10 DEF OperationFails, die
  <2>4. Beginning'
    BY <1>0, <1>10 DEF OperationFails, die
  <2>5. Ending'
    BY <1>0, <1>10 DEF OperationFails, die
  <2> QED
    BY <2>1, <2>2, <2>3, <2>4, <2>5
<1>11. ASSUME deserialize PROVE IInv'
  BY <1>11 DEF deserialize, Forward, Send, SendRest
<1>12. ASSUME wait_for_more_data_to_deserialize PROVE IInv'
  BY <1>0, <1>12 DEF wait_for_more_data_to_deserialize
<1>13. ASSUME TimerExpires PROVE IInv'
  <2> USE <1>13 DEF TimerExpires, Flags
  <2>0. Flags'
    OBVIOUS
  <2>1. TypeOK'
    BY <2>0
  <2>2. CommunicatorReady' /\ DeathTold' /\ Beginning' /\ Ending'
    OBVIOUS
  <2> QED
    BY <2>1, <2>2
<1>14. ASSUME ReceiveTimeout PROVE IInv'
  <2> USE <1>0, <1>14 DEF ReceiveTimeout, Flags
  <2>0. Flags'
    OBVIOUS
  <2>1. TypeOK'
    BY <2>0
  <2>2. CommunicatorReady' /\ DeathTold' /\ Beginning' /\ Ending'
    OBVIOUS
  <2> QED
    BY <2>1, <2>2
<1>15. ASSUME TimerEnds PROVE IInv'
  <2> USE <1>0, <1>15 DEF TimerEnds, Flags
  <2>0. Flags'
    OBVIOUS
  <2>1. TypeOK'
    BY <2>0
  <2>2. CommunicatorReady' /\ DeathTold' /\ Beginning' /\ Ending'
    OBVIOUS
  <2> QED
    BY <2>1, <2>2
<1>16. ASSUME Heartbeat PROVE IInv'
  <2> USE <1>16 DEF Heartbeat, Flags
  <2>0. Flags'
    OBVIOUS
  <2>1. TypeOK'
    BY <2>0
  <2>2. CommunicatorReady' /\ DeathTold' /\ Beginning' /\ Ending'
    OBVIOUS
  <2> QED
    BY <2>1, <2>2
<1>17. ASSUME HeartbeatWakes PROVE IInv'
  <2> USE <1>17 DEF HeartbeatWakes, Flags
  <2>0. Flags'
    OBVIOUS
  <2>1. TypeOK'
    BY <2>0
  <2>2. CommunicatorReady' /\ DeathTold' /\ Beginning' /\ Ending'
    OBVIOUS
  <2> QED
    BY <2>1, <2>2
<1>18. ASSUME DestructorBegins PROVE IInv'
  <2> USE <1>0, <1>18 DEF DestructorBegins, Flags
  <2>0. Flags'
    OBVIOUS
  <2>1. TypeOK'
    BY <2>0
  <2>2. CommunicatorReady' /\ DeathTold' /\ Beginning' /\ Ending'
    OBVIOUS
  <2> QED
    BY <2>1, <2>2
<1>19. ASSUME DestructorTells PROVE IInv'
  <2> USE <1>19 DEF DestructorTells, Flags
  <2>0. Flags'
    OBVIOUS
  <2>1. TypeOK'
    BY <2>0
  <2>2. CommunicatorReady' /\ DeathTold' /\ Beginning' /\ Ending'
    OBVIOUS
  <2> QED
    BY <2>1, <2>2
<1>20. ASSUME DestructorCloses PROVE IInv'
  <2> USE <1>20 DEF DestructorCloses, Flags
  <2>0. Flags'
    OBVIOUS
  <2>1. TypeOK'
    BY <2>0
  <2>2. CommunicatorReady' /\ DeathTold' /\ Beginning' /\ Ending'
    OBVIOUS
  <2> QED
    BY <2>1, <2>2
<1>21. ASSUME DestructorWaits PROVE IInv'
  <2> USE <1>21 DEF DestructorWaits, Flags
  <2>0. Flags'
    OBVIOUS
  <2>1. TypeOK'
    BY <2>0
  <2>2. CommunicatorReady' /\ DeathTold' /\ Beginning' /\ Ending'
    OBVIOUS
  <2> QED
    BY <2>1, <2>2
<1>22. CASE UNCHANGED vars
  BY <1>22 DEF vars
<1> QED
  BY <1>1, <1>2, <1>3, <1>4, <1>5, <1>6, <1>7, <1>8, <1>9, <1>10, <1>11, <1>12, <1>13, <1>14,
     <1>15, <1>16, <1>17, <1>18, <1>19, <1>20, <1>21, <1>22
  DEF Next, Completion, Deserialization, on_timeout, Destructor

\* The invariant holds of every behaviour.
LEMMA Invariance == Spec => []IInv
<1>1. IInv /\ [Next]_vars => IInv'
  BY Step
<1> QED
  BY AtFirst, <1>1, PTL DEF Spec

\* Buffers never hold more than they have room for, in any interleaving of
\* TcpConnection's operations, and every variable keeps its type.
THEOREM TypeCorrect == Spec => []TypeOK
<1>1. IInv => TypeOK
  BY DEF IInv
<1> QED
  BY Invariance, <1>1, PTL

\* deserialize() gives messages to the communicator, and send() waits, only between
\* on_connection_started() and on_connection_destroyed().
THEOREM CommunicatorsReady == Spec => []CommunicatorReady
<1>1. IInv => CommunicatorReady
  BY DEF IInv
<1> QED
  BY Invariance, <1>1, PTL

\* Nobody waits in async_await_death() for the end of a connection that is dead,
\* but for the time that the destructor takes to get to its cancellation.
THEOREM DeathsTold == Spec => []DeathTold
<1>1. IInv => DeathTold
  BY DEF IInv
<1> QED
  BY Invariance, <1>1, PTL

\* ~TcpConnection() leaves no operation, no posted function and no thread behind.
THEOREM CleanDestruction == Spec => []NothingAfterDestruction
<1>1. IInv => NothingAfterDestruction
  BY DEF IInv, CommunicatorReady, Ending, DeathTold, NothingAfterDestruction, Operations, Threads
<1> QED
  BY Invariance, <1>1, PTL
=============================================================================
