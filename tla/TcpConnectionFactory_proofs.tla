--------------------- MODULE TcpConnectionFactory_proofs ---------------------
(***************************************************************************)
(* No completion is late, connections are genuine and no socket is lost,   *)
(* for every number of calls.                                              *)
(***************************************************************************)
EXTENDS TcpConnectionFactory, TLAPS

(***************************************************************************)
(* The inductive invariant.  A call that is armed is in one of four        *)
(* phases: something before the handshake is pending; the handshake is     *)
(* under way and neither the socket nor the timer has ended it; the socket *)
(* has, and the timer is still to report; or the timer has, and what is    *)
(* pending on the socket has been cancelled.  The same facts hold of all   *)
(* armed calls, and there is at most one.                                  *)
(***************************************************************************)
Opening(c) ==
    /\ at \in Openings /\ ec # "none" /\ timer = "off"
    /\ (role = "client" => at # "accept")
    /\ c \notin complete /\ (c \in abandoned => canceled)
    /\ (socket = "open" => closes)

Shaking(c) ==
    /\ at \in Handshake /\ ec # "none" /\ timer \in {"pending", "expired"}
    /\ firstResult = "none" /\ socket = "open" /\ holder = NoCall
    /\ (role = "client" => shakingHands)
    /\ c \notin complete /\ (c \in abandoned => factoryCanceled)

SocketDone(c) ==
    /\ at = "none" /\ ec = "none" /\ timer \in {"expired", "aborted"}
    /\ firstResult \in {"OK", "CANCELED", "ERROR"} /\ socket = "open" /\ holder = NoCall
    /\ (firstResult = "OK" <=> c \in complete)
    /\ (c \in complete => c \notin abandoned)

TimerDone(c) ==
    /\ at \in Handshake /\ ec \notin {"none", "pending"} /\ timer = "off"
    /\ firstResult = "TIMEOUT" /\ factoryCanceled /\ socket = "open" /\ holder = NoCall
    /\ c \notin complete

Phases ==
    \A c \in Calls : handler[c] = "armed" =>
        Opening(c) \/ Shaking(c) \/ SocketDone(c) \/ TimerDone(c)

Resting ==
    (\A c \in Calls : handler[c] # "armed") =>
        at = "none" /\ ec = "none" /\ timer = "off" /\ (socket = "open" => closes)

OneArmed == \A c, d \in Calls : handler[c] = "armed" /\ handler[d] = "armed" => c = d

Untouched ==
    \A c \in Calls :
        /\ handler[c] \in {"unused", "armed"} => result[c] = "none"
        /\ handler[c] = "unused" => c \notin complete /\ c \notin abandoned
        /\ result[c] # "none" => (result[c] = "OK" <=> c \in complete /\ c \notin abandoned)

HolderRuns ==
    /\ closes => holder # NoCall
    /\ holder # NoCall => handler[holder] \in {"called", "retry", "return"}

IdleStays == user \in {"lock", "gone"} => Idle

IInv == TypeOK /\ Phases /\ Resting /\ OneArmed /\ Untouched /\ HolderRuns /\ IdleStays

\* The invariant holds at first.
LEMMA AtFirst == Init => IInv
  BY CallsAssumption DEF Init, IInv, TypeOK, Phases, Resting, OneArmed, Untouched, HolderRuns,
     IdleStays, Idle, Results

\* Every step keeps it: the completions, the timer, the handlers and the user.
LEMMA Step == ASSUME IInv, [Next]_vars PROVE IInv'
<1> USE CallsAssumption DEF IInv, TypeOK, Phases, Resting, OneArmed, Untouched, HolderRuns,
            IdleStays, Idle, Results, Opening, Shaking, SocketDone, TimerDone, Openings, Parts,
            Handshake, Armed, asioVars, cancelVars, ghostVars
<1>1. CASE \E e \in {"ok", "failed"} : SocketCompletes(e)
  BY <1>1 DEF SocketCompletes
<1>2. CASE TimerExpires
  BY <1>2 DEF TimerExpires
<1>3. CASE OpeningSucceeds
  <2> USE <1>3 DEF OpeningSucceeds
  <2>1. CASE canceled
    <3>1. PICK c \in Calls : handler[c] = "armed"
      OBVIOUS
    <3>2. /\ handler' = [handler EXCEPT ![c] = "called"]
          /\ result' = [result EXCEPT ![c] = "CANCELED"] /\ holder' = c
      BY <2>1, <3>1 DEF Fire
    <3>3. at' = "none" /\ ec' = "none"
      BY <2>1 DEF NothingPending
    <3>4. UNCHANGED <<timer, firstResult, factoryCanceled, shakingHands, socket, closes>>
      BY <2>1
    <3>5. Opening(c)
      BY <3>1
    <3>6. TypeOK'
      BY <3>2, <3>3, <3>4
    <3>7. Phases' /\ Resting' /\ OneArmed' /\ Untouched' /\ IdleStays'
      BY <3>1, <3>2, <3>3, <3>4, <3>5
    <3>8. HolderRuns'
      BY <3>2, <3>4
    <3> QED
      BY <3>6, <3>7, <3>8
  <2>2. CASE ~canceled /\ at = "resolve"
    <3>1. /\ at' = "connect" /\ ec' = "pending"
          /\ UNCHANGED <<timer, firstResult, factoryCanceled, shakingHands>>
          /\ UNCHANGED <<handler, result, socket, holder, closes>>
      BY <2>2 DEF Pending, NoFire
    <3> QED
      BY <2>2, <3>1
  <2>3. CASE ~canceled /\ at # "resolve"
    <3>1. /\ firstResult' = "none" /\ factoryCanceled' = FALSE /\ socket' = "open"
          /\ at' = "header" /\ ec' = "pending" /\ timer' = "pending"
          /\ UNCHANGED <<handler, result, holder, closes>>
      BY <2>3 DEF start_async_shake_hands, Pending
    <3>2. shakingHands' = IF at = "connect" THEN TRUE ELSE shakingHands
      BY <2>3
    <3>3. shakingHands' \in BOOLEAN /\ (role = "client" => shakingHands')
      <4>1. PICK c \in Calls : handler[c] = "armed"
        OBVIOUS
      <4>2. role = "client" => at = "connect"
        BY <2>3, <4>1
      <4>3. CASE at = "connect"
        <5>1. shakingHands' = TRUE
          BY <3>2, <4>3
        <5> QED
          BY <5>1
      <4>4. CASE at # "connect"
        <5>1. shakingHands' = shakingHands
          BY <3>2, <4>4
        <5> QED
          BY <4>2, <4>4, <5>1
      <4> QED
        BY <4>3, <4>4
    <3>4. factoryCanceled' \in BOOLEAN
      BY <3>1
    <3>5. TypeOK'
      BY <3>1, <3>3, <3>4
    <3>6. Phases'
      BY <2>3, <3>1, <3>3
    <3>7. Resting' /\ OneArmed' /\ Untouched' /\ HolderRuns' /\ IdleStays'
      BY <3>1
    <3> QED
      BY <3>5, <3>6, <3>7
  <2> QED
    BY <2>1, <2>2, <2>3
<1>4. CASE OpeningFails
  BY <1>4 DEF OpeningFails, Fire, NothingPending
<1>5. CASE PartSucceeds
  BY <1>5 DEF PartSucceeds, Pending, NextPart, NoFire
<1>6. CASE handle_protocol_error
  BY <1>6 DEF handle_protocol_error, FirstResult, NothingPending, FireAndClose, Fire, NoFire,
       TimerCancelled
<1>7. CASE on_receive_identification_data_succeeded
  BY <1>7 DEF on_receive_identification_data_succeeded, FirstResult, NothingPending,
       FireAndClose, Fire, NoFire, TimerCancelled
<1>8. CASE PartCanceled
  BY <1>8 DEF PartCanceled, FirstResult, NothingPending, FireAndClose, Fire, NoFire,
       TimerCancelled, FireConnection
<1>9. CASE PartFails
  BY <1>9 DEF PartFails, FirstResult, NothingPending, FireAndClose, Fire, NoFire, TimerCancelled
<1>10. CASE on_timeout
  <2>1. TypeOK'
    <3>1. factoryCanceled' \in BOOLEAN
      BY <1>10 DEF on_timeout, TimeoutFirst, TimeoutSecond, FireConnection, Fire, NoFire,
           SocketCancelled
    <3>2. closes' \in BOOLEAN
      BY <1>10 DEF on_timeout, TimeoutFirst, TimeoutSecond, FireConnection, Fire, NoFire,
           SocketCancelled
    <3> QED
      BY <1>10, <3>1, <3>2 DEF on_timeout, TimeoutFirst, TimeoutSecond, FireConnection, Fire,
           NoFire, SocketCancelled
  <2>2. Phases'
    BY <1>10 DEF on_timeout, TimeoutFirst, TimeoutSecond, FireConnection, Fire, NoFire,
         SocketCancelled
  <2>3. Resting'
    BY <1>10 DEF on_timeout, TimeoutFirst, TimeoutSecond, FireConnection, Fire, NoFire,
         SocketCancelled
  <2>4. OneArmed'
    BY <1>10 DEF on_timeout, TimeoutFirst, TimeoutSecond, FireConnection, Fire, NoFire,
         SocketCancelled
  <2>5. Untouched'
    BY <1>10 DEF on_timeout, TimeoutFirst, TimeoutSecond, FireConnection, Fire, NoFire,
         SocketCancelled
  <2>6. HolderRuns'
    BY <1>10 DEF on_timeout, TimeoutFirst, TimeoutSecond, FireConnection, Fire, NoFire,
         SocketCancelled
  <2>7. IdleStays'
    BY <1>10 DEF on_timeout, TimeoutFirst, TimeoutSecond, FireConnection, Fire, NoFire,
         SocketCancelled
  <2> QED
    BY <2>1, <2>2, <2>3, <2>4, <2>5, <2>6, <2>7
<1>11. CASE \E c \in Calls : LooksUp(c)
  BY <1>11 DEF LooksUp
<1>12. CASE \E c \in Calls : GivesUp(c)
  BY <1>12 DEF GivesUp
<1>13. CASE \E c \in Calls : Returns(c)
  <2>0. PICK c \in Calls : Returns(c)
    BY <1>13
  <2>1. TypeOK'
    <3>1. closes' \in BOOLEAN
      BY <2>0 DEF Returns
    <3> QED
      BY <2>0, <3>1 DEF Returns
  <2>2. Phases'
    BY <2>0 DEF Returns
  <2>3. Resting'
    BY <2>0 DEF Returns
  <2>4. OneArmed'
    BY <2>0 DEF Returns
  <2>5. Untouched'
    BY <2>0 DEF Returns
  <2>6. HolderRuns'
    BY <2>0 DEF Returns
  <2>7. IdleStays'
    BY <2>0 DEF Returns
  <2> QED
    BY <2>1, <2>2, <2>3, <2>4, <2>5, <2>6, <2>7
<1>14. CASE \E c, d \in Calls : Retries(c, d)
  <2>0. PICK c, d \in Calls : Retries(c, d)
    BY <1>14
  <2>1. TypeOK'
    <3>1. endless' \in BOOLEAN
      BY <2>0 DEF Retries, Start, Pending
    <3>2. canceled' \in BOOLEAN
      BY <2>0 DEF Retries, Start, Pending
    <3>3. shakingHands' \in BOOLEAN
      BY <2>0 DEF Retries, Start, Pending
    <3> QED
      BY <2>0, <3>1, <3>2, <3>3 DEF Retries, Start, Pending
  <2>2. Phases'
    BY <2>0 DEF Retries, Start, Pending
  <2>3. Resting'
    BY <2>0 DEF Retries, Start, Pending
  <2>4. OneArmed'
    BY <2>0 DEF Retries, Start, Pending
  <2>5. Untouched'
    BY <2>0 DEF Retries, Start, Pending
  <2>6. HolderRuns'
    BY <2>0 DEF Retries, Start, Pending
  <2>7. IdleStays'
    BY <2>0 DEF Retries, Start, Pending
  <2> QED
    BY <2>1, <2>2, <2>3, <2>4, <2>5, <2>6, <2>7
<1>15. CASE \E c \in Calls : UserStarts(c)
  <2>0. PICK c \in Calls : UserStarts(c)
    BY <1>15
  <2>1. TypeOK'
    BY <2>0 DEF UserStarts, Start, Pending
  <2>2. Phases'
    BY <2>0 DEF UserStarts, Start, Pending
  <2>3. Resting'
    BY <2>0 DEF UserStarts, Start, Pending
  <2>4. OneArmed'
    BY <2>0 DEF UserStarts, Start, Pending
  <2>5. Untouched'
    BY <2>0 DEF UserStarts, Start, Pending
  <2>6. HolderRuns'
    BY <2>0 DEF UserStarts, Start, Pending
  <2>7. IdleStays'
    BY <2>0 DEF UserStarts, Start, Pending
  <2> QED
    BY <2>1, <2>2, <2>3, <2>4, <2>5, <2>6, <2>7
<1>16. CASE UserCancels
  <2>1. TypeOK'
    BY <1>16 DEF UserCancels, Cancel, SocketCancelled
  <2>2. Phases'
    <3>1. canceled' /\ (factoryCanceled => factoryCanceled')
      BY <1>16 DEF UserCancels, Cancel
    <3>2. (role = "client" => shakingHands) => factoryCanceled'
      BY <1>16 DEF UserCancels, Cancel
    <3> QED
      BY <1>16, <3>1, <3>2 DEF UserCancels, Cancel, SocketCancelled
  <2>3. Resting'
    BY <1>16 DEF UserCancels, Cancel, SocketCancelled
  <2>4. OneArmed'
    BY <1>16 DEF UserCancels, Cancel, SocketCancelled
  <2>5. Untouched'
    BY <1>16 DEF UserCancels, Cancel, SocketCancelled
  <2>6. HolderRuns'
    BY <1>16 DEF UserCancels, Cancel, SocketCancelled
  <2>7. IdleStays'
    BY <1>16 DEF UserCancels, Cancel, SocketCancelled
  <2> QED
    BY <2>1, <2>2, <2>3, <2>4, <2>5, <2>6, <2>7
<1>17. CASE Destroy
  <2>1. TypeOK'
    <3>1. registered' \in BOOLEAN
      BY <1>17 DEF Destroy
    <3> QED
      BY <1>17, <3>1 DEF Destroy
  <2>2. Phases'
    BY <1>17 DEF Destroy
  <2>3. Resting'
    BY <1>17 DEF Destroy
  <2>4. OneArmed'
    BY <1>17 DEF Destroy
  <2>5. Untouched'
    BY <1>17 DEF Destroy
  <2>6. HolderRuns'
    BY <1>17 DEF Destroy
  <2>7. IdleStays'
    BY <1>17 DEF Destroy
  <2> QED
    BY <2>1, <2>2, <2>3, <2>4, <2>5, <2>6, <2>7
<1>18. CASE DestructorCancels
  <2>1. TypeOK'
    BY <1>18 DEF DestructorCancels, Cancel, SocketCancelled
  <2>2. Phases'
    <3>1. canceled' /\ (factoryCanceled => factoryCanceled')
      BY <1>18 DEF DestructorCancels, Cancel
    <3>2. (role = "client" => shakingHands) => factoryCanceled'
      BY <1>18 DEF DestructorCancels, Cancel
    <3> QED
      BY <1>18, <3>1, <3>2 DEF DestructorCancels, Cancel, SocketCancelled
  <2>3. Resting'
    BY <1>18 DEF DestructorCancels, Cancel, SocketCancelled
  <2>4. OneArmed'
    BY <1>18 DEF DestructorCancels, Cancel, SocketCancelled
  <2>5. Untouched'
    BY <1>18 DEF DestructorCancels, Cancel, SocketCancelled
  <2>6. HolderRuns'
    BY <1>18 DEF DestructorCancels, Cancel, SocketCancelled
  <2>7. IdleStays'
    BY <1>18 DEF DestructorCancels, Cancel, SocketCancelled
  <2> QED
    BY <2>1, <2>2, <2>3, <2>4, <2>5, <2>6, <2>7
<1>19. CASE AwaitIdle
  BY <1>19 DEF AwaitIdle
<1>20. CASE DestructorEnds
  BY <1>20 DEF DestructorEnds
<1>21. CASE UNCHANGED vars
  BY <1>21 DEF vars
<1> QED
  BY <1>1, <1>2, <1>3, <1>4, <1>5, <1>6, <1>7, <1>8, <1>9, <1>10, <1>11, <1>12, <1>13, <1>14,
     <1>15, <1>16, <1>17, <1>18, <1>19, <1>20, <1>21 DEF Next, Completion, Handler, Destructor

----------------------------------------------------------------------------
\* The invariant holds in every reachable state.
LEMMA Invariance == Spec => []IInv
<1>1. IInv /\ [Next]_vars => IInv'
  BY Step
<1> QED
  BY <1>1, AtFirst, PTL DEF Spec

\* Every variable keeps to its type.
THEOREM TypeCorrect == Spec => []TypeOK
<1>1. IInv => TypeOK
  BY DEF IInv
<1> QED
  BY <1>1, Invariance, PTL

\* No completion of the socket or the timer comes after the handler of its call
\* has been called or the object has been destroyed: of on_timeout and
\* completion_handler the second always calls the handler.
THEOREM NoLateCompletion == Spec => []NothingLate
<1>1. IInv => NothingLate
  BY DEF IInv, Resting, IdleStays, Idle, NothingLate, Armed
<1> QED
  BY <1>1, Invariance, PTL

\* The handler of async_connect or async_accept is given a connection exactly if
\* the whole header of the other side was read and found valid in time.
THEOREM OnlyGenuine == Spec => []ConnectionsGenuine
<1>1. IInv => ConnectionsGenuine
  BY DEF IInv, Untouched, ConnectionsGenuine
<1> QED
  BY <1>1, Invariance, PTL

\* m_socket is open during a handshake, closed or given away after it, and the
\* late m_socket.close() of one handshake never hits the next.
THEOREM SocketsSettled == Spec => []SocketSettled
<1>1. IInv => SocketSettled
  <2> SUFFICES ASSUME IInv PROVE SocketSettled
    OBVIOUS
  <2> USE DEF IInv, Phases, Resting, Opening, Shaking, SocketDone, TimerDone, Openings, Handshake,
              Parts, SocketSettled
  <2>1. CASE \A c \in Calls : handler[c] # "armed"
    BY <2>1
  <2>2. CASE \E c \in Calls : handler[c] = "armed"
    BY <2>2
  <2> QED
    BY <2>1, <2>2
<1> QED
  BY <1>1, Invariance, PTL
=============================================================================
