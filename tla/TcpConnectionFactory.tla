------------------------ MODULE TcpConnectionFactory ------------------------
(***************************************************************************)
(* How TCP connections are made: TcpConnectionFactory.cpp, TcpClient.cpp   *)
(* and TcpServer.cpp in yogi-core/src/connections/tcp.                     *)
(*                                                                         *)
(* A TcpClient resolves a name and connects, a TcpServer accepts; then     *)
(* either shakes hands: it writes its header and reads the parts of the    *)
(* other side's.  One operation on the socket is pending at a time, and    *)
(* during the handshake a timer as well.  The first of the two that ends   *)
(* the handshake stores m_firstResult and cancels the other, the second    *)
(* one calls the handler of the user.                                      *)
(*                                                                         *)
(* Completions are run by any thread of the scheduler under m_mutex, a     *)
(* recursive mutex that is also held while the handler of the user runs;   *)
(* only the failure of an operation before the handshake calls the handler *)
(* without it.  A handler may look its handle up and try again.            *)
(*                                                                         *)
(* The AsyncOperation with the handler of the user is the set of the calls *)
(* it has been armed for; that m_runningOperations counts them is shown    *)
(* for Binding.                                                            *)
(***************************************************************************)

CONSTANTS Calls,    \* the calls of async_connect or async_accept
          NoCall

ASSUME CallsAssumption == NoCall \notin Calls

VARIABLES role,            \* which of the two it is
          registered,      \* the handle is in PublicObjectRegister
          handler,         \* handler[c]: where the handler of call c is
          result,          \* result[c]: what it was called with
          at,              \* what is pending on the socket or resolver
          ec,              \* how it has ended, if it has
          timer,           \* m_timer of the handshake
          endless,         \* m_handshakeTimeout is infinite
          firstResult,     \* m_firstResult
          canceled,        \* m_canceled of TcpClient or TcpServer
          factoryCanceled, \* m_canceled of TcpConnectionFactory
          shakingHands,    \* m_shakingHands of TcpClient
          socket,          \* m_socket of TcpConnectionFactory
          holder,          \* the call whose handler runs with m_mutex held
          closes,          \* the socket is closed when that handler has returned
          user,            \* where the user's thread is
          complete,        \* the calls for which the other side's header was read
          abandoned        \* the calls that were cancelled before that

asioVars   == <<at, ec, timer>>
cancelVars == <<canceled, factoryCanceled, shakingHands>>
ghostVars  == <<complete, abandoned>>
vars == <<role, registered, handler, result, asioVars, endless, firstResult, cancelVars,
          socket, holder, closes, user, ghostVars>>

Openings  == {"resolve", "connect", "accept"}
Parts     == {"prefix", "version", "size", "data"}
Handshake == {"header"} \cup Parts

\* Nothing has been asked for; the flags have not been initialised.
Init ==
    /\ role \in {"client", "server"} /\ registered = TRUE
    /\ handler = [c \in Calls |-> "unused"] /\ result = [c \in Calls |-> "none"]
    /\ at = "none" /\ ec = "none" /\ timer = "off" /\ endless = FALSE
    /\ firstResult = "none"
    /\ canceled \in BOOLEAN /\ factoryCanceled \in BOOLEAN /\ shakingHands \in BOOLEAN
    /\ socket = "none" /\ holder = NoCall /\ closes = FALSE
    /\ user = "idle"
    /\ complete = {} /\ abandoned = {}

Armed == {c \in Calls : handler[c] = "armed"}

Idle == \A c \in Calls : handler[c] \in {"unused", "done"}

----------------------------------------------------------------------------
(* boost::asio: an operation ends by itself or is cancelled; the           *)
(* cancellation of one that has ended but whose handler has not been run   *)
(* has no effect.                                                          *)
SocketCompletes(e) ==
    /\ ec = "pending" /\ ec' = e
    /\ UNCHANGED <<role, registered, handler, result, at, timer, endless, firstResult, cancelVars,
                   socket, holder, closes, user, ghostVars>>

TimerExpires ==
    /\ timer = "pending" /\ ~endless /\ timer' = "expired"
    /\ UNCHANGED <<role, registered, handler, result, at, ec, endless, firstResult, cancelVars,
                   socket, holder, closes, user, ghostVars>>

TimerCancelled == timer' = IF timer = "pending" THEN "aborted" ELSE timer

SocketCancelled == ec' = IF ec = "pending" THEN "aborted" ELSE ec

Pending(operation) == at' = operation /\ ec' = "pending"

NothingPending == at' = "none" /\ ec' = "none"

----------------------------------------------------------------------------
(* AsyncOperation::fire: the handler of the call that is armed is called,  *)
(* with m_mutex held or not.                                               *)
Fire(r, locked) ==
    IF Armed = {} THEN UNCHANGED <<handler, result, holder>>
    ELSE \E c \in Armed : /\ handler' = [handler EXCEPT ![c] = "called"]
                          /\ result' = [result EXCEPT ![c] = r]
                          /\ holder' = IF locked THEN c ELSE holder

\* The socket is closed after the handler has returned.
FireAndClose(r) ==
    /\ Fire(r, TRUE)
    /\ closes' = (Armed # {})
    /\ socket' = IF Armed = {} THEN "closed" ELSE socket

\* The connection that the handler is given takes the socket with it.
FireConnection ==
    /\ Fire("OK", TRUE)
    /\ socket' = "moved" /\ UNCHANGED closes

NoFire == UNCHANGED <<handler, result, socket, holder, closes>>

----------------------------------------------------------------------------
(* Before the handshake.                                                   *)

\* async_connect and async_accept, for a call that does not throw because
\* another one is armed.
Start ==
    /\ Armed = {}
    /\ Pending(IF role = "client" THEN "resolve" ELSE "accept")
    /\ endless' \in BOOLEAN
    /\ canceled' = FALSE /\ shakingHands' = FALSE
    /\ UNCHANGED <<role, timer, firstResult, factoryCanceled, socket, result, ghostVars>>

start_async_shake_hands ==
    /\ firstResult' = "none" /\ factoryCanceled' = FALSE
    /\ socket' = "open"
    /\ Pending("header") /\ timer' = "pending"
    /\ UNCHANGED <<handler, result, holder, closes>>

\* on_resolve_completed, on_connect_completed and on_accept_completed without an
\* error.
OpeningSucceeds ==
    /\ at \in Openings /\ ec = "ok" /\ holder = NoCall
    /\ \/ /\ canceled
          /\ Fire("CANCELED", TRUE) /\ NothingPending
          /\ UNCHANGED <<timer, firstResult, factoryCanceled, shakingHands, socket, closes>>
       \/ /\ ~canceled /\ at = "resolve"
          /\ Pending("connect") /\ NoFire
          /\ UNCHANGED <<timer, firstResult, factoryCanceled, shakingHands>>
       \/ /\ ~canceled /\ at # "resolve"
          /\ start_async_shake_hands
          /\ shakingHands' = IF at = "connect" THEN TRUE ELSE shakingHands
    /\ UNCHANGED <<role, registered, endless, canceled, user, ghostVars>>

\* The same with one.
OpeningFails ==
    /\ at \in Openings /\ ec \in {"aborted", "failed"}
    /\ Fire(IF ec = "aborted" THEN "CANCELED" ELSE "ERROR", FALSE)
    /\ NothingPending
    /\ UNCHANGED <<role, registered, timer, endless, firstResult, cancelVars, socket, closes, user,
                   ghostVars>>

----------------------------------------------------------------------------
(* The handshake: completion_handler and on_timeout.                       *)

\* Mutant: the timer is left alone.
FirstResult_TimerKept(r) ==
    /\ firstResult' = r /\ UNCHANGED timer
    /\ NoFire

\* What ends the handshake on the side of the socket waits for the timer.
FirstResult(r) ==
    /\ firstResult' = r /\ TimerCancelled
    /\ NoFire

\* completion_handler without an error, up to the last part; a part that is not
\* as expected is a protocol error.
NextPart(part) ==
    CASE part = "header"  -> "prefix"
      [] part = "prefix"  -> "version"
      [] part = "version" -> "size"
      [] part = "size"    -> "data"

PartSucceeds ==
    /\ at \in Handshake \ {"data"} /\ ec = "ok" /\ holder = NoCall /\ ~factoryCanceled
    /\ Pending(NextPart(at)) /\ NoFire
    /\ UNCHANGED <<role, registered, timer, endless, firstResult, cancelVars, user, ghostVars>>

\* handle_protocol_error
handle_protocol_error ==
    /\ at \in {"prefix", "version", "size"} /\ ec = "ok" /\ holder = NoCall /\ ~factoryCanceled
    /\ NothingPending
    /\ IF firstResult = "none" THEN FirstResult("ERROR")
       ELSE FireAndClose("TIMEOUT") /\ UNCHANGED <<timer, firstResult>>
    /\ UNCHANGED <<role, registered, endless, cancelVars, user, ghostVars>>

on_receive_identification_data_succeeded ==
    /\ at = "data" /\ ec = "ok" /\ holder = NoCall /\ ~factoryCanceled
    /\ NothingPending
    /\ IF firstResult = "none" THEN FirstResult("OK")
       ELSE FireAndClose(firstResult) /\ UNCHANGED <<timer, firstResult>>
    /\ complete' = complete \cup Armed
    /\ UNCHANGED <<role, registered, endless, cancelVars, user, abandoned>>

\* completion_handler of an operation that was cancelled.
PartCanceled ==
    /\ at \in Handshake /\ ec \notin {"none", "pending"} /\ holder = NoCall
    /\ factoryCanceled \/ ec = "aborted"
    /\ NothingPending
    /\ CASE firstResult = "none"     -> FirstResult("CANCELED")
         [] firstResult = "CANCELED" -> FireConnection /\ UNCHANGED <<timer, firstResult>>
         [] OTHER -> FireAndClose(firstResult) /\ UNCHANGED <<timer, firstResult>>
    /\ UNCHANGED <<role, registered, endless, cancelVars, user, ghostVars>>

\* completion_handler of an operation that failed.
PartFails ==
    /\ at \in Handshake /\ ec = "failed" /\ holder = NoCall /\ ~factoryCanceled
    /\ NothingPending
    /\ IF firstResult = "none" THEN FirstResult("ERROR")
       ELSE Fire("ERROR", TRUE) /\ UNCHANGED <<timer, firstResult, socket, closes>>
    /\ UNCHANGED <<role, registered, endless, cancelVars, user, ghostVars>>

\* Mutant: the handler is called without waiting for the operation on the socket.
TimeoutFirst_AtOnce ==
    /\ firstResult' = IF timer = "expired" THEN "TIMEOUT" ELSE "CANCELED"
    /\ factoryCanceled' = TRUE
    /\ SocketCancelled /\ UNCHANGED at
    /\ FireAndClose("TIMEOUT")

\* on_timeout, when the timer is the first to end the handshake.
TimeoutFirst ==
    /\ firstResult' = IF timer = "expired" THEN "TIMEOUT" ELSE "CANCELED"
    /\ factoryCanceled' = TRUE
    /\ SocketCancelled /\ UNCHANGED at
    /\ NoFire

\* Mutant: a timer that has expired counts although the socket was first.
TimeoutSecond_Expired ==
    /\ IF firstResult = "OK" /\ timer # "expired" THEN FireConnection
       ELSE Fire("TIMEOUT", TRUE) /\ socket' = "closed" /\ UNCHANGED closes
    /\ UNCHANGED <<at, ec, firstResult, factoryCanceled>>

\* Mutant: the socket of a handshake that failed stays open.
TimeoutSecond_LeftOpen ==
    /\ IF firstResult = "OK" THEN FireConnection
       ELSE Fire(firstResult, TRUE) /\ UNCHANGED <<socket, closes>>
    /\ UNCHANGED <<at, ec, firstResult, factoryCanceled>>

\* on_timeout, when the socket was.
TimeoutSecond ==
    /\ IF firstResult = "OK" THEN FireConnection
       ELSE Fire(firstResult, TRUE) /\ socket' = "closed" /\ UNCHANGED closes
    /\ UNCHANGED <<at, ec, firstResult, factoryCanceled>>

on_timeout ==
    /\ timer \in {"expired", "aborted"} /\ holder = NoCall
    /\ timer' = "off"
    /\ IF firstResult = "none" THEN TimeoutFirst ELSE TimeoutSecond
    /\ UNCHANGED <<role, registered, endless, canceled, shakingHands, user, ghostVars>>

----------------------------------------------------------------------------
(* cancel_connect and cancel_accept: whatever is pending is cancelled.     *)
Cancel ==
    /\ canceled' = TRUE
    /\ factoryCanceled' = (factoryCanceled \/ role = "server" \/ shakingHands)
    /\ SocketCancelled
    /\ abandoned' = abandoned \cup (Armed \ complete)
    /\ UNCHANGED <<role, handler, result, at, timer, endless, firstResult, shakingHands, socket,
                   holder, closes, complete>>

----------------------------------------------------------------------------
(* The handler of call c, on a thread of the scheduler.                    *)

\* It finds its handle (get_s), to try again.
LooksUp(c) ==
    /\ handler[c] = "called" /\ registered
    /\ handler' = [handler EXCEPT ![c] = "retry"]
    /\ UNCHANGED <<role, registered, result, asioVars, endless, firstResult, cancelVars, socket,
                   holder, closes, user, ghostVars>>

\* It makes call d.
Retries(c, d) ==
    /\ handler[c] = "retry" /\ holder \in {NoCall, c} /\ handler[d] = "unused"
    /\ Start
    /\ handler' = [handler EXCEPT ![c] = "return", ![d] = "armed"]
    /\ UNCHANGED <<registered, holder, closes, user>>

\* It does not, or the call throws.
GivesUp(c) ==
    /\ handler[c] \in {"called", "retry"}
    /\ handler' = [handler EXCEPT ![c] = "return"]
    /\ UNCHANGED <<role, registered, result, asioVars, endless, firstResult, cancelVars, socket,
                   holder, closes, user, ghostVars>>

\* It returns, and what held m_mutex for it goes on to its end.
Returns(c) ==
    /\ handler[c] = "return"
    /\ handler' = [handler EXCEPT ![c] = "done"]
    /\ IF holder = c THEN /\ socket' = IF closes THEN "closed" ELSE socket
                          /\ holder' = NoCall /\ closes' = FALSE
       ELSE UNCHANGED <<socket, holder, closes>>
    /\ UNCHANGED <<role, registered, result, asioVars, endless, firstResult, cancelVars, user,
                   ghostVars>>

----------------------------------------------------------------------------
(* The user.                                                               *)
UserStarts(c) ==
    /\ user = "idle" /\ holder = NoCall /\ handler[c] = "unused"
    /\ Start
    /\ handler' = [handler EXCEPT ![c] = "armed"]
    /\ UNCHANGED <<registered, holder, closes, user>>

UserCancels ==
    /\ user = "idle" /\ holder = NoCall
    /\ Cancel
    /\ UNCHANGED <<registered, user>>

\* YOGI_Destroy takes the handle away and runs the destructor, which cancels,
\* waits for the handlers and then for m_mutex.
Destroy ==
    /\ user = "idle"
    /\ user' = "cancel" /\ registered' = FALSE
    /\ UNCHANGED <<role, handler, result, asioVars, endless, firstResult, cancelVars, socket,
                   holder, closes, ghostVars>>

DestructorCancels ==
    /\ user = "cancel" /\ holder = NoCall
    /\ Cancel
    /\ user' = "await" /\ UNCHANGED registered

AwaitIdle ==
    /\ user = "await" /\ Idle
    /\ user' = "lock"
    /\ UNCHANGED <<role, registered, handler, result, asioVars, endless, firstResult, cancelVars,
                   socket, holder, closes, ghostVars>>

DestructorEnds ==
    /\ user = "lock" /\ holder = NoCall
    /\ user' = "gone"
    /\ UNCHANGED <<role, registered, handler, result, asioVars, endless, firstResult, cancelVars,
                   socket, holder, closes, ghostVars>>

----------------------------------------------------------------------------
Completion ==
    \/ OpeningSucceeds \/ OpeningFails
    \/ PartSucceeds \/ handle_protocol_error \/ on_receive_identification_data_succeeded
    \/ PartCanceled \/ PartFails

Handler == \E c \in Calls : LooksUp(c) \/ GivesUp(c) \/ Returns(c) \/ \E d \in Calls : Retries(c, d)

Destructor == DestructorCancels \/ AwaitIdle \/ DestructorEnds

Next ==
    \/ \E e \in {"ok", "failed"} : SocketCompletes(e)
    \/ TimerExpires
    \/ Completion \/ on_timeout
    \/ Handler
    \/ \E c \in Calls : UserStarts(c)
    \/ UserCancels \/ Destroy \/ Destructor

(***************************************************************************)
(* The scheduler runs what is complete, a timer that is not endless        *)
(* expires, handlers return and the thread in the destructor goes on.  The *)
(* other side may stay silent for ever.                                    *)
(***************************************************************************)
Fairness ==
    /\ WF_vars(Completion) /\ WF_vars(on_timeout) /\ WF_vars(TimerExpires)
    /\ WF_vars(Handler) /\ WF_vars(Destructor)

Spec == Init /\ [][Next]_vars /\ Fairness

----------------------------------------------------------------------------
(* Properties.                                                             *)
Results == {"none", "OK", "CANCELED", "TIMEOUT", "ERROR"}

\* The values the variables can have.
TypeOK ==
    /\ role \in {"client", "server"} /\ registered \in BOOLEAN
    /\ handler \in [Calls -> {"unused", "armed", "called", "retry", "return", "done"}]
    /\ result \in [Calls -> Results] /\ firstResult \in Results
    /\ at \in {"none"} \cup Openings \cup Handshake
    /\ ec \in {"none", "pending", "ok", "failed", "aborted"}
    /\ timer \in {"off", "pending", "expired", "aborted"} /\ endless \in BOOLEAN
    /\ canceled \in BOOLEAN /\ factoryCanceled \in BOOLEAN /\ shakingHands \in BOOLEAN
    /\ socket \in {"none", "open", "closed", "moved"}
    /\ holder \in Calls \cup {NoCall} /\ closes \in BOOLEAN
    /\ user \in {"idle", "cancel", "await", "lock", "gone"}
    /\ complete \subseteq Calls /\ abandoned \subseteq Calls

\* Neither the socket nor the timer has anything left to report when the handler
\* of a call is called, so that no late completion ends the next call or finds
\* the object destroyed, whichever of the two came first.
NothingLate ==
    /\ Armed = {} => at = "none" /\ timer = "off"
    /\ user = "gone" => Idle /\ at = "none" /\ timer = "off"

\* A handler is given a connection exactly if the other side's header was read to
\* its end before the call was cancelled and before the timer had its turn.
ConnectionsGenuine ==
    \A c \in Calls : result[c] # "none" => (result[c] = "OK" <=> c \in complete \ abandoned)

\* The socket of a handshake stays open until the handshake has ended, even if
\* the one before is closed late, and it is closed or belongs to a connection
\* afterwards.
SocketSettled ==
    /\ at \in Handshake => socket = "open"
    /\ socket = "open" => at \in Handshake \/ timer # "off" \/ closes

\* No handler makes a new call once the handle is gone.
NoLateRetry == \A c \in Calls : user # "idle" => handler[c] # "retry"

\* A call that is cancelled ends, a handshake with a timeout ends although the
\* other side is silent, and the destructor returns unless a handler that had
\* found the handle before makes a new call meanwhile.
OperationsEnd ==
    /\ \A c \in Calls :
          /\ (handler[c] = "armed" /\ canceled) ~> handler[c] # "armed"
          /\ (handler[c] = "armed" /\ at \in Handshake /\ ~endless) ~> handler[c] # "armed"
    /\ []NoLateRetry => (user = "cancel" ~> user = "gone")
=============================================================================
