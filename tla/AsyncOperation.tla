--------------------------- MODULE AsyncOperation ---------------------------
(***************************************************************************)
(* The bookkeeping of a completion handler that is called later:           *)
(* yogi-core/src/base/AsyncOperation.hpp.  An operation is a record:       *)
(* stored is the number of handlers stored in m_armedHandler, running the  *)
(* number of handlers stored or being called (m_runningOperations).  Each  *)
(* operator is a section of the code under the mutex of the operation; the *)
(* handler runs between Take and Return of fire() without that mutex.      *)
(***************************************************************************)
EXTENDS Integers

Operation == [stored : 0..1, running : Nat]

NoOperation == [stored |-> 0, running |-> 0]

armed(op) == op.stored = 1

\* arm(), which throws ASYNC_OPERATION_RUNNING when a handler is stored.
Arm(op) == [stored |-> 1, running |-> op.running + 1]

\* Mutant: the operation counts as ended before the handler is called.
Take_EndsIt(op) == [stored |-> 0, running |-> op.running - 1]

\* take_armed_handler(), the first step of fire(), for a stored handler.
Take(op) == [stored |-> 0, running |-> op.running]

\* The last step of fire(), after the handler has returned.
Return(op) == [stored |-> op.stored, running |-> op.running - 1]

\* await_idle() returns.
Idle(op) == op.running = 0
=============================================================================
