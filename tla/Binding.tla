------------------------------ MODULE Binding ------------------------------
(***************************************************************************)
(* How the user of a binding follows its state:                            *)
(* yogi-core/src/core/BindingT.hpp with base/AsyncOperation.hpp and the    *)
(* handles of api/PublicObjectRegister.                                    *)
(*                                                                         *)
(* Three threads meet in a BindingT object: the Leaf's logic calls         *)
(* publish_state (thread "logic"), a thread of the scheduler runs what     *)
(* async_get_state has posted (thread "scheduler"), and the user calls the *)
(* functions of the library and destroys the binding (thread "user").      *)
(* Handlers run on the thread that fires them; the ones of publish_state   *)
(* and of async_get_state hold m_mutex.  A handler may start the next      *)
(* asynchronous wait, as the documentation of the library asks for: it     *)
(* looks the handle up and then arms the operation.                        *)
(*                                                                         *)
(* The states a binding goes through are numbered: state = n after the     *)
(* n-th call of publish_state.  SubscribableTerminalBaseT.hpp has the same *)
(* code for the subscription state of a terminal.                          *)
(***************************************************************************)
EXTENDS AsyncOperation

CONSTANTS MaxPublish,   \* bound on the state changes
          MaxCalls      \* bound on the calls of the user

ASSUME BindingAssumption == MaxPublish \in Nat /\ MaxCalls \in Nat

VARIABLES registered, \* the handle is in PublicObjectRegister
          state,      \* m_state
          mutex,      \* the thread that holds m_mutex, or "nobody"
          getOp, awaitOp, getActive,
          posted,     \* functions posted by async_get_state and not yet run
          logic, scheduler, user,   \* where the threads are
          view,       \* the state the user knows of; 0 if it does not follow it
          calls       \* calls of the user so far

vars == <<registered, state, mutex, getOp, awaitOp, getActive, posted, logic,
          scheduler, user, view, calls>>

Init ==
    /\ registered = TRUE /\ state = 1 /\ mutex = "nobody"
    /\ getOp = NoOperation /\ awaitOp = NoOperation
    /\ getActive = FALSE /\ posted = 0
    /\ logic = "idle" /\ scheduler = "idle" /\ user = "idle"
    /\ view = 0 /\ calls = 0

----------------------------------------------------------------------------
(* The Leaf's logic: publish_state, under the mutex of the logic.          *)

publish_state ==
    /\ logic = "idle" /\ user # "gone" /\ mutex = "nobody" /\ state \leq MaxPublish
    /\ mutex' = "logic"
    /\ state' = state + 1
    /\ logic' = "fire"
    /\ UNCHANGED <<registered, getOp, awaitOp, getActive, posted, scheduler, user,
                   view, calls>>

PublishFire ==
    /\ logic = "fire"
    /\ \/ /\ armed(awaitOp)
          /\ awaitOp' = Take(awaitOp) /\ logic' = "handler"
          /\ view' = state
          /\ UNCHANGED mutex
       \/ /\ ~armed(awaitOp)
          /\ mutex' = "nobody" /\ logic' = "idle"
          /\ UNCHANGED <<awaitOp, view>>
    /\ UNCHANGED <<registered, state, getOp, getActive, posted, scheduler, user, calls>>

\* The handler looks the handle up (get_s); without it, or without the wish to
\* follow the state, it returns.
PublishHandler ==
    /\ logic = "handler"
    /\ \/ registered /\ logic' = "rearm" /\ UNCHANGED view
       \/ logic' = "return" /\ view' = 0
    /\ UNCHANGED <<registered, state, mutex, getOp, awaitOp, getActive, posted,
                   scheduler, user, calls>>

\* async_await_state_change throws if another thread has armed the operation.
PublishRearm ==
    /\ logic = "rearm"
    /\ awaitOp' = IF armed(awaitOp) THEN awaitOp ELSE Arm(awaitOp)
    /\ logic' = "return"
    /\ UNCHANGED <<registered, state, mutex, getOp, getActive, posted, scheduler,
                   user, view, calls>>

PublishReturn ==
    /\ logic = "return"
    /\ awaitOp' = Return(awaitOp)
    /\ mutex' = "nobody" /\ logic' = "idle"
    /\ UNCHANGED <<registered, state, getOp, getActive, posted, scheduler, user,
                   view, calls>>

----------------------------------------------------------------------------
(* The scheduler: the function that async_get_state has posted.            *)

\* Mutant: the handler is called without the mutex.
GetFire_Unlocked ==
    /\ scheduler = "idle" /\ posted > 0 /\ mutex = "nobody"
    /\ \/ /\ armed(getOp)
          /\ getOp' = Take(getOp) /\ scheduler' = "handler" /\ view' = state
          /\ UNCHANGED <<getActive, posted>>
       \/ /\ ~armed(getOp)
          /\ getActive' = FALSE /\ posted' = posted - 1
          /\ UNCHANGED <<getOp, scheduler, view>>
    /\ UNCHANGED <<registered, state, mutex, awaitOp, logic, user, calls>>

GetFire ==
    /\ scheduler = "idle" /\ posted > 0 /\ mutex = "nobody"
    /\ \/ /\ armed(getOp)
          /\ getOp' = Take(getOp) /\ scheduler' = "handler" /\ mutex' = "scheduler"
          /\ view' = state
          /\ UNCHANGED <<getActive, posted>>
       \/ /\ ~armed(getOp)
          /\ getActive' = FALSE /\ posted' = posted - 1
          /\ UNCHANGED <<getOp, scheduler, mutex, view>>
    /\ UNCHANGED <<registered, state, awaitOp, logic, user, calls>>

GetHandler ==
    /\ scheduler = "handler"
    /\ \/ registered /\ scheduler' = "rearm"
       \/ scheduler' = "return"
    /\ UNCHANGED <<registered, state, mutex, getOp, awaitOp, getActive, posted,
                   logic, user, view, calls>>

GetRearm ==
    /\ scheduler = "rearm"
    /\ awaitOp' = IF armed(awaitOp) THEN awaitOp ELSE Arm(awaitOp)
    /\ scheduler' = "return"
    /\ UNCHANGED <<registered, state, mutex, getOp, getActive, posted, logic, user,
                   view, calls>>

GetReturn ==
    /\ scheduler = "return"
    /\ getOp' = Return(getOp)
    /\ getActive' = FALSE /\ posted' = posted - 1
    /\ mutex' = "nobody" /\ scheduler' = "idle"
    /\ view' = IF armed(awaitOp) THEN view ELSE 0
    /\ UNCHANGED <<registered, state, awaitOp, logic, user, calls>>

----------------------------------------------------------------------------
(* The user.                                                               *)

Calls(next) == /\ user = "idle" /\ registered /\ calls < MaxCalls
               /\ calls' = calls + 1
               /\ user' = next

async_get_state ==
    /\ Calls("get") /\ ~armed(getOp)
    /\ getOp' = Arm(getOp)
    /\ UNCHANGED <<registered, state, mutex, awaitOp, getActive, posted, logic,
                   scheduler, view>>

\* The rest of async_get_state waits for m_mutex.
PostGet ==
    /\ user = "get" /\ mutex = "nobody"
    /\ getActive' = TRUE /\ posted' = posted + 1
    /\ user' = "idle"
    /\ UNCHANGED <<registered, state, mutex, getOp, awaitOp, logic, scheduler,
                   view, calls>>

\* The user starts to follow the changes without knowing the state.
async_await_state_change ==
    /\ Calls("idle") /\ ~armed(awaitOp)
    /\ awaitOp' = Arm(awaitOp)
    /\ view' = 0
    /\ UNCHANGED <<registered, state, mutex, getOp, getActive, posted, logic, scheduler>>

cancel_await_state_change ==
    /\ Calls("cancelled") /\ armed(awaitOp)
    /\ awaitOp' = Take(awaitOp)
    /\ view' = 0
    /\ UNCHANGED <<registered, state, mutex, getOp, getActive, posted, logic, scheduler>>

CancelReturn ==
    /\ user = "cancelled"
    /\ awaitOp' = Return(awaitOp)
    /\ user' = "idle"
    /\ UNCHANGED <<registered, state, mutex, getOp, getActive, posted, logic,
                   scheduler, view, calls>>
(***************************************************************************)
(* YOGI_Destroy takes the handle out of the register, so that no handler   *)
(* finds it any more, and then runs the destructor: it cancels both        *)
(* operations, waits until no handler is stored or running, waits for the  *)
(* posted function and leaves the Leaf's logic.                            *)
(***************************************************************************)
Destroy ==
    /\ user = "idle" /\ registered
    /\ registered' = FALSE
    /\ user' = "cancelGet"
    /\ UNCHANGED <<state, mutex, getOp, awaitOp, getActive, posted, logic, scheduler,
                   view, calls>>

CancelGet ==
    /\ user = "cancelGet"
    /\ \/ armed(getOp) /\ getOp' = Take(getOp) /\ user' = "gotCancelled"
       \/ ~armed(getOp) /\ user' = "cancelAwait" /\ UNCHANGED getOp
    /\ UNCHANGED <<registered, state, mutex, awaitOp, getActive, posted, logic,
                   scheduler, view, calls>>

CancelGetReturn ==
    /\ user = "gotCancelled"
    /\ getOp' = Return(getOp)
    /\ user' = "cancelAwait"
    /\ UNCHANGED <<registered, state, mutex, awaitOp, getActive, posted, logic,
                   scheduler, view, calls>>

\* Mutant: the destructor does not cancel the wait for a state change.
CancelAwait_Not ==
    /\ user = "cancelAwait"
    /\ user' = "awaitGetIdle"
    /\ UNCHANGED <<registered, state, mutex, getOp, awaitOp, getActive, posted, logic,
                   scheduler, view, calls>>

CancelAwait ==
    /\ user = "cancelAwait"
    /\ \/ /\ armed(awaitOp)
          /\ awaitOp' = Take(awaitOp) /\ user' = "awaitCancelled" /\ view' = 0
       \/ /\ ~armed(awaitOp)
          /\ user' = "awaitGetIdle" /\ UNCHANGED <<awaitOp, view>>
    /\ UNCHANGED <<registered, state, mutex, getOp, getActive, posted, logic,
                   scheduler, calls>>

CancelAwaitReturn ==
    /\ user = "awaitCancelled"
    /\ awaitOp' = Return(awaitOp)
    /\ user' = "awaitGetIdle"
    /\ UNCHANGED <<registered, state, mutex, getOp, getActive, posted, logic,
                   scheduler, view, calls>>

\* The destructor gets on from one wait to the next.
Waited(from, to) ==
    /\ user = from /\ user' = to
    /\ UNCHANGED <<registered, state, mutex, getOp, awaitOp, getActive, posted, logic,
                   scheduler, view, calls>>

AwaitGetIdle == Idle(getOp) /\ Waited("awaitGetIdle", "awaitAwaitIdle")

AwaitAwaitIdle == Idle(awaitOp) /\ Waited("awaitAwaitIdle", "awaitPosted")

\* Mutant: the destructor does not wait for the posted function.
AwaitPosted_Not == Waited("awaitPosted", "leave")

AwaitPosted == ~getActive /\ mutex = "nobody" /\ Waited("awaitPosted", "leave")

\* on_binding_destroyed takes the mutex of the logic.
Leave == logic = "idle" /\ Waited("leave", "gone")

----------------------------------------------------------------------------
Publish  == PublishFire \/ PublishHandler \/ PublishRearm \/ PublishReturn
GetState == GetFire \/ GetHandler \/ GetRearm \/ GetReturn
Finish   == PostGet \/ CancelReturn
Destructor ==
    \/ CancelGet \/ CancelGetReturn \/ CancelAwait \/ CancelAwaitReturn
    \/ AwaitGetIdle \/ AwaitAwaitIdle \/ AwaitPosted \/ Leave

Next ==
    \/ publish_state \/ Publish \/ GetState
    \/ async_get_state \/ async_await_state_change \/ cancel_await_state_change
    \/ Finish \/ Destroy \/ Destructor

(***************************************************************************)
(* Handlers return, the scheduler runs what is posted, and a thread that   *)
(* waits for a mutex or a condition gets it when it is free.  Nothing      *)
(* makes the state change or the user call.                                *)
(***************************************************************************)
Fairness == WF_vars(Publish) /\ WF_vars(GetState) /\ WF_vars(Finish) /\ WF_vars(Destructor)

Spec == Init /\ [][Next]_vars /\ Fairness

----------------------------------------------------------------------------
(* Properties.                                                             *)

One(b) == IF b THEN 1 ELSE 0

\* The values the variables can have.
TypeOK ==
    /\ registered \in BOOLEAN /\ getActive \in BOOLEAN
    /\ state \in Nat /\ view \in Nat /\ posted \in Nat /\ calls \in Nat
    /\ mutex \in {"nobody", "logic", "scheduler"}
    /\ getOp \in Operation /\ awaitOp \in Operation
    /\ logic \in {"idle", "fire", "handler", "rearm", "return"}
    /\ scheduler \in {"idle", "handler", "rearm", "return"}
    /\ user \in {"idle", "get", "cancelled", "cancelGet", "gotCancelled",
                 "cancelAwait", "awaitCancelled", "awaitGetIdle",
                 "awaitAwaitIdle", "awaitPosted", "leave", "gone"}

\* m_runningOperations counts the handlers that are stored and the ones being
\* called, whichever thread calls them.
RunningCounted ==
    /\ getOp.running = getOp.stored + One(scheduler # "idle")
                          + One(user = "gotCancelled")
    /\ awaitOp.running = awaitOp.stored + One(logic \in {"handler", "rearm", "return"})
                            + One(user \in {"cancelled", "awaitCancelled"})

\* A user whose handlers start the next wait misses no change of the state
\* ("Propagation of the Binding's state is blocked during the invokation of
\* handlerFn to avoid losing state changes within that time", yogi_core.h).
NoMissedChange == mutex = "nobody" /\ armed(awaitOp) /\ view # 0 => view = state

\* When the destructor has returned no thread is inside the object, nothing
\* that refers to it is posted, and no handler is stored or running.
NothingAfterDestruction ==
    user = "gone" =>
        /\ mutex = "nobody" /\ logic = "idle" /\ scheduler = "idle" /\ posted = 0
        /\ getOp = NoOperation /\ awaitOp = NoOperation

\* YOGI_Destroy returns ("Destroying an object will cause any active asynchronous
\* operations to get canceled", yogi_core.h), whatever operations and calls are
\* under way, if no handler has looked the handle up before and is about to start
\* the next wait.  One that has starts it after the cancellation, and the
\* destructor waits for the next change of the state.
DestroyReturnsUndisturbed ==
    (user = "cancelGet" /\ "rearm" \notin {logic, scheduler}) ~> user = "gone"
=============================================================================
