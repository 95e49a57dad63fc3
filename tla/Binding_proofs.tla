--------------------------- MODULE Binding_proofs ---------------------------
(***************************************************************************)
(* The handlers of a binding are counted, see every change of the state    *)
(* and are over when the destructor returns, for every number of changes   *)
(* and calls.                                                              *)
(***************************************************************************)
EXTENDS Binding, TLAPS

(***************************************************************************)
(* The inductive invariant.  m_mutex is held exactly while a thread        *)
(* publishes or runs the posted function; at most one function is posted,  *)
(* and getActive says so; the state the user knows is the current one      *)
(* except between the two halves of publish_state, and it is kept only     *)
(* while the next wait is armed; once the destructor has seen an operation *)
(* idle it stays so.                                                       *)
(***************************************************************************)
MutexHeld ==
    /\ (mutex = "logic") <=> (logic # "idle")
    /\ (mutex = "scheduler") <=> (scheduler # "idle")

OnePosted ==
    /\ posted \in {0, 1}
    /\ getActive <=> posted = 1
    /\ scheduler # "idle" => posted = 1
    /\ user = "get" => armed(getOp) /\ (posted = 1 <=> scheduler # "idle")
    /\ armed(getOp) /\ user # "get" => posted = 1 /\ scheduler = "idle"
    /\ posted = 1 /\ scheduler = "idle" /\ registered => armed(getOp)

ViewCurrent ==
    /\ view # 0 /\ logic # "fire" => view = state
    /\ view # 0 /\ (mutex = "nobody" \/ logic \in {"fire", "return"}) => armed(awaitOp)

IdleStays ==
    /\ user \in {"idle", "get", "cancelled"} \/ ~registered
    /\ user \in {"get", "cancelled"} => registered
    /\ user \in {"awaitAwaitIdle", "awaitPosted", "leave", "gone"} => getOp = NoOperation
    /\ user \in {"awaitPosted", "leave", "gone"} => awaitOp = NoOperation
    /\ user \in {"leave", "gone"} => posted = 0
    /\ user = "gone" => logic = "idle"

IInv == TypeOK /\ RunningCounted /\ MutexHeld /\ OnePosted /\ ViewCurrent /\ IdleStays

\* IInv is inductive.
LEMMA Step == ASSUME IInv, [Next]_vars PROVE IInv'
<1> USE DEF Operation, NoOperation, armed, Arm, Take, Return, Idle, One, IInv, TypeOK,
            RunningCounted, MutexHeld, OnePosted, ViewCurrent, IdleStays
<1>1. CASE publish_state
  BY <1>1 DEF publish_state
<1>2. CASE PublishFire
  BY <1>2 DEF PublishFire
<1>3. CASE PublishHandler
  BY <1>3 DEF PublishHandler
<1>4. CASE PublishRearm
  BY <1>4 DEF PublishRearm
<1>5. CASE PublishReturn
  BY <1>5 DEF PublishReturn
<1>6. CASE GetFire
  <2>1. posted' \in Nat
    BY <1>6 DEF GetFire
  <2>2. getActive' \in BOOLEAN
    BY <1>6 DEF GetFire
  <2>3. getOp' \in Operation
    BY <1>6 DEF GetFire
  <2>4. TypeOK'
    BY <1>6, <2>1, <2>2, <2>3 DEF GetFire
  <2>5. RunningCounted' /\ MutexHeld' /\ OnePosted' /\ ViewCurrent' /\ IdleStays'
    BY <1>6 DEF GetFire
  <2> QED
    BY <2>4, <2>5
<1>7. CASE GetHandler
  BY <1>7 DEF GetHandler
<1>8. CASE GetRearm
  BY <1>8 DEF GetRearm
<1>9. CASE GetReturn
  <2>1. posted' \in Nat
    BY <1>9 DEF GetReturn
  <2>2. getActive' \in BOOLEAN
    BY <1>9 DEF GetReturn
  <2>3. getOp' \in Operation
    BY <1>9 DEF GetReturn
  <2>4. TypeOK'
    BY <1>9, <2>1, <2>2, <2>3 DEF GetReturn
  <2>5. RunningCounted' /\ MutexHeld' /\ OnePosted' /\ ViewCurrent' /\ IdleStays'
    BY <1>9 DEF GetReturn
  <2> QED
    BY <2>4, <2>5
<1>10. CASE async_get_state
  BY <1>10 DEF async_get_state, Calls
<1>11. CASE async_await_state_change
  BY <1>11 DEF async_await_state_change, Calls
<1>12. CASE cancel_await_state_change
  BY <1>12 DEF cancel_await_state_change, Calls
<1>13. CASE PostGet
  BY <1>13 DEF PostGet
<1>14. CASE CancelReturn
  BY <1>14 DEF CancelReturn
<1>15. CASE Destroy
  BY <1>15 DEF Destroy
<1>16. CASE CancelGet
  BY <1>16 DEF CancelGet
<1>17. CASE CancelGetReturn
  BY <1>17 DEF CancelGetReturn
<1>18. CASE CancelAwait
  BY <1>18 DEF CancelAwait
<1>19. CASE CancelAwaitReturn
  BY <1>19 DEF CancelAwaitReturn
<1>20. CASE AwaitGetIdle
  BY <1>20 DEF AwaitGetIdle, Waited
<1>21. CASE AwaitAwaitIdle
  BY <1>21 DEF AwaitAwaitIdle, Waited
<1>22. CASE AwaitPosted
  BY <1>22 DEF AwaitPosted, Waited
<1>23. CASE Leave
  BY <1>23 DEF Leave, Waited
<1>24. CASE UNCHANGED vars
  BY <1>24 DEF vars
<1> QED
  BY <1>1, <1>2, <1>3, <1>4, <1>5, <1>6, <1>7, <1>8, <1>9, <1>10, <1>11, <1>12,
     <1>13, <1>14, <1>15, <1>16, <1>17, <1>18, <1>19, <1>20, <1>21, <1>22, <1>23, <1>24
     DEF Next, Publish, GetState, Finish, Destructor

----------------------------------------------------------------------------
\* IInv holds in every state of every instance.
THEOREM Invariance == Spec => []IInv
<1>1. Init => IInv
  <2> SUFFICES ASSUME Init PROVE IInv
    OBVIOUS
  <2>1. TypeOK
    <3>1. registered \in BOOLEAN /\ getActive \in BOOLEAN
      BY Zenon DEF Init
    <3>2. getOp \in Operation /\ awaitOp \in Operation
      BY DEF Init, NoOperation, Operation
    <3> QED
      BY <3>1, <3>2 DEF Init, TypeOK
  <2>2. RunningCounted /\ MutexHeld /\ ViewCurrent /\ IdleStays
    BY DEF Init, RunningCounted, MutexHeld, ViewCurrent, IdleStays, NoOperation, One
  <2>3. OnePosted
    BY DEF Init, OnePosted, NoOperation, armed
  <2> QED
    BY <2>1, <2>2, <2>3 DEF IInv
<1>2. IInv /\ [Next]_vars => IInv'
  BY Step
<1> QED
  BY <1>1, <1>2, PTL DEF Spec

\* Every variable keeps to its type (TypeOK), for any number of calls and changes.
THEOREM TypeCorrect == Spec => []TypeOK
BY Invariance, PTL DEF IInv

\* Stored and running handlers are counted exactly (RunningCounted), so that
\* await_idle waits for every one of them.
THEOREM HandlersCounted == Spec => []RunningCounted
BY Invariance, PTL DEF IInv

\* A user whose handlers start the next wait misses no state (NoMissedChange).
THEOREM ChangesSeen == Spec => []NoMissedChange
<1>1. IInv => NoMissedChange
  BY DEF IInv, MutexHeld, ViewCurrent, NoMissedChange
<1> QED
  BY <1>1, Invariance, PTL

\* The destructor leaves nothing behind (NothingAfterDestruction).
THEOREM CleanDestruction == Spec => []NothingAfterDestruction
<1>1. IInv => NothingAfterDestruction
  BY DEF IInv, TypeOK, MutexHeld, OnePosted, IdleStays, NothingAfterDestruction
<1> QED
  BY <1>1, Invariance, PTL
=============================================================================
