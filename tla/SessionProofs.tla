---------------------------- MODULE SessionProofs ----------------------------
(***************************************************************************)
(* Proofs about the futures an application waits for (CassFuture), for any *)
(* number of threads, any results and both kinds of tokio runtime, and     *)
(* about the session that makes them (CassSession), for any number of      *)
(* operations, runtimes and client ids.                                    *)
(***************************************************************************)
EXTENDS CassFuture, CassSession, TLAPS

USE ConstantsAssumption

(* The state variables keep their types in every step.                      *)
LEMMA TypeStep == TypeOK /\ TaskInv /\ [Next]_vars => TypeOK'
<1> SUFFICES ASSUME TypeOK, TaskInv, [Next]_vars PROVE TypeOK'
  OBVIOUS
<1> USE DEF TypeOK, TaskStates, ThreadStates, Return, GoTo, Call, taskVars
<1>1. CASE StoreHandle
  BY <1>1 DEF StoreHandle
<1>2. CASE TaskNext
  BY <1>2 DEF TaskNext, TaskReady, TaskSetResult, TaskReadCallback,
              TaskInvokeCallback, TaskNotifyAll, Pollers
<1>3. ASSUME NEW t \in Threads, NEW b \in BOOLEAN, WaitedResult(t, b)
      PROVE  TypeOK'
  BY <1>3 DEF WaitedResult
<1>4. ASSUME NEW t \in Threads, SetCallback(t) PROVE TypeOK'
  BY <1>4 DEF SetCallback
<1>5. ASSUME NEW t \in Threads, ThreadStep(t) PROVE TypeOK'
  <2>1. CASE Acquire(t) \/ LoopTurn(t) \/ Reacquire(t)
    BY <2>1 DEF Acquire, LoopTurn, Reacquire
  <2>2. CASE BlockOnTimeout(t) \/ PutBack(t)
    BY <2>2 DEF BlockOnTimeout, PutBack
  <2>3. CASE StoreCallback(t) \/ SwapCallbackSet(t) \/ InvokeCallback(t)
    BY <2>3 DEF StoreCallback, SwapCallbackSet, InvokeCallback
  <2>4. CASE BlockOnDone(t)
    BY <2>4 DEF BlockOnDone, TaskInv, Ready
  <2> QED BY <1>5, <2>1, <2>2, <2>3, <2>4 DEF ThreadStep
<1>6. ASSUME NEW t \in Threads,
             InvalidDuration(t) \/ DeadlinePasses(t) \/ LeaveCondvar(t)
      PROVE  TypeOK'
  BY <1>6, Zenon DEF InvalidDuration, DeadlinePasses, LeaveCondvar
<1>7. CASE Free \/ Finished \/ UNCHANGED vars
  BY <1>7, Zenon DEF Free, Finished, vars
<1> QED BY <1>1, <1>2, <1>3, <1>4, <1>5, <1>6, <1>7 DEF Next

(* Every step of the task, of a thread and of the creating call preserves   *)
(* the protocol invariant.                                                  *)
LEMMA ProtocolStep == TypeOK /\ ProtocolInv /\ [Next]_vars => ProtocolInv'
<1> SUFFICES ASSUME TypeOK, ProtocolInv, [Next]_vars PROVE ProtocolInv'
  OBVIOUS
<1> USE DEF TypeOK, TaskStates, ThreadStates, Return, GoTo, Call, taskVars,
            ProtocolInv, LockInv, TaskInv, HandleInv, CallbackInv, Ready,
            CallbackAtMostOnce, CallbackNotForgotten, NoStrandedWaiter
<1>1. CASE StoreHandle
  BY <1>1 DEF StoreHandle
<1>2. ASSUME NEW p \in Threads \cup {Worker, Other}, TaskReady(p)
      PROVE  ProtocolInv'
  BY <1>2 DEF TaskReady
<1>3. CASE TaskSetResult
  BY <1>3 DEF TaskSetResult
<1>4. CASE TaskReadCallback
  BY <1>4 DEF TaskReadCallback
<1>5. CASE TaskInvokeCallback
  BY <1>5 DEF TaskInvokeCallback
<1>6. CASE TaskNotifyAll
  BY <1>6 DEF TaskNotifyAll
<1>7. ASSUME NEW t \in Threads, NEW b \in BOOLEAN, WaitedResult(t, b)
      PROVE  ProtocolInv'
  BY <1>7 DEF WaitedResult
<1>8. ASSUME NEW t \in Threads, Acquire(t) PROVE ProtocolInv'
  BY <1>8 DEF Acquire
<1>9. ASSUME NEW t \in Threads, LoopTurn(t) PROVE ProtocolInv'
  BY <1>9 DEF LoopTurn
<1>10. ASSUME NEW t \in Threads, Reacquire(t) PROVE ProtocolInv'
  BY <1>10 DEF Reacquire, KeepWaiting
<1>11. ASSUME NEW t \in Threads, BlockOnDone(t) PROVE ProtocolInv'
  BY <1>11 DEF BlockOnDone
<1>12. ASSUME NEW t \in Threads, BlockOnTimeout(t) PROVE ProtocolInv'
  BY <1>12 DEF BlockOnTimeout
<1>13. ASSUME NEW t \in Threads, PutBack(t) PROVE ProtocolInv'
  BY <1>13 DEF PutBack
<1>14. ASSUME NEW t \in Threads, SetCallback(t) PROVE ProtocolInv'
  BY <1>14 DEF SetCallback
<1>15. ASSUME NEW t \in Threads, StoreCallback(t) PROVE ProtocolInv'
  BY <1>15 DEF StoreCallback
<1>21. ASSUME NEW t \in Threads, SwapCallbackSet(t) PROVE ProtocolInv'
  BY <1>21 DEF SwapCallbackSet
<1>16. ASSUME NEW t \in Threads, InvokeCallback(t) PROVE ProtocolInv'
  BY <1>16 DEF InvokeCallback
<1>17. ASSUME NEW t \in Threads, InvalidDuration(t) PROVE ProtocolInv'
  BY <1>17 DEF InvalidDuration
<1>18. ASSUME NEW t \in Threads, DeadlinePasses(t) PROVE ProtocolInv'
  BY <1>18 DEF DeadlinePasses
<1>19. ASSUME NEW t \in Threads, LeaveCondvar(t) PROVE ProtocolInv'
  BY <1>19 DEF LeaveCondvar
<1>20. CASE Free \/ Finished \/ UNCHANGED vars
  BY <1>20 DEF Free, Finished, vars
<1> HIDE DEF TypeOK, ProtocolInv
<1> QED
  BY <1>1, <1>2, <1>3, <1>4, <1>5, <1>6, <1>7, <1>8, <1>9, <1>10, <1>11,
     <1>12, <1>13, <1>14, <1>15, <1>16, <1>17, <1>18, <1>19, <1>20, <1>21
  DEF Next, TaskNext, ThreadStep

LEMMA InitInv == Init => TypeOK /\ ProtocolInv
<1> SUFFICES ASSUME Init PROVE TypeOK /\ ProtocolInv
  OBVIOUS
<1>0. freed \in BOOLEAN
  BY Zenon DEF Init
<1>1. TypeOK
  BY <1>0 DEF Init, TypeOK, TaskStates, ThreadStates
<1>2. ProtocolInv
  BY DEF Init, ProtocolInv, LockInv, TaskInv, HandleInv, CallbackInv, Ready,
         CallbackAtMostOnce, CallbackNotForgotten, NoStrandedWaiter
<1> QED BY <1>1, <1>2

(* Type correctness and the protocol invariant of a CassFuture.             *)
THEOREM ProtocolInvariant == Spec => []FutureInv
<1>1. TypeOK /\ ProtocolInv /\ [Next]_vars => (TypeOK /\ ProtocolInv)'
  BY TypeStep, ProtocolStep DEF ProtocolInv
<1> QED BY InitInv, <1>1, PTL DEF Spec, FutureInv

(* The callback set by cass_future_set_callback runs at most once, and only *)
(* after the result is visible.                                             *)
THEOREM CallbackOnce == Spec => []CallbackAtMostOnce
BY ProtocolInvariant, PTL DEF FutureInv, ProtocolInv

(* A registered callback of a resolved future has run, or the task or the   *)
(* registering thread is committed to run it.                               *)
THEOREM CallbackKept == Spec => []CallbackNotForgotten
BY ProtocolInvariant, PTL DEF FutureInv, ProtocolInv

(* No thread sleeps on wait_for_value after notify_all, nor while the       *)
(* handle is free and nobody awake is going to take it.                     *)
THEOREM NoLostWakeup == Spec => []NoStrandedWaiter
BY ProtocolInvariant, PTL DEF FutureInv, ProtocolInv

(* The JoinHandle is with a driving thread, in the shared state, or the     *)
(* task is finished and its result visible.                                 *)
THEOREM HandleKept == Spec => []HandleNotLost
<1>1. TypeOK /\ ProtocolInv => HandleNotLost
  BY DEF TypeOK, ProtocolInv, HandleInv, TaskInv, HandleNotLost, Ready
<1> QED BY ProtocolInvariant, <1>1, PTL DEF FutureInv

(* The future implements the one-shot cell: each step of the protocol is a  *)
(* step of OneShot or a stutter.                                            *)
THEOREM RefinesOneShot == Spec => ImplementsOneShot
<1>1. Init => Abstract!Init
  BY DEF Init, Abstract!Init
<1>2. TypeOK /\ ProtocolInv /\ [Next]_vars => [Abstract!Next]_(Abstract!osVars)
  <2> SUFFICES ASSUME TypeOK, ProtocolInv, [Next]_vars
               PROVE  Abstract!Next \/ UNCHANGED Abstract!osVars
    OBVIOUS
  <2> USE DEF TypeOK, Return, Call, taskVars, Abstract!osVars
  <2>1. CASE TaskSetResult
    BY <2>1 DEF TaskSetResult, ProtocolInv, TaskInv, Ready, Abstract!Resolve,
                Abstract!Next
  <2>2. CASE TaskInvokeCallback
    BY <2>2 DEF TaskInvokeCallback, ProtocolInv, CallbackInv, TaskInv, Ready,
                Abstract!Fire, Abstract!Next
  <2>3. CASE StoreHandle \/ TaskReadCallback \/ TaskNotifyAll
    BY <2>3 DEF StoreHandle, TaskReadCallback, TaskNotifyAll
  <2>4. ASSUME NEW p \in Threads \cup {Worker, Other}, TaskReady(p)
        PROVE  UNCHANGED Abstract!osVars
    BY <2>4 DEF TaskReady
  <2>5. ASSUME NEW t \in Threads, NEW b \in BOOLEAN, WaitedResult(t, b)
        PROVE  Abstract!Begin(t) \/ Abstract!ReturnValue(t)
    BY <2>5 DEF WaitedResult, Abstract!Begin, Abstract!ReturnValue
  <2>6. ASSUME NEW t \in Threads, SetCallback(t) PROVE Abstract!Begin(t)
    BY <2>6 DEF SetCallback, Abstract!Begin
  <2>7. ASSUME NEW t \in Threads, LoopTurn(t) \/ BlockOnDone(t)
        PROVE  Abstract!ReturnValue(t) \/ UNCHANGED Abstract!osVars
    BY <2>7 DEF LoopTurn, BlockOnDone, ProtocolInv, TaskInv, Ready,
                Abstract!ReturnValue
  <2>8. ASSUME NEW t \in Threads,
               InvalidDuration(t) \/ Reacquire(t) \/ PutBack(t)
        PROVE  \/ \E why \in {"timeout", "invalid"} : Abstract!GiveUp(t, why)
               \/ UNCHANGED Abstract!osVars
    BY <2>8 DEF InvalidDuration, Reacquire, PutBack, Abstract!GiveUp
  <2>9. ASSUME NEW t \in Threads, StoreCallback(t) \/ SwapCallbackSet(t)
        PROVE  Abstract!Register(t) \/ Abstract!Reject(t)
    BY <2>9 DEF StoreCallback, SwapCallbackSet, ProtocolInv, TaskInv, Ready,
                Abstract!Register, Abstract!Reject
  <2>10. ASSUME NEW t \in Threads, InvokeCallback(t) PROVE Abstract!Fire
    <3>1. callback = t /\ result # Unset /\ invoked = 0
      BY <2>10 DEF InvokeCallback, ProtocolInv, CallbackInv, TaskInv, Ready
    <3>2. invoked' > 0 /\ ret' = [ret EXCEPT ![callback] = "cb_ok"]
      BY <2>10, <3>1 DEF InvokeCallback
    <3>3. UNCHANGED <<result, callback>> /\ callback # Unset
      BY <2>10, <3>1 DEF InvokeCallback
    <3> QED BY <3>1, <3>2, <3>3 DEF Abstract!Fire
  <2>11. ASSUME NEW t \in Threads,
                Acquire(t) \/ DeadlinePasses(t) \/ LeaveCondvar(t)
                \/ BlockOnTimeout(t)
         PROVE  UNCHANGED Abstract!osVars
    BY <2>11 DEF Acquire, DeadlinePasses, LeaveCondvar, BlockOnTimeout
  <2>12. CASE Free \/ Finished \/ UNCHANGED vars
    BY <2>12 DEF Free, Finished, vars
  <2> QED
    BY <2>1, <2>2, <2>3, <2>4, <2>5, <2>6, <2>7, <2>8, <2>9, <2>10, <2>11,
       <2>12 DEF Next, TaskNext, ThreadStep, Abstract!Next
<1> QED
  BY <1>1, <1>2, ProtocolInvariant, PTL
     DEF Spec, FutureInv, ImplementsOneShot, Abstract!Spec

HIDE ConstantsAssumption

-----------------------------------------------------------------------------
(* The session.                                                             *)
USE SessionAssumption

(* The initial state is well typed and satisfies the invariant.             *)
LEMMA SessionInitInv == SessionInit => SessionTypeOK /\ SessionInv
BY DEF SessionInit, SessionTypeOK, SessionInv, GuardInv, ConnectionInv, ClientIdInv,
       Kinds, States, Outcomes

(* Every step keeps the types.                                              *)
LEMMA SessionTypeStep == SessionTypeOK /\ [SessionNext]_sessionVars => SessionTypeOK'
<1> SUFFICES ASSUME SessionTypeOK, [SessionNext]_sessionVars PROVE SessionTypeOK'
    OBVIOUS
<1> USE DEF SessionTypeOK, lockVars, Kinds, States, Outcomes, Resolve
<1>1. ASSUME NEW o \in Ops, NEW r \in Runtimes, NEW id \in ClientIds \cup {None},
             Connect(o, r, id)
      PROVE SessionTypeOK'
    BY <1>1 DEF Connect
<1>2. ASSUME NEW o \in Ops, Close(o) PROVE SessionTypeOK'
    BY <1>2 DEF Close, CloseFut
<1>3. ASSUME NEW o \in Ops, Request(o) PROVE SessionTypeOK'
    BY <1>3 DEF Request
<1>4. ASSUME NEW o \in Ops, FreeSession(o) PROVE SessionTypeOK'
    BY <1>4 DEF FreeSession, CloseFut
<1>5. ASSUME NEW o \in Ops, Await(o) PROVE SessionTypeOK'
    BY <1>5 DEF Await
<1>6. ASSUME NEW o \in Ops, TakeTurn(o) PROVE SessionTypeOK'
    BY <1>6 DEF TakeTurn, WriteRequest
<1>7. ASSUME NEW o \in Ops, GrantWrite(o) PROVE SessionTypeOK'
    BY <1>7 DEF GrantWrite
<1>8. ASSUME NEW o \in Ops, ConnectStart(o) PROVE SessionTypeOK'
    BY <1>8 DEF ConnectStart
<1>9. ASSUME NEW o \in Ops, NEW ok \in BOOLEAN, ConnectBuilt(o, ok) PROVE SessionTypeOK'
    BY <1>9 DEF ConnectBuilt
<1>10. ASSUME NEW o \in Ops, CloseFinish(o) PROVE SessionTypeOK'
    BY <1>10 DEF CloseFinish
<1>11. ASSUME NEW o \in Ops, RequestFinish(o) PROVE SessionTypeOK'
    BY <1>11 DEF RequestFinish
<1>12. CASE FreeReturns
    BY <1>12 DEF FreeReturns
<1>13. CASE UNCHANGED sessionVars
    BY <1>13 DEF sessionVars
<1> HIDE DEF SessionTypeOK
<1> QED
    BY <1>1, <1>2, <1>3, <1>4, <1>5, <1>6, <1>7, <1>8, <1>9, <1>10, <1>11, <1>12,
       <1>13 DEF SessionNext, TaskStep, AllDone

(* Every step keeps the invariant.                                          *)
LEMMA SessionStep == SessionTypeOK /\ SessionInv /\ [SessionNext]_sessionVars => SessionInv'
<1> SUFFICES ASSUME SessionTypeOK, SessionInv, [SessionNext]_sessionVars PROVE SessionInv'
    OBVIOUS
<1> USE DEF SessionTypeOK, lockVars, Resolve, SessionInv, GuardInv, ConnectionInv, ClientIdInv
<1>1. ASSUME NEW o \in Ops, NEW r \in Runtimes, NEW id \in ClientIds \cup {None},
             Connect(o, r, id)
      PROVE SessionInv'
    BY <1>1 DEF Connect
<1>2. ASSUME NEW o \in Ops, CloseFut(o) PROVE SessionInv'
    BY <1>2 DEF CloseFut
<1>3. ASSUME NEW o \in Ops, Request(o) PROVE SessionInv'
    BY <1>3 DEF Request, TryRead
<1>5. ASSUME NEW o \in Ops, Await(o) PROVE SessionInv'
    BY <1>5 DEF Await
<1>6. ASSUME NEW o \in Ops, TakeTurn(o) PROVE SessionInv'
    BY <1>6 DEF TakeTurn, WriteRequest
<1>7. ASSUME NEW o \in Ops, GrantWrite(o) PROVE SessionInv'
    BY <1>7 DEF GrantWrite
<1>8. ASSUME NEW o \in Ops, ConnectStart(o) PROVE SessionInv'
    BY <1>8 DEF ConnectStart
<1>9. ASSUME NEW o \in Ops, NEW ok \in BOOLEAN, ConnectBuilt(o, ok) PROVE SessionInv'
    BY <1>9 DEF ConnectBuilt
<1>10. ASSUME NEW o \in Ops, CloseFinish(o) PROVE SessionInv'
    BY <1>10 DEF CloseFinish
<1>11. ASSUME NEW o \in Ops, RequestFinish(o) PROVE SessionInv'
    BY <1>11 DEF RequestFinish
<1>12. CASE FreeReturns
    BY <1>12 DEF FreeReturns
<1>13. CASE UNCHANGED sessionVars
    BY <1>13 DEF sessionVars
<1> HIDE DEF SessionTypeOK, SessionInv
<1> QED
    BY <1>1, <1>2, <1>3, <1>5, <1>6, <1>7, <1>8, <1>9, <1>10, <1>11, <1>12, <1>13
       DEF SessionNext, TaskStep, AllDone, Close, FreeSession

(* The types and the invariant hold in every reachable state.               *)
THEOREM SessionInvariant == SessionSpec => []SessionSafe
<1>1. SessionTypeOK /\ SessionInv /\ [SessionNext]_sessionVars => (SessionTypeOK /\ SessionInv)'
    BY SessionTypeStep, SessionStep
<1> QED
    BY SessionInitInv, <1>1, PTL DEF SessionSpec, SessionSafe

(* A request keeps the connection it was started on, and never panics.      *)
THEOREM RequestKeeps == SessionSpec => []RequestKeepsSession
<1>1. SessionTypeOK /\ SessionInv => RequestKeepsSession
    BY DEF SessionInv, GuardInv, ConnectionInv, RequestKeepsSession
<1> QED
    BY SessionInvariant, <1>1, PTL DEF SessionSafe

(* A successful close leaves no request of its connection behind.           *)
THEOREM CloseWaits == SessionSpec => []CloseDrains
<1>1. SessionTypeOK /\ SessionInv => CloseDrains
    BY DEF SessionInv, GuardInv, ConnectionInv, CloseDrains, SessionTypeOK
<1> QED
    BY SessionInvariant, <1>1, PTL DEF SessionSafe

(* The client id the application reads is the one of the connected cluster. *)
THEOREM ClientIdIsClusters == SessionSpec => []ClientIdOfConnection
<1>1. SessionTypeOK /\ SessionInv => ClientIdOfConnection
    BY DEF SessionInv, ClientIdInv, ClientIdOfConnection, GetClientId
<1> QED
    BY SessionInvariant, <1>1, PTL DEF SessionSafe

(* The session implements the contract with no locks and tasks.             *)
THEOREM RefinesContract == SessionSpec => ImplementsContract
<1> DEFINE absVars == <<connected, readers,
                        [o \in Ops |-> IF op[o] = "request" THEN seen[o] ELSE None]>>
<1>1. SessionInit => Promise!Start
    BY DEF SessionInit, Promise!Start
<1>2. ASSUME SessionTypeOK, SessionInv, [SessionNext]_sessionVars
      PROVE [Promise!Step]_absVars
  <2> USE <1>2 DEF SessionTypeOK, lockVars, Resolve, SessionInv, GuardInv, ConnectionInv,
          Promise!Step
  <2>1. ASSUME NEW o \in Ops, NEW r \in Runtimes, NEW id \in ClientIds \cup {None},
               Connect(o, r, id)
        PROVE UNCHANGED absVars
      BY <2>1 DEF Connect
  <2>2. ASSUME NEW o \in Ops, CloseFut(o) PROVE UNCHANGED absVars
      BY <2>2 DEF CloseFut
  <2>3. ASSUME NEW o \in Ops, Request(o)
        PROVE Promise!Begin(o) \/ UNCHANGED absVars
    <3>1. CASE TryRead /\ connected # None
      <4>1. o \notin readers /\ readers' = readers \cup {o} /\ connected' = connected
          BY <2>3, <3>1 DEF Request
      <4>2. /\ op' = [op EXCEPT ![o] = "request"]
            /\ seen' = [seen EXCEPT ![o] = connected]
          BY <2>3, <3>1 DEF Request
      <4>3. [q \in Ops |-> IF op[q] = "request" THEN seen[q] ELSE None]'
              = [[q \in Ops |-> IF op[q] = "request" THEN seen[q] ELSE None]
                   EXCEPT ![o] = connected]
          BY <4>2, Zenon
      <4> QED
          BY <3>1, <4>1, <4>3 DEF Promise!Begin
    <3>2. CASE ~(TryRead /\ connected # None)
      <4>1. readers' = readers /\ connected' = connected /\ seen' = seen
          BY <2>3, <3>2 DEF Request
      <4>2. op' = [op EXCEPT ![o] = "request"] /\ seen[o] = None
          BY <2>3, <3>2 DEF Request
      <4>3. [q \in Ops |-> IF op[q] = "request" THEN seen[q] ELSE None]'
              = [q \in Ops |-> IF op[q] = "request" THEN seen[q] ELSE None]
          BY <4>1, <4>2
      <4> QED
          BY <4>1, <4>3
    <3> QED
        BY <3>1, <3>2
  <2>4. ASSUME NEW o \in Ops, NEW ok \in BOOLEAN, ConnectBuilt(o, ok)
        PROVE Promise!Open(o) \/ UNCHANGED absVars
      BY <2>4 DEF ConnectBuilt, Promise!Open
  <2>5. ASSUME NEW o \in Ops, CloseFinish(o) PROVE Promise!Shut
      BY <2>5 DEF CloseFinish, Promise!Shut
  <2>6. ASSUME NEW o \in Ops, RequestFinish(o) PROVE Promise!End(o)
      BY <2>6 DEF RequestFinish, Promise!End
  <2>7. ASSUME NEW o \in Ops,
               TakeTurn(o) \/ GrantWrite(o) \/ ConnectStart(o) \/ Await(o)
        PROVE UNCHANGED absVars
    <3>1. UNCHANGED <<connected, readers, op, seen>>
        BY <2>7, Zenon DEF TakeTurn, GrantWrite, ConnectStart, Await
    <3> QED
        BY <3>1, Zenon
  <2>8. ASSUME FreeReturns \/ UNCHANGED sessionVars PROVE UNCHANGED absVars
    <3>1. UNCHANGED <<connected, readers, op, seen>>
        BY <2>8, Zenon DEF FreeReturns, sessionVars
    <3> QED
        BY <3>1, Zenon
  <2> HIDE DEF SessionTypeOK, SessionInv, absVars
  <2> QED
      BY <2>1, <2>2, <2>3, <2>4, <2>5, <2>6, <2>7, <2>8
         DEF SessionNext, TaskStep, AllDone, Close, FreeSession
<1> QED
    BY <1>1, <1>2, SessionInvariant, PTL
       DEF SessionSpec, SessionSafe, ImplementsContract, Promise!Contract

(* No connect replaces a live connection.                                   *)
THEOREM OneConnection == SessionSpec => NeverReplaced
<1>1. ASSUME SessionTypeOK, SessionInv, [SessionNext]_sessionVars
      PROVE [connected # None => connected' \in {connected, None}]_connected
  <2> USE <1>1 DEF SessionTypeOK, lockVars, SessionInv, GuardInv
  <2>1. ASSUME NEW o \in Ops, NEW ok \in BOOLEAN, ConnectBuilt(o, ok)
        PROVE connected = None
      BY <2>1 DEF ConnectBuilt
  <2>2. ASSUME NEW o \in Ops, CloseFinish(o) PROVE connected' = None
      BY <2>2 DEF CloseFinish
  <2>3. ASSUME NEW o \in Ops,
               \/ \E r \in Runtimes, id \in ClientIds \cup {None} : Connect(o, r, id)
               \/ Close(o) \/ Request(o) \/ FreeSession(o) \/ Await(o)
               \/ TakeTurn(o) \/ GrantWrite(o) \/ ConnectStart(o) \/ RequestFinish(o)
        PROVE  connected' = connected
      BY <2>3, Zenon DEF Connect, Close, Request, FreeSession, CloseFut, Await, TakeTurn, GrantWrite,
         ConnectStart, RequestFinish
  <2>4. CASE FreeReturns \/ AllDone \/ UNCHANGED sessionVars
      BY <2>4 DEF FreeReturns, AllDone, sessionVars
  <2> HIDE DEF SessionTypeOK, SessionInv
  <2> QED BY <2>1, <2>2, <2>3, <2>4 DEF SessionNext, TaskStep
<1> QED
    BY <1>1, SessionInvariant, PTL DEF SessionSpec, SessionSafe, NeverReplaced

(* The client id does not change while the session is connected.            *)
THEOREM ClientIdKept == SessionSpec => ClientIdStable
<1>1. ASSUME [SessionNext]_sessionVars
      PROVE [connected # None => clientId' = clientId]_<<connected, clientId>>
  <2>1. ASSUME NEW o \in Ops, ConnectStart(o), connected # None
        PROVE clientId' = clientId
      BY <2>1 DEF ConnectStart
  <2> QED
      BY <1>1, <2>1 DEF SessionNext, TaskStep, AllDone, Close, FreeSession, CloseFut, Connect,
         Request, Await, TakeTurn, GrantWrite, ConnectBuilt, CloseFinish, RequestFinish,
         FreeReturns, sessionVars
<1> QED
    BY <1>1, PTL DEF SessionSpec, ClientIdStable
=============================================================================
