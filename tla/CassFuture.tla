----------------------------- MODULE CassFuture -----------------------------
(***************************************************************************)
(* One CassFuture (future.rs): the result cell, the callback slot and the  *)
(* tokio JoinHandle shared by the task that resolves the future and by any *)
(* number of application threads that wait for it.                         *)
(*                                                                         *)
(* The mutex `state` is the variable lock; the parts of a critical section *)
(* that no unlocked read can see are one step.  The condition variable     *)
(* wait_for_value is the set of threads whose pc is "waiting".             *)
(***************************************************************************)
EXTENDS Naturals, FiniteSets

CONSTANTS Threads,       \* application threads calling the C API
          Results,       \* the values a future may resolve with
          Unset,         \* OnceLock not filled / no callback / mutex free
          Task,          \* the spawned tokio task
          Worker, Other, \* a runtime worker thread; the waiter of another future
          MaxCalls       \* bound: API calls each thread makes

ASSUME ConstantsAssumption ==
    /\ MaxCalls \in Nat
    /\ Task \notin Threads /\ Unset \notin Threads /\ Worker \notin Threads
    /\ Other \notin Threads /\ Unset # Task
    /\ Unset \notin Results
    /\ Results \cap {"none", "timeout", "invalid", "cb_ok", "cb_already_set"} = {}
    /\ {"creator", "state", "consumed"} \cap Threads = {}

VARIABLES
    kind,      \* FutureKind: "Immediate", or resolvable on a runtime that is
               \* "multi_thread" or "current_thread"
    result,    \* ResolvableFuture.result, or Immediate.res
    lock,      \* owner of the mutex ResolvableFuture.state
    callback,  \* CassFutureState.callback (its registrar), or callback_set
    handle,    \* where the JoinHandle is: "creator", "state" (join_handle is
               \* Some), the thread that took it, or "consumed"
    task,      \* program counter of the spawned task
    poller,    \* the thread that polls the task to completion
    pc,        \* program counter of each application thread
    timed,     \* is the wait of this thread a waited_result_timed
    expired,   \* has the deadline of this thread passed
    ret,       \* what the last call of each thread returned
    calls,     \* API calls made so far
    invoked,   \* how many times a callback has been invoked
    freed      \* has the application called cass_future_free

vars == <<kind, result, lock, callback, handle, task, poller, pc, timed,
          expired, ret, calls, invoked, freed>>

taskVars == <<result, task, poller>>

TaskStates == {"await", "ready", "set", "callback", "notify", "done"}
ThreadStates == {"idle", "acquire", "loop", "waiting", "reacquire", "block_on",
                 "putback", "cb_acquire", "cb_invoke"}

TypeOK ==
    /\ kind \in {"Immediate", "multi_thread", "current_thread"}
    /\ result \in Results \cup {Unset}
    /\ lock \in Threads \cup {Task, Unset}
    /\ callback \in Threads \cup {Unset}
    /\ handle \in Threads \cup {"creator", "state", "consumed"}
    /\ task \in TaskStates
    /\ poller \in Threads \cup {Worker, Other, Unset}
    /\ pc \in [Threads -> ThreadStates]
    /\ timed \in [Threads -> BOOLEAN]
    /\ expired \in [Threads -> BOOLEAN]
    /\ ret \in [Threads -> Results \cup {"none", "timeout", "invalid", "cb_ok",
                                         "cb_already_set"}]
    /\ calls \in [Threads -> 0 .. MaxCalls]
    /\ invoked \in Nat
    /\ freed \in BOOLEAN

-----------------------------------------------------------------------------
(* CassFuture::new_from_future (the task spawned, its handle still with the *)
(* creating call) or CassFuture::new_ready.                                 *)
Init ==
    /\ \/ /\ kind \in {"multi_thread", "current_thread"}
          /\ result = Unset /\ handle = "creator" /\ task = "await"
       \/ /\ kind = "Immediate"
          /\ result \in Results /\ handle = "consumed" /\ task = "done"
    /\ lock = Unset
    /\ callback = Unset
    /\ poller = Unset
    /\ pc = [t \in Threads |-> "idle"]
    /\ timed = [t \in Threads |-> FALSE]
    /\ expired = [t \in Threads |-> FALSE]
    /\ ret = [t \in Threads |-> "none"]
    /\ calls = [t \in Threads |-> 0]
    /\ invoked = 0
    /\ freed = FALSE

(* new_from_future stores the handle; only then does the application get    *)
(* the pointer.                                                             *)
StoreHandle ==
    /\ handle = "creator"
    /\ lock = Unset
    /\ handle' = "state"
    /\ UNCHANGED <<kind, freed, result, lock, callback, task, poller, pc,
                   timed, expired, ret, calls, invoked>>

-----------------------------------------------------------------------------
(* The spawned task.  Under a current_thread runtime it is polled only by a *)
(* thread that is inside block_on: the holder of the handle, or the waiter  *)
(* of some other future of the same runtime.                                *)
Pollers == IF kind = "multi_thread" THEN {Worker}
           ELSE {t \in Threads : pc[t] = "block_on"} \cup {Other}

TaskReady(p) ==                    \* fut.await yields
    /\ task = "await"
    /\ p \in Pollers
    /\ task' = "ready"
    /\ poller' = p
    /\ UNCHANGED <<kind, freed, result, lock, callback, handle, pc, timed,
                   expired, ret, calls, invoked>>

TaskSetResult ==                   \* lock; result.set(r)
    /\ task = "ready"
    /\ lock = Unset
    /\ lock' = Task
    /\ result' \in Results
    /\ task' = "set"
    /\ UNCHANGED <<kind, freed, callback, handle, poller, pc, timed, expired,
                   ret, calls, invoked>>

TaskReadCallback ==                \* read guard.callback; unlock
    /\ task = "set"
    /\ lock' = Unset
    /\ task' = IF callback = Unset THEN "notify" ELSE "callback"
    /\ UNCHANGED <<kind, freed, result, callback, handle, poller, pc, timed,
                   expired, ret, calls, invoked>>

TaskInvokeCallback ==
    /\ task = "callback"
    /\ task' = "notify"
    /\ invoked' = invoked + 1
    /\ UNCHANGED <<kind, freed, result, lock, callback, handle, poller, pc,
                   timed, expired, ret, calls>>

BugNotifyNobody ==                 \* a mutant: notify_all is forgotten
    /\ task = "notify"
    /\ task' = "done"
    /\ poller' = Unset
    /\ UNCHANGED <<kind, freed, result, lock, callback, handle, pc, timed,
                   expired, ret, calls, invoked>>

TaskNotifyAll ==
    /\ task = "notify"
    /\ task' = "done"
    /\ poller' = Unset
    /\ pc' = [t \in Threads |->
                 IF pc[t] = "waiting" THEN "reacquire" ELSE pc[t]]
    /\ UNCHANGED <<kind, freed, result, lock, callback, handle, timed,
                   expired, ret, calls, invoked>>

TaskNext ==
    \/ \E p \in Threads \cup {Worker, Other} : TaskReady(p)
    \/ TaskSetResult \/ TaskReadCallback \/ TaskInvokeCallback \/ TaskNotifyAll

-----------------------------------------------------------------------------
(* waited_result and waited_result_timed.                                   *)
Return(t, v) == ret' = [ret EXCEPT ![t] = v]
GoTo(t, s) == pc' = [pc EXCEPT ![t] = s]

Call(t) ==
    /\ pc[t] = "idle"
    /\ handle # "creator" /\ ~freed
    /\ calls[t] < MaxCalls
    /\ calls' = [calls EXCEPT ![t] = @ + 1]

(* Entry: Immediate futures and the happy path return without the mutex.    *)
WaitedResult(t, isTimed) ==
    /\ Call(t)
    /\ timed' = [timed EXCEPT ![t] = isTimed]
    /\ expired' = [expired EXCEPT ![t] = FALSE]
    /\ IF result # Unset
       THEN Return(t, result) /\ UNCHANGED pc
       ELSE Return(t, "none") /\ GoTo(t, "acquire")
    /\ UNCHANGED <<kind, freed, taskVars, lock, callback, handle, invoked>>

Acquire(t) ==
    /\ pc[t] = "acquire"
    /\ lock = Unset
    /\ lock' = t
    /\ GoTo(t, "loop")
    /\ UNCHANGED <<kind, freed, taskVars, callback, handle, timed, expired,
                   ret, calls, invoked>>

(* Instant::now().checked_add(timeout_duration) overflows.                  *)
InvalidDuration(t) ==
    /\ pc[t] = "acquire"
    /\ timed[t]
    /\ lock = Unset
    /\ Return(t, "invalid")
    /\ GoTo(t, "idle")
    /\ UNCHANGED <<kind, freed, taskVars, lock, callback, handle, timed,
                   expired, calls, invoked>>

DeadlinePasses(t) ==
    /\ timed[t] /\ ~expired[t]
    /\ pc[t] \in {"loop", "waiting", "reacquire", "block_on"}
    /\ expired' = [expired EXCEPT ![t] = TRUE]
    /\ UNCHANGED <<kind, freed, taskVars, lock, callback, handle, pc, timed,
                   ret, calls, invoked>>

(* A mutant: a woken waiter trusts that the future has been resolved.       *)
BugTrustWakeup(t) ==
    /\ pc[t] = "loop"
    /\ lock' = Unset
    /\ Return(t, result)
    /\ GoTo(t, "idle")
    /\ UNCHANGED <<kind, freed, taskVars, callback, handle, timed, expired,
                   calls, invoked>>

(* One turn of the loop with the mutex held: return the result, take the    *)
(* handle and drive it, or sleep on the condition variable (the predicate   *)
(* of wait_while was just seen true and cannot change under the mutex).     *)
LoopTurn(t) ==
    /\ pc[t] = "loop"
    /\ lock' = Unset
    /\ \/ /\ result # Unset
          /\ Return(t, result)
          /\ GoTo(t, "idle")
          /\ UNCHANGED handle
       \/ /\ result = Unset /\ handle = "state"
          /\ handle' = t
          /\ GoTo(t, "block_on")
          /\ UNCHANGED ret
       \/ /\ result = Unset /\ handle # "state"
          /\ GoTo(t, "waiting")
          /\ UNCHANGED <<handle, ret>>
    /\ UNCHANGED <<kind, freed, taskVars, callback, timed, expired, calls,
                   invoked>>

(* The condition variable wakes spuriously, or wait_timeout gives up.       *)
LeaveCondvar(t) ==
    /\ pc[t] = "waiting"
    /\ GoTo(t, "reacquire")
    /\ UNCHANGED <<kind, freed, taskVars, lock, callback, handle, timed,
                   expired, ret, calls, invoked>>

(* Back from the condition variable with the mutex held: the predicate is   *)
(* evaluated before the timeout.                                            *)
KeepWaiting == result = Unset /\ handle # "state"

Reacquire(t) ==
    /\ pc[t] = "reacquire"
    /\ lock = Unset
    /\ \/ /\ ~KeepWaiting
          /\ lock' = t
          /\ GoTo(t, "loop")
          /\ UNCHANGED ret
       \/ /\ KeepWaiting /\ ~expired[t]
          /\ GoTo(t, "waiting")
          /\ UNCHANGED <<lock, ret>>
       \/ /\ KeepWaiting /\ expired[t]
          /\ Return(t, "timeout")
          /\ GoTo(t, "idle")
          /\ UNCHANGED lock
    /\ UNCHANGED <<kind, freed, taskVars, callback, handle, timed, expired,
                   calls, invoked>>

BlockOnDone(t) ==                  \* the JoinHandle is ready: task finished
    /\ pc[t] = "block_on"
    /\ task = "done"
    /\ handle' = "consumed"
    /\ Return(t, result)
    /\ GoTo(t, "idle")
    /\ UNCHANGED <<kind, freed, taskVars, lock, callback, timed, expired,
                   calls, invoked>>

(* The sleep wins the select.  The thread that is itself polling the task   *)
(* looks at the timer only between polls.                                   *)
BlockOnTimeout(t) ==
    /\ pc[t] = "block_on"
    /\ expired[t]
    /\ task # "done"
    /\ poller # t
    /\ GoTo(t, "putback")
    /\ UNCHANGED <<kind, freed, taskVars, lock, callback, handle, timed,
                   expired, ret, calls, invoked>>

(* A mutant: nobody is notified of the returned handle.                     *)
BugPutBackSilently(t) ==
    /\ pc[t] = "putback"
    /\ lock = Unset
    /\ handle' = "state"
    /\ Return(t, "timeout")
    /\ GoTo(t, "idle")
    /\ UNCHANGED <<kind, freed, taskVars, lock, callback, timed, expired,
                   calls, invoked>>

(* lock; join_handle = Some(returned_handle); notify_one; unlock.           *)
PutBack(t) ==
    /\ pc[t] = "putback"
    /\ lock = Unset
    /\ handle' = "state"
    /\ Return(t, "timeout")
    /\ LET sleepers == {u \in Threads : pc[u] = "waiting"}
       IN \/ /\ sleepers = {}
             /\ GoTo(t, "idle")
          \/ \E u \in sleepers :
                pc' = [pc EXCEPT ![t] = "idle", ![u] = "reacquire"]
    /\ UNCHANGED <<kind, freed, taskVars, lock, callback, timed, expired,
                   calls, invoked>>

-----------------------------------------------------------------------------
(* cass_future_set_callback.                                                *)
SetCallback(t) ==
    /\ Call(t)
    /\ Return(t, "none")
    /\ GoTo(t, "cb_acquire")
    /\ UNCHANGED <<kind, freed, taskVars, lock, callback, handle, timed,
                   expired, invoked>>

(* A mutant: a callback set after the result is left to the task.           *)
BugNeverInvoke(t) ==
    /\ pc[t] = "cb_acquire" /\ kind # "Immediate" /\ lock = Unset
    /\ callback' = IF callback = Unset THEN t ELSE callback
    /\ Return(t, IF callback = Unset THEN "cb_ok" ELSE "cb_already_set")
    /\ GoTo(t, "idle")
    /\ UNCHANGED <<kind, freed, taskVars, lock, handle, timed, expired, calls,
                   invoked>>

(* The critical section of ResolvableFuture::set_callback.                  *)
StoreCallback(t) ==
    /\ pc[t] = "cb_acquire" /\ kind # "Immediate" /\ lock = Unset
    /\ \/ /\ callback # Unset
          /\ Return(t, "cb_already_set")
          /\ GoTo(t, "idle")
          /\ UNCHANGED callback
       \/ /\ callback = Unset
          /\ callback' = t
          /\ IF result # Unset
             THEN GoTo(t, "cb_invoke") /\ UNCHANGED ret
             ELSE GoTo(t, "idle") /\ Return(t, "cb_ok")
    /\ UNCHANGED <<kind, freed, taskVars, lock, handle, timed, expired, calls,
                   invoked>>

(* The atomic swap of callback_set in an Immediate future.                  *)
SwapCallbackSet(t) ==
    /\ pc[t] = "cb_acquire" /\ kind = "Immediate"
    /\ \/ /\ callback # Unset
          /\ Return(t, "cb_already_set")
          /\ GoTo(t, "idle")
          /\ UNCHANGED callback
       \/ /\ callback = Unset
          /\ callback' = t
          /\ GoTo(t, "cb_invoke")
          /\ UNCHANGED ret
    /\ UNCHANGED <<kind, freed, taskVars, lock, handle, timed, expired, calls,
                   invoked>>

InvokeCallback(t) ==
    /\ pc[t] = "cb_invoke"
    /\ invoked' = invoked + 1
    /\ Return(t, "cb_ok")
    /\ GoTo(t, "idle")
    /\ UNCHANGED <<kind, freed, taskVars, lock, callback, handle, timed,
                   expired, calls>>

ThreadStep(t) ==
    \/ Acquire(t) \/ LoopTurn(t) \/ Reacquire(t)
    \/ BlockOnDone(t) \/ BlockOnTimeout(t) \/ PutBack(t)
    \/ StoreCallback(t) \/ SwapCallbackSet(t) \/ InvokeCallback(t)

(* cass_future_free, which the application may call once no other call on   *)
(* the future is running.  The task keeps its own Arc, with everything that *)
(* it points to, until it has finished.                                     *)
Free ==
    /\ handle # "creator" /\ ~freed
    /\ \A t \in Threads : pc[t] = "idle"
    /\ freed' = TRUE
    /\ UNCHANGED <<kind, taskVars, lock, callback, handle, pc, timed, expired,
                   ret, calls, invoked>>

(* Every call has returned and no more will come.                           *)
Finished ==
    /\ \A t \in Threads : pc[t] = "idle" /\ (freed \/ calls[t] = MaxCalls)
    /\ task = "done"
    /\ UNCHANGED vars

Next ==
    \/ StoreHandle
    \/ TaskNext
    \/ \E t \in Threads :
          \/ \E isTimed \in BOOLEAN : WaitedResult(t, isTimed)
          \/ SetCallback(t)
          \/ ThreadStep(t)
          \/ InvalidDuration(t) \/ DeadlinePasses(t) \/ LeaveCondvar(t)
    \/ Free
    \/ Finished

Spec == Init /\ [][Next]_vars

(* The runtime polls the task (a worker thread, or the thread that holds the *)
(* handle), every thread keeps running, and clocks reach their deadlines.    *)
(* Nobody promises that another future is waited for, nor spurious wakeups.  *)
Fairness ==
    /\ WF_vars(StoreHandle)
    /\ WF_vars(\E p \in Threads \cup {Worker} : TaskReady(p))
    /\ WF_vars(TaskSetResult \/ TaskReadCallback \/ TaskInvokeCallback
               \/ TaskNotifyAll)
    /\ \A t \in Threads : /\ WF_vars(ThreadStep(t))
                          /\ WF_vars(DeadlinePasses(t))
                          /\ WF_vars(expired[t] /\ LeaveCondvar(t))

FairSpec == Spec /\ Fairness

-----------------------------------------------------------------------------
(* cass_future_ready.                                                       *)
Ready == result # Unset

(* The callback given to cass_future_set_callback runs at most once, and     *)
(* never before the result is visible: both the task and the registering     *)
(* thread may be the one to invoke it, and they decide under the mutex.      *)
CallbackAtMostOnce ==
    /\ invoked <= 1
    /\ invoked = 1 => callback # Unset /\ Ready

(* A registered callback of a resolved future is never forgotten: either it  *)
(* has run, or the task or the registering thread is committed to run it.    *)
CallbackNotForgotten ==
    Ready /\ callback # Unset /\ invoked = 0 =>
        \/ task \in {"set", "callback"}
        \/ pc[callback] = "cb_invoke"

(* No wakeup is lost.  While a thread sleeps on wait_for_value, notify_all   *)
(* is still to come; and if the handle of the unresolved future lies in the   *)
(* shared state, where no one drives it, some other thread is awake and      *)
(* about to take it.                                                         *)
NoStrandedWaiter ==
    (\E t \in Threads : pc[t] = "waiting") =>
        /\ task # "done"
        /\ handle = "state" /\ ~Ready =>
              \E u \in Threads : pc[u] \in {"reacquire", "loop"}

(* The handle always has a place: a thread that took it is driving it or     *)
(* about to put it back, and it is given up only when the task has finished, *)
(* so an unfinished future can always be driven by the next waiter.          *)
HandleNotLost ==
    /\ handle \in Threads => pc[handle] \in {"block_on", "putback"}
    /\ handle = "consumed" => task = "done" /\ Ready

(* The future keeps the promise of OneShot: every step of the protocol is a  *)
(* step of the one-shot cell or leaves it alone.                             *)
Abstract == INSTANCE OneShot WITH fired <- invoked > 0

ImplementsOneShot == Abstract!Spec

(* The inductive invariant behind the safety properties: who owns the mutex  *)
(* and the handle, what the task's position says about the result, and who   *)
(* has committed to invoke the callback.                                     *)
LockInv ==
    /\ \A t \in Threads : lock = t <=> pc[t] = "loop"
    /\ lock = Task <=> task = "set"

TaskInv ==
    /\ Ready <=> task \notin {"await", "ready"}
    /\ kind = "Immediate" => task = "done"

HandleInv ==
    /\ \A t \in Threads : handle = t <=> pc[t] \in {"block_on", "putback"}
    /\ handle = "consumed" => task = "done"
    /\ handle = "creator" => \A t \in Threads : pc[t] = "idle"

CallbackInv ==
    /\ \A t \in Threads : pc[t] = "cb_invoke" =>
           callback = t /\ invoked = 0 /\ task \in {"notify", "done"}
    /\ task = "callback" => callback # Unset /\ invoked = 0
    /\ callback = Unset \/ task \in {"await", "ready", "set"} => invoked = 0

ProtocolInv ==
    /\ LockInv /\ TaskInv /\ HandleInv /\ CallbackInv
    /\ CallbackAtMostOnce /\ CallbackNotForgotten /\ NoStrandedWaiter

FutureInv == TypeOK /\ ProtocolInv

(* Every cass_future_wait and cass_future_wait_timed eventually returns.     *)
WaitReturns == \A t \in Threads : pc[t] # "idle" ~> pc[t] = "idle"

(* A callback registered on a future that gets resolved eventually runs.     *)
CallbackRuns == callback # Unset /\ Ready ~> invoked = 1

=============================================================================
