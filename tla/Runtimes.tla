------------------------------ MODULE Runtimes ------------------------------
(***************************************************************************)
(* The tokio runtimes (runtime.rs) and who keeps them alive.  A cache maps *)
(* a thread count to a weak pointer; connecting upgrades it or replaces it *)
(* by a new runtime.  The strong pointers are held by connected sessions,  *)
(* by CassFutures and by connect tasks; a CassFuture is itself held by the *)
(* application and by the task that resolves it.  When the last strong     *)
(* pointer goes, the runtime is shut down with whatever still runs on it.  *)
(* A runtime is named by the connect call that made it.  The lock of a     *)
(* session is modelled in CassSession; here a task runs in one step.       *)
(***************************************************************************)
EXTENDS Naturals

CONSTANTS Sessions,
          ThreadCounts,   \* what num_threads_io may be, Nil for unset
          Nil,
          MaxOps          \* connects, closes and requests in a behaviour

Ops == 1 .. MaxOps

ASSUME RuntimesAssumption ==
    /\ MaxOps \in Nat
    /\ Nil \in ThreadCounts
    /\ Nil \notin Ops
    /\ Nil \notin [kind : {"connect", "close", "request"}, session : Sessions, runtime : Ops,
                   task : {"pending", "done", "cancelled"}, held : {"yes", "no"}]

VARIABLES cache,      \* RUNTIMES: the Weak of each thread count
          threads,    \* the thread count of each runtime made
          owners,     \* the strong pointers to each runtime
          connected,  \* CassSessionInner.connected: the runtime, or Nil
          ops         \* the CassFutures and the tasks that resolve them

runtimeVars == <<cache, threads, owners, connected, ops>>

Op == [kind : {"connect", "close", "request"}, session : Sessions, runtime : Ops,
       task : {"pending", "done", "cancelled"}, held : {"yes", "no"}]

RuntimesInit ==
    /\ cache = [n \in ThreadCounts |-> Nil]
    /\ threads = [r \in Ops |-> Nil]
    /\ owners = [r \in Ops |-> {}]
    /\ connected = [s \in Sessions |-> Nil]
    /\ ops = [o \in Ops |-> Nil]

-----------------------------------------------------------------------------
(* Strong pointers: of the future, of the connect task, of the session.     *)
FutureOf(o) == <<"future", o>>
TaskOf(o) == <<"task", o>>
SessionOf(s) == <<"session", s>>

BugNeverUpgraded(cached, new) == new   \* the cached runtime is not looked at

(* Weak::upgrade, or the new runtime when nothing holds the cached one.     *)
cached_or_new_runtime(cached, new) ==
    IF cached # Nil /\ owners[cached] # {} THEN cached ELSE new

Fresh(o) == ops[o] = Nil /\ \A p \in 1 .. o - 1 : ops[p] # Nil

NewOp(kind, s, rt) ==
    [kind |-> kind, session |-> s, runtime |-> rt, task |-> "pending", held |-> "yes"]

Release(own, gone) == [r \in Ops |-> own[r] \ gone]

(* Runtime::drop, shutdown_background: a runtime nobody owns any more takes *)
(* its unfinished tasks with it.                                            *)
Shutdown(all, own) ==
    [o \in Ops |-> IF all[o] # Nil /\ all[o].task = "pending" /\ own[all[o].runtime] = {}
                   THEN [all[o] EXCEPT !.task = "cancelled"] ELSE all[o]]

(* CassConnectedSession::connect: a pointer for the future, one for the task.*)
connect(o, s, n) ==
    /\ Fresh(o)
    /\ LET rt == cached_or_new_runtime(cache[n], o)
       IN  /\ cache' = [cache EXCEPT ![n] = rt]
           /\ threads' = [threads EXCEPT ![rt] = n]
           /\ owners' = [owners EXCEPT ![rt] = @ \cup {FutureOf(o), TaskOf(o)}]
           /\ ops' = [ops EXCEPT ![o] = NewOp("connect", s, rt)]
    /\ UNCHANGED connected

(* A future that needs a connected session takes a pointer from it: close   *)
(* and the requests.  Without a connection the future is ready at once.     *)
StartOnSession(o, kind, s) ==
    /\ Fresh(o) /\ connected[s] # Nil
    /\ ops' = [ops EXCEPT ![o] = NewOp(kind, s, connected[s])]
    /\ owners' = [owners EXCEPT ![connected[s]] = @ \cup {FutureOf(o)}]
    /\ UNCHANGED <<cache, threads, connected>>

-----------------------------------------------------------------------------
BugTaskBorrows(o) == {FutureOf(o)}  \* the task has no pointer to its future

(* The pointers dropped when the application frees the future of o: none    *)
(* while the task still holds the future.                                   *)
DroppedByFree(o) == IF ops[o].task = "pending" THEN {} ELSE {FutureOf(o)}

(* ... and when the task of o ends.                                         *)
DroppedByTask(o) == {TaskOf(o)} \cup IF ops[o].held = "no" THEN {FutureOf(o)} ELSE {}

Finish(o, own) ==
    /\ owners' = own
    /\ ops' = Shutdown([ops EXCEPT ![o].task = "done"], own)
    /\ UNCHANGED <<cache, threads>>

(* A request holds the session's read guard until its task ends.            *)
Unguarded(s) ==
    \A o \in Ops : ~(ops[o] # Nil /\ ops[o].kind = "request" /\ ops[o].session = s
                        /\ ops[o].task = "pending")

Running(o, kind) == ops[o] # Nil /\ ops[o].kind = kind /\ ops[o].task = "pending"

(* connect_fut: the task's pointer becomes the session's, or is dropped when *)
(* the session is already connected or cannot be built.                     *)
connect_fut(o) ==
    LET s == ops[o].session
        rt == ops[o].runtime
    IN  /\ Running(o, "connect") /\ Unguarded(s)
        /\ \/ /\ connected[s] = Nil
              /\ connected' = [connected EXCEPT ![s] = rt]
              /\ Finish(o, Release([owners EXCEPT ![rt] = @ \cup {SessionOf(s)}],
                                   DroppedByTask(o)))
           \/ /\ UNCHANGED connected
              /\ Finish(o, Release(owners, DroppedByTask(o)))

(* close_fut: dropping the connection drops its pointer.                    *)
close_fut(o) ==
    LET s == ops[o].session
    IN  /\ Running(o, "close") /\ Unguarded(s)
        /\ connected' = [connected EXCEPT ![s] = Nil]
        /\ Finish(o, Release(owners, DroppedByTask(o) \cup {SessionOf(s)}))

request_fut(o) ==
    /\ Running(o, "request")
    /\ UNCHANGED connected
    /\ Finish(o, Release(owners, DroppedByTask(o)))

(* cass_future_free.                                                        *)
future_free(o) ==
    /\ ops[o] # Nil /\ ops[o].held = "yes"
    /\ LET own == Release(owners, DroppedByFree(o))
       IN  /\ owners' = own
           /\ ops' = Shutdown([ops EXCEPT ![o].held = "no"], own)
    /\ UNCHANGED <<cache, threads, connected>>

(* What goes on without the cluster.                                        *)
RuntimesNext ==
    \E o \in Ops :
        \/ \E s \in Sessions : StartOnSession(o, "close", s) \/ StartOnSession(o, "request", s)
        \/ connect_fut(o) \/ close_fut(o) \/ request_fut(o) \/ future_free(o)

-----------------------------------------------------------------------------
Alive == {r \in Ops : owners[r] # {}}

RuntimesTypeOK ==
    /\ cache \in [ThreadCounts -> Ops \cup {Nil}]
    /\ threads \in [Ops -> ThreadCounts]
    /\ connected \in [Sessions -> Ops \cup {Nil}]
    /\ ops \in [Ops -> Op \cup {Nil}]

Pointers == {FutureOf(o) : o \in Ops} \cup {TaskOf(o) : o \in Ops}
                \cup {SessionOf(s) : s \in Sessions}

(* A runtime is owned by exactly the futures that are held or unfinished,    *)
(* the connect tasks that run, and the sessions connected on it: it is       *)
(* neither dropped under them nor kept by anything else.                     *)
OwnersExact ==
    /\ owners \in [Ops -> SUBSET Pointers]
    /\ \A r, o \in Ops :
          /\ FutureOf(o) \in owners[r] <=> /\ ops[o] # Nil /\ ops[o].runtime = r
                                           /\ ops[o].held = "yes" \/ ops[o].task = "pending"
          /\ TaskOf(o) \in owners[r] <=> Running(o, "connect") /\ ops[o].runtime = r
    /\ \A r \in Ops, s \in Sessions : SessionOf(s) \in owners[r] <=> connected[s] = r

(* A runtime is named by a call that was made.                               *)
Made ==
    /\ \A n \in ThreadCounts :
          cache[n] # Nil => ops[cache[n]] # Nil /\ threads[cache[n]] = n
    /\ \A o \in Ops : ops[o] # Nil => ops[ops[o].runtime] # Nil
    /\ \A s \in Sessions : connected[s] # Nil => ops[connected[s]] # Nil

(* cassandra.h, cass_cluster_set_num_threads_io, and runtime.rs ("Once a     *)
(* runtime is created, it is cached for future use"): connections and        *)
(* futures that live at the same time and asked for the same thread count    *)
(* share one runtime, across closes and re-creations.                        *)
OneRuntimePerCount == \A r, q \in Alive : threads[r] = threads[q] => r = q

(* No task is cut off by the shutdown of its runtime, even when the          *)
(* application frees its future and closes the session in between: waiting   *)
(* for a future unwraps the join of its task (future.rs, waited_result), and *)
(* a freed future still owes its callback.                                   *)
TaskNeverCancelled == \A o \in Ops : ops[o] # Nil => ops[o].task # "cancelled"

(* The inductive invariant: who owns what, and every runtime that is alive   *)
(* is the one the cache gives for its thread count.                          *)
RuntimesInv ==
    /\ RuntimesTypeOK
    /\ OwnersExact
    /\ Made
    /\ \A r \in Alive : cache[threads[r]] = r
    /\ TaskNeverCancelled
=============================================================================
