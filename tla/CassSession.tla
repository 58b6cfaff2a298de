----------------------------- MODULE CassSession -----------------------------
(***************************************************************************)
(* A CassSession (session.rs): tokio's fair async RwLock around an         *)
(* optional connected session.  Connects and closes take the write lock in *)
(* a spawned task; a request takes a read guard synchronously and keeps it *)
(* until its future is resolved.  Every API call that yields a future is   *)
(* an operation with an identity of its own.                               *)
(***************************************************************************)
EXTENDS Naturals, Sequences, FiniteSets

CONSTANTS Ops,           \* identities of the calls (each used once: a bound)
          None,
          Runtimes,      \* the runtimes the clusters use
          CurrentThread, \* those of them that are current_thread
          ClientIds,     \* the ids cass_cluster_set_client_id may have set
          RandomId       \* the id given by cass_session_new

ASSUME SessionAssumption ==
    /\ None \notin Ops \cup Runtimes \cup ClientIds
    /\ {"no", "returned"} \cap Ops = {}
    /\ CurrentThread \subseteq Runtimes
    /\ RandomId \notin ClientIds \cup {None}

VARIABLES
    connected, \* CassSessionInner.connected: the connect that made it, or None
    clientId,  \* CassSessionInner.client_id
    readers,   \* requests holding a read guard
    writer,    \* the task holding the write guard, or None
    queue,     \* tasks waiting in write().await, first come first served
    op,        \* what each operation is
    state,     \* how far it is
    outcome,   \* the result its future was resolved with
    rt,        \* the runtime its task was spawned on
    seen,      \* the connection it saw in its synchronous part
    cid,       \* connect: the client id of the cluster, or None
    closed,    \* close: the connection it took down, or None
    awaited,   \* operations whose future some thread is waiting for
    free       \* cass_session_free: "no", the close it waits for, "returned"

sessionVars == <<connected, clientId, readers, writer, queue, op, state, outcome, rt,
                 seen, cid, closed, awaited, free>>
lockVars == <<readers, writer, queue>>

Kinds == {"none", "connect", "close", "request"}
States == {"unused", "spawned", "queued", "building", "running", "done"}
Outcomes == {"none", "ok", "unable_to_connect", "build_failed", "no_hosts",
             "unable_to_close", "request_failed", "panic"}

SessionTypeOK ==
    /\ connected \in Ops \cup {None}
    /\ clientId \in ClientIds \cup {RandomId}
    /\ readers \subseteq Ops
    /\ writer \in Ops \cup {None}
    /\ queue \in Seq(Ops)
    /\ op \in [Ops -> Kinds]
    /\ state \in [Ops -> States]
    /\ outcome \in [Ops -> Outcomes]
    /\ rt \in [Ops -> Runtimes \cup {None}]
    /\ seen \in [Ops -> Ops \cup {None}]
    /\ cid \in [Ops -> ClientIds \cup {None}]
    /\ closed \in [Ops -> Ops \cup {None}]
    /\ awaited \subseteq Ops
    /\ free \in Ops \cup {"no", "returned"}

(* cass_session_new.                                                        *)
SessionInit ==
    /\ connected = None
    /\ clientId = RandomId
    /\ readers = {} /\ writer = None /\ queue = <<>>
    /\ op = [o \in Ops |-> "none"]
    /\ state = [o \in Ops |-> "unused"]
    /\ outcome = [o \in Ops |-> "none"]
    /\ rt = [o \in Ops |-> None]
    /\ seen = [o \in Ops |-> None]
    /\ cid = [o \in Ops |-> None]
    /\ closed = [o \in Ops |-> None]
    /\ awaited = {}
    /\ free = "no"

-----------------------------------------------------------------------------
(* The RwLock: a reader gets in at once unless a writer holds the lock or   *)
(* waits for it; a writer waits for its turn and for the readers to leave.  *)
TryRead == writer = None /\ queue = <<>>

WriteRequest(o) ==
    /\ state' = [state EXCEPT ![o] = "queued"]
    /\ queue' = Append(queue, o)

(* A task makes progress on its runtime: always if that has worker threads, *)
(* else only while a thread waits for some future of the same runtime.      *)
Driven(r) ==
    \/ r \notin CurrentThread
    \/ \E w \in awaited : rt[w] = r /\ state[w] # "done"

Resolve(o, v) ==
    /\ state' = [state EXCEPT ![o] = "done"]
    /\ outcome' = [outcome EXCEPT ![o] = v]

Usable == free = "no"              \* the application still has the pointer

-----------------------------------------------------------------------------
(* cass_session_connect(_keyspace): spawns connect_fut on the cluster's     *)
(* runtime.                                                                 *)
Connect(o, r, id) ==
    /\ Usable /\ state[o] = "unused"
    /\ op' = [op EXCEPT ![o] = "connect"]
    /\ state' = [state EXCEPT ![o] = "spawned"]
    /\ rt' = [rt EXCEPT ![o] = r]
    /\ cid' = [cid EXCEPT ![o] = id]
    /\ UNCHANGED <<connected, clientId, lockVars, outcome, seen, closed, awaited,
                   free>>

(* The first poll of a connect or close task: session.write().              *)
TakeTurn(o) ==
    /\ state[o] = "spawned" /\ Driven(rt[o])
    /\ WriteRequest(o)
    /\ UNCHANGED <<connected, clientId, readers, writer, op, outcome, rt, seen,
                   cid, closed, awaited, free>>

GrantWrite(o) ==
    /\ queue # <<>> /\ Head(queue) = o
    /\ readers = {} /\ writer = None
    /\ writer' = o
    /\ queue' = Tail(queue)
    /\ UNCHANGED <<connected, clientId, readers, op, state, outcome, rt, seen,
                   cid, closed, awaited, free>>

BugIdIgnored(o) ==          \* the cluster's client id is not looked at
    /\ writer = o /\ op[o] = "connect" /\ state[o] = "queued" /\ Driven(rt[o])
    /\ IF connected # None
       THEN Resolve(o, "unable_to_connect") /\ writer' = None
       ELSE /\ state' = [state EXCEPT ![o] = "building"]
            /\ UNCHANGED <<outcome, writer>>
    /\ UNCHANGED <<connected, clientId, readers, queue, op, rt, seen, cid, closed,
                   awaited, free>>

(* connect_fut up to the point where it awaits the connection.              *)
ConnectStart(o) ==
    /\ writer = o /\ op[o] = "connect" /\ state[o] = "queued" /\ Driven(rt[o])
    /\ \/ /\ connected # None
          /\ Resolve(o, "unable_to_connect")
          /\ writer' = None
          /\ UNCHANGED clientId
       \/ /\ connected = None
          /\ clientId' = IF cid[o] # None THEN cid[o] ELSE clientId
          /\ state' = [state EXCEPT ![o] = "building"]
          /\ UNCHANGED <<outcome, writer>>
    /\ UNCHANGED <<connected, readers, queue, op, rt, seen, cid, closed,
                   awaited, free>>

(* session_builder.build().await, then the guard is dropped.                *)
ConnectBuilt(o, ok) ==
    /\ state[o] = "building" /\ Driven(rt[o])
    /\ connected' = IF ok THEN o ELSE connected
    /\ Resolve(o, IF ok THEN "ok" ELSE "build_failed")
    /\ writer' = None
    /\ UNCHANGED <<clientId, readers, queue, op, rt, seen, cid, closed, awaited,
                   free>>

-----------------------------------------------------------------------------
BugCloseAtOnce(o) ==        \* the connection is dropped without the write lock
    /\ state[o] = "unused"
    /\ op' = [op EXCEPT ![o] = "close"]
    /\ connected' = None
    /\ Resolve(o, "ok")
    /\ UNCHANGED <<clientId, lockVars, rt, seen, cid, closed>>

(* The synchronous part of close_fut: a failed try_read or a missing        *)
(* connection is a ready error, else the close is spawned on the runtime of *)
(* the connection.                                                          *)
CloseFut(o) ==
    /\ state[o] = "unused"
    /\ op' = [op EXCEPT ![o] = "close"]
    /\ IF TryRead /\ connected # None
       THEN /\ state' = [state EXCEPT ![o] = "spawned"]
            /\ rt' = [rt EXCEPT ![o] = rt[connected]]
            /\ seen' = [seen EXCEPT ![o] = connected]
            /\ UNCHANGED outcome
       ELSE /\ Resolve(o, "no_hosts")
            /\ UNCHANGED <<rt, seen>>
    /\ UNCHANGED <<connected, clientId, lockVars, cid, closed>>

Close(o) == Usable /\ CloseFut(o) /\ UNCHANGED <<awaited, free>>

BugCloseForgets(o) ==       \* connected is read but not taken
    /\ writer = o /\ op[o] = "close" /\ state[o] = "queued" /\ Driven(rt[o])
    /\ closed' = [closed EXCEPT ![o] = connected]
    /\ Resolve(o, IF connected = None THEN "unable_to_close" ELSE "ok")
    /\ writer' = None
    /\ UNCHANGED <<connected, clientId, readers, queue, op, rt, seen, cid, awaited,
                   free>>

CloseFinish(o) ==
    /\ writer = o /\ op[o] = "close" /\ state[o] = "queued" /\ Driven(rt[o])
    /\ connected' = None
    /\ closed' = [closed EXCEPT ![o] = connected]
    /\ Resolve(o, IF connected = None THEN "unable_to_close" ELSE "ok")
    /\ writer' = None
    /\ UNCHANGED <<clientId, readers, queue, op, rt, seen, cid, awaited, free>>

(* cass_session_free waits for such a close, whatever it answers.           *)
FreeSession(o) ==
    /\ Usable /\ CloseFut(o)
    /\ free' = o
    /\ awaited' = awaited \cup {o}

FreeReturns ==
    /\ free \in Ops /\ state[free] = "done"
    /\ free' = "returned"
    /\ awaited' = awaited \ {free}
    /\ UNCHANGED <<connected, clientId, lockVars, op, state, outcome, rt, seen,
                   cid, closed>>

-----------------------------------------------------------------------------
BugGuardNotMoved(o) ==      \* the guard is dropped when the call returns
    /\ Usable /\ state[o] = "unused" /\ TryRead /\ connected # None
    /\ op' = [op EXCEPT ![o] = "request"]
    /\ state' = [state EXCEPT ![o] = "running"]
    /\ rt' = [rt EXCEPT ![o] = rt[connected]]
    /\ seen' = [seen EXCEPT ![o] = connected]
    /\ UNCHANGED <<connected, clientId, lockVars, outcome, cid, closed, awaited, free>>

(* cass_session_execute, execute_batch, prepare(_n), prepare_from_existing: *)
(* the read guard is moved into the future.                                 *)
Request(o) ==
    /\ Usable /\ state[o] = "unused"
    /\ op' = [op EXCEPT ![o] = "request"]
    /\ IF TryRead /\ connected # None
       THEN /\ state' = [state EXCEPT ![o] = "running"]
            /\ readers' = readers \cup {o}
            /\ rt' = [rt EXCEPT ![o] = rt[connected]]
            /\ seen' = [seen EXCEPT ![o] = connected]
            /\ UNCHANGED outcome
       ELSE /\ Resolve(o, "no_hosts")
            /\ UNCHANGED <<readers, rt, seen>>
    /\ UNCHANGED <<connected, clientId, writer, queue, cid, closed, awaited, free>>

BugGuardLeaked(o) ==        \* the guard outlives the future
    /\ state[o] = "running" /\ Driven(rt[o])
    /\ Resolve(o, "ok")
    /\ UNCHANGED <<connected, clientId, lockVars, op, rt, seen, cid, closed, awaited,
                   free>>

(* The request runs on the connected session it finds behind its guard.     *)
RequestFinish(o) ==
    /\ state[o] = "running" /\ Driven(rt[o])
    /\ \E v \in IF connected = None THEN {"panic"} ELSE {"ok", "request_failed"} :
          Resolve(o, v)
    /\ readers' = readers \ {o}
    /\ UNCHANGED <<connected, clientId, writer, queue, op, rt, seen, cid, closed,
                   awaited, free>>

(* Some thread starts to wait for the future of o (it may outlive the        *)
(* session); the wait ends with it.                                         *)
Await(o) ==
    /\ state[o] \notin {"unused", "done"}
    /\ o \notin awaited
    /\ awaited' = awaited \cup {o}
    /\ UNCHANGED <<connected, clientId, lockVars, op, state, outcome, rt, seen,
                   cid, closed, free>>

(* Every call has been made and answered.                                   *)
AllDone ==
    /\ \A o \in Ops : state[o] = "done" \/ (state[o] = "unused" /\ ~Usable)
    /\ free \notin Ops
    /\ UNCHANGED sessionVars

TaskStep(o) ==
    \/ TakeTurn(o) \/ GrantWrite(o) \/ ConnectStart(o) \/ CloseFinish(o)
    \/ RequestFinish(o)
    \/ \E ok \in BOOLEAN : ConnectBuilt(o, ok)

SessionNext ==
    \/ \E o \in Ops :
          \/ \E r \in Runtimes, id \in ClientIds \cup {None} : Connect(o, r, id)
          \/ Close(o) \/ Request(o) \/ FreeSession(o) \/ Await(o)
          \/ TaskStep(o)
    \/ FreeReturns
    \/ AllDone

SessionSpec == SessionInit /\ [][SessionNext]_sessionVars

(* The runtimes run their tasks; nobody promises that a future is awaited.  *)
SessionFairSpec ==
    /\ SessionSpec
    /\ \A o \in Ops : WF_sessionVars(TaskStep(o))
    /\ WF_sessionVars(FreeReturns)

-----------------------------------------------------------------------------
(* cass_session_get_client_id.                                              *)
GetClientId == IF TryRead THEN clientId ELSE None

(* A request in flight still has the very connection it was started on, so   *)
(* `.expect("This should have been handled synchronously!")` never fires.    *)
RequestKeepsSession ==
    /\ \A o \in readers : connected # None /\ seen[o] = connected
    /\ \A o \in Ops : outcome[o] # "panic"

(* A close "allows in-flight requests to finish": no request of a connection *)
(* that a close has taken down is still running, and no connection is taken  *)
(* down twice.                                                               *)
CloseDrains ==
    \A o \in Ops : closed[o] # None =>
        /\ \A q \in readers : seen[q] # closed[o]
        /\ \A p \in Ops \ {o} : closed[p] # closed[o]
        /\ closed[o] # connected

(* A connection is never replaced by another without a close in between:     *)
(* of several connects only one wins.                                        *)
NeverReplaced == [][connected # None => connected' \in {connected, None}]_connected

(* The client id the application reads while the session is connected is     *)
(* the cluster's, and it does not change until the session is closed.        *)
ClientIdOfConnection ==
    connected # None /\ cid[connected] # None =>
        GetClientId \in {cid[connected], None}

ClientIdStable ==
    [][connected # None => clientId' = clientId]_<<connected, clientId>>

(* The session implements the lock-free contract: one connection at a time,  *)
(* never taken down or replaced under a running request.                     *)
Promise == INSTANCE SessionContract
    WITH conn <- connected, inflight <- readers,
         on <- [o \in Ops |-> IF op[o] = "request" THEN seen[o] ELSE None]

ImplementsContract == Promise!Contract

(* The inductive invariant behind the safety properties: the guards exclude  *)
(* each other, a running request keeps its guard, and a connection exists    *)
(* only once its connect has ended.                                          *)
GuardInv ==
    /\ writer # None => readers = {}
    /\ \A o \in Ops : o \in readers <=> state[o] = "running"
    /\ \A o \in readers : op[o] = "request" /\ seen[o] = connected /\ connected # None
    /\ \A o \in Ops : state[o] = "building" => writer = o /\ connected = None

ConnectionInv ==
    /\ connected # None => state[connected] = "done"
    /\ \A o \in Ops : closed[o] # None =>
          /\ state[closed[o]] = "done"
          /\ closed[o] # connected
          /\ \A p \in Ops \ {o} : closed[p] # closed[o]
    /\ \A o \in Ops : /\ outcome[o] # "panic"
                      /\ closed[o] # None => state[o] = "done"
                      /\ state[o] = "unused" => seen[o] = None

ClientIdInv ==
    /\ connected # None /\ cid[connected] # None => clientId = cid[connected]
    /\ \A o \in Ops : state[o] = "building" /\ cid[o] # None => clientId = cid[o]

SessionInv == GuardInv /\ ConnectionInv /\ ClientIdInv

SessionSafe == SessionTypeOK /\ SessionInv

(* A future some thread waits for is eventually resolved (cassandra.h, on    *)
(* the current_thread runtime: "the only way to ensure that a future is      *)
(* executed is to await it").                                                *)
AwaitedResolves == \A o \in Ops : o \in awaited ~> state[o] = "done"

(* That holds as long as every cluster uses the same runtime.                *)
OneRuntime == \A o, p \in Ops : None \in {rt[o], rt[p]} \/ rt[o] = rt[p]
AwaitedResolvesOnOneRuntime ==
    \A o \in Ops : o \in awaited ~> state[o] = "done" \/ ~OneRuntime
=============================================================================
