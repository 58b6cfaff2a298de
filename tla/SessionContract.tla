--------------------------- MODULE SessionContract ---------------------------
(***************************************************************************)
(* What a session promises to the threads that share it, with no locks,    *)
(* queues or tasks: at most one connection at a time, requests belong to   *)
(* the connection they were started on, and a connection is taken down     *)
(* only when none of its requests is left.                                 *)
(***************************************************************************)
CONSTANTS Ops, None

VARIABLES conn,     \* the connect that made the current connection, or None
          inflight, \* requests that are running
          on        \* the connection each request was started on

Start == conn = None /\ inflight = {} /\ on = [o \in Ops |-> None]

Open(o) == conn = None /\ inflight = {} /\ conn' = o /\ UNCHANGED <<inflight, on>>

Shut == inflight = {} /\ conn' = None /\ UNCHANGED <<inflight, on>>

Begin(o) ==
    /\ conn # None /\ o \notin inflight
    /\ inflight' = inflight \cup {o}
    /\ on' = [on EXCEPT ![o] = conn]
    /\ UNCHANGED conn

End(o) ==
    /\ o \in inflight /\ on[o] = conn
    /\ inflight' = inflight \ {o}
    /\ UNCHANGED <<conn, on>>

Step == Shut \/ \E o \in Ops : Open(o) \/ Begin(o) \/ End(o)

Contract == Start /\ [][Step]_<<conn, inflight, on>>
=============================================================================
