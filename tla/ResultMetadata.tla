--------------------------- MODULE ResultMetadata ---------------------------
(***************************************************************************)
(* The result metadata of a prepared statement (statements/prepared.rs).   *)
(* The Rust driver keeps the current column specifications of a statement  *)
(* and replaces them when a response brings new ones; the wrapper caches   *)
(* what it derives from them, and recognises the specifications it derived *)
(* it from by their address only.  Requests of the statement run           *)
(* concurrently and share the cache, an ArcSwap.                           *)
(***************************************************************************)
EXTENDS Naturals

CONSTANTS Requests, Addresses, Specs, None,
          MaxChanges    \* bound: how often a response brings specifications

ASSUME MetadataAssumption ==
    /\ None \notin Addresses \cup Specs
    /\ MaxChanges \in Nat

VARIABLES mem,      \* the column specifications at each address
          current,  \* PreparedStatement: its current specifications
          cache,    \* CassResultMetadataCacheInner
          pc,       \* how far each request is
          table,    \* the specifications its rows refer to
          guard,    \* the specifications it fetched to update the cache
          meta,     \* the metadata its CassResult got
          changes

metadataVars == <<mem, current, cache, pc, table, guard, meta, changes>>

MetadataTypeOK ==
    /\ mem \in [Addresses -> Specs]
    /\ current \in Addresses
    /\ cache \in [guard : Addresses, metadata : Specs]
    /\ pc \in [Requests -> {"idle", "sent", "rows", "check", "store", "get", "result"}]
    /\ table \in [Requests -> Addresses \cup {None}]
    /\ guard \in [Requests -> Addresses \cup {None}]
    /\ meta \in [Requests -> Specs \cup {None}]
    /\ \A r \in Requests : /\ pc[r] \in {"rows", "check", "store", "get", "result"} => table[r] # None
                           /\ pc[r] \in {"check", "store"} => guard[r] # None
                           /\ pc[r] = "result" => meta[r] # None
    /\ changes \in 0 .. MaxChanges

(* CassPrepared::new_from_prepared_statement.                               *)
MetadataInit ==
    /\ mem \in [Addresses -> Specs]
    /\ current \in Addresses
    /\ cache = [guard |-> current, metadata |-> mem[current]]
    /\ pc = [r \in Requests |-> "idle"]
    /\ table = [r \in Requests |-> None]
    /\ guard = [r \in Requests |-> None]
    /\ meta = [r \in Requests |-> None]
    /\ changes = 0

BugCacheHoldsAddress(a) ==   \* the cache remembers where, but keeps no guard
    \/ a = current
    \/ \E r \in Requests : a = table[r] \/ a = guard[r]

(* Somebody holds a reference to the specifications at a.  The memory of    *)
(* others may be given to new ones.                                         *)
Live(a) ==
    \/ a = current
    \/ a = cache.guard
    \/ \E r \in Requests : a = table[r] \/ a = guard[r]

-----------------------------------------------------------------------------
Send(r) ==
    /\ pc[r] = "idle"
    /\ pc' = [pc EXCEPT ![r] = "sent"]
    /\ UNCHANGED <<mem, current, cache, table, guard, meta, changes>>

(* The rows come without specifications, and are read with the current ones.*)
RespondCached(r) ==
    /\ pc[r] = "sent"
    /\ pc' = [pc EXCEPT ![r] = "rows"]
    /\ table' = [table EXCEPT ![r] = current]
    /\ UNCHANGED <<mem, current, cache, guard, meta, changes>>

(* They come with their own, which may become the current ones.             *)
RespondChanged(r, a, s) ==
    /\ pc[r] = "sent" /\ changes < MaxChanges /\ ~Live(a)
    /\ pc' = [pc EXCEPT ![r] = "rows"]
    /\ mem' = [mem EXCEPT ![a] = s]
    /\ table' = [table EXCEPT ![r] = a]
    /\ current' \in {current, a}
    /\ changes' = changes + 1
    /\ UNCHANGED <<cache, guard, meta>>

(* try_update_and_get_result_metadata: update_if_necessary, ...             *)
FetchCurrent(r) ==
    /\ pc[r] = "rows"
    /\ pc' = [pc EXCEPT ![r] = "check"]
    /\ guard' = [guard EXCEPT ![r] = current]
    /\ UNCHANGED <<mem, current, cache, table, meta, changes>>

BugNeverUpdate(r) ==         \* the comparison is the wrong way round
    /\ pc[r] = "check"
    /\ pc' = [pc EXCEPT ![r] = IF cache.guard # guard[r] THEN "get" ELSE "store"]
    /\ UNCHANGED <<mem, current, cache, table, guard, meta, changes>>

CheckCache(r) ==
    /\ pc[r] = "check"
    /\ pc' = [pc EXCEPT ![r] = IF cache.guard = guard[r] THEN "get" ELSE "store"]
    /\ UNCHANGED <<mem, current, cache, table, guard, meta, changes>>

StoreCache(r) ==
    /\ pc[r] = "store"
    /\ cache' = [guard |-> guard[r], metadata |-> mem[guard[r]]]
    /\ pc' = [pc EXCEPT ![r] = "get"]
    /\ UNCHANGED <<mem, current, table, guard, meta, changes>>

(* ... then get_metadata_unless_stale; from_result_payload derives the      *)
(* metadata from the rows themselves if that yields none.                   *)
GetMetadata(r) ==
    /\ pc[r] = "get"
    /\ meta' = [meta EXCEPT ![r] =
            IF cache.guard = table[r] THEN cache.metadata ELSE mem[table[r]]]
    /\ guard' = [guard EXCEPT ![r] = None]
    /\ pc' = [pc EXCEPT ![r] = "result"]
    /\ UNCHANGED <<mem, current, cache, table, changes>>

(* cass_result_free.                                                        *)
FreeResult(r) ==
    /\ pc[r] = "result"
    /\ pc' = [pc EXCEPT ![r] = "idle"]
    /\ table' = [table EXCEPT ![r] = None]
    /\ meta' = [meta EXCEPT ![r] = None]
    /\ UNCHANGED <<mem, current, cache, guard, changes>>

Step(r) ==
    \/ Send(r) \/ RespondCached(r)
    \/ \E a \in Addresses, s \in Specs : RespondChanged(r, a, s)
    \/ FetchCurrent(r) \/ CheckCache(r) \/ StoreCache(r) \/ GetMetadata(r)
    \/ FreeResult(r)

MetadataNext == \E r \in Requests : Step(r)

MetadataSpec == MetadataInit /\ [][MetadataNext]_metadataVars

(* The application goes on executing the statement.                         *)
FairSpec == MetadataSpec /\ \A r \in Requests : WF_metadataVars(Step(r))

-----------------------------------------------------------------------------
(* The rows of a result are always read with the metadata of the             *)
(* specifications they came with, whatever other requests do to the cache    *)
(* and wherever new specifications are allocated.                            *)
MetadataOfRows == \A r \in Requests : pc[r] = "result" => meta[r] = mem[table[r]]

(* "we always store ColumnSpecsGuard, and CassResultMetadata that was        *)
(* created from exactly this guard": also when requests race to store.       *)
CachePaired == cache.metadata = mem[cache.guard]

(* "it is only a temporary situation and should quickly stabilize": when the *)
(* specifications no longer change the cache ends up, and stays, with the    *)
(* current ones, although a late request may store old ones.                 *)
Stabilises == <>[](cache.guard = current)

(* The inductive invariant: the cache is paired with what its guard keeps    *)
(* alive ("we always store ColumnSpecsGuard, and CassResultMetadata that was *)
(* created from exactly this guard", also when requests race to store), and  *)
(* new specifications only go to addresses nobody holds, so neither the      *)
(* cache nor a finished result is disturbed.                                 *)
MetadataInv == MetadataTypeOK /\ CachePaired /\ MetadataOfRows

=============================================================================
