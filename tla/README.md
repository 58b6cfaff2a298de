# Verification of the ScyllaDB C/C++ driver

`scylla-rust-wrapper` offers the C API of the DataStax driver
(`include/cassandra.h`) on top of the ScyllaDB Rust driver.  This directory
models the parts of it that have state worth checking, model-checks them with
TLC on small instances, and proves the central properties with TLAPS for every
value of the constants.  Paths below are relative to
`scylla-rust-wrapper/src/` unless they start with `include/` or `docs/`.

Contents: [the system](#the-system) · [modules](#modules) · [runs](#runs) ·
[fairness](#fairness) · [proofs](#proofs) · [findings](#findings) ·
[not modelled](#not-modelled)

## The system

An application configures a **cluster**, connects a **session** to it, builds
**statements** and **batches** from **values** of **data types**, and executes
them.  Every asynchronous call returns a **future**, which resolves to a
**result** read through **iterators**.  The futures run as tasks of a tokio
**runtime** that belongs to the cluster: with worker threads
(`multi_thread`), or driven only by threads that wait (`current_thread`).

| part | source | modelled by |
|---|---|---|
| futures | `future.rs` | `CassFuture`, `OneShot` |
| sessions | `session.rs` | `CassSession`, `SessionContract` |
| tokio runtimes and their cache | `runtime.rs`, `future.rs`, `session.rs` | `Runtimes` |
| cluster configuration | `cluster.rs`, `config_value.rs` | `CassCluster` |
| time UUIDs | `cql_types/uuid.rs` | `UuidGen` |
| load balancing, host filter | `load_balancing.rs`, `cluster.rs`, `exec_profile.rs` | `LoadBalancing` |
| execution profiles | `exec_profile.rs`, `cluster.rs` | `ExecProfiles` |
| prepared statements' result metadata | `statements/prepared.rs`, `query_result.rs` | `ResultMetadata` |
| statements, batches | `statements/*.rs`, `binding.rs` | `Binding` |
| data types | `cql_types/data_type.rs` | `DataTypes`, `Values` |
| collections, tuples, UDTs, vectors | `cql_types/{collection,tuple,user_type,vector}.rs` | `Values` |
| serialization and reading of values | `cql_types/value.rs`, `iterator.rs`, `query_result.rs` | `ValueWire` |
| results, rows, paging | `query_result.rs`, `iterator.rs`, `statements/statement.rs` | `Paging`, `Reading` |
| schema metadata | `metadata.rs`, `session.rs`, `iterator.rs` | `SchemaMeta`, `Reading` |
| logging, TLS, retry policies, listeners, ... | | not modelled, see below |

## Modules

Each component `X` has its state machine in `X` and its instance for TLC in `MCX`
with `MCX.cfg`; two modules compose others, `CassCluster` (with `LoadBalancing`
and `Runtimes`) and `Reading` (`Paging` with `SchemaMeta`), and have the instance
for all of them.  The modules of proofs are listed [below](#proofs).  Definitions named `Bug...` are
altered forms of the definition that follows them; the specification does not
use them.  They record which slip in the code each property would notice.

**CassFuture.**  One future and any number of threads.  `result`, `callback`
and `handle` are the fields under the mutex, `lock` is its owner; the condition
variable is the set of threads whose `pc` is `"waiting"`.  The JoinHandle is a
token held by the creating call, the shared state or the thread that drives the
task (`"block_on"`), until it is consumed.  `WaitedResult` enters
`cass_future_wait(_timed)` and all the projections of the result; one action per
critical section follows it.  `StoreHandle` is the last step of
`new_from_future`, which the task can overtake.  `DeadlinePasses` and
`LeaveCondvar` are the timeouts.  `OneShot` is what a user may rely on: a cell
written once, and a callback fired at most once, after it.

**CassSession.**  The async `RwLock` (`readers`, `writer`, the fair `queue`) and
the connection it guards.  Each call is an operation `o` with the state of its
future.  `Connect`, `Close`, `Request` and `FreeSession` are the synchronous part of
the API functions, with their early returns; `TaskStep` is the future; `Await`
is a thread that waits and thereby drives a `current_thread` runtime.  A
connection is named after the connect that made it.  `SessionContract` has no
lock: a connection, the requests in flight, and four rules.

**UuidGen.**  `last` is the atomic word.  A call samples the clock, loads
`last` and then exchanges it or adds one, each in its own step; the clock may
move forwards and back between them.  `Ticks` is the number of timestamps in a
millisecond (10000 in the code).

**LoadBalancing.**  The configuration objects of the cluster and of each profile,
the copy `cass_cluster_set_execution_profile` takes, and the host filter that
connecting derives from all of them.  `Plan` is the set of hosts a policy picks
from, the Rust driver's part of it external.

**Runtimes.**  The global cache of weak pointers by thread count, and the strong
pointers: of connected sessions, of futures and of connect tasks (`owners`).  A
future belongs to the application until it is freed and to its task until that
ends.  A runtime whose last owner goes is shut down with its unfinished tasks
(`Shutdown`).  How a session's lock is waited for is left to `CassSession`; here
the task of a call runs in one step, and waits for requests under way.

**CassCluster.**  The other options of a cluster: one operator per
`cass_cluster_set_*`, with its checks and its conversion of null, zero and
negative arguments; `cass_cluster_new` has the defaults.  Next to the
fields the code writes runs `asked`, which records the requests that are valid by
the header, and in `asked.unclear` the options on which the repository contradicts
itself.  `cass_session_connect` takes the copy a session is built from
(`build_session_builder`), the load balancing part (`Connect` of
`LoadBalancing`) and a runtime (`connect` of `Runtimes`) in one step, as the code
does before it starts the task.

**ExecProfiles.**  Settings of the profiles and the cluster's defaults, the
profiles attached to the cluster and those a session got at connect.  `cell` is
the shared, lazily filled profile of a statement; `ReadCell` and `ResolveCell`
are its read-locked and write-locked sections.

**ResultMetadata.**  The cache a prepared statement keeps of its result
metadata, recognised by the address of the column specifications.  `mem` is
what is at each address; addresses nobody holds are reused.

**Binding.**  The bound values of a statement and, for simple statements, the
names with their slots.  `asked`, `meant` and `offered` are history: the value last
bound to each name and column, and the one a bind by name that stopped half-way
tried to give.  `Row` is what executing the statement sends.

**DataTypes, Values, ValueWire.**  Data types live in a `heap` and are shared:
a subtype is an index, and a type may be changed while values and other types use
it.  `DataTypes` has the questions asked of types, as recursive functions over
the heap; `Values` the constructors and setters; `ValueWire` writes a bound
value by the type of the value, reads it back by the type of the column, and
states what that must give: the items, their types, and the getters that
succeed on each scalar.  Lengths and ints are one element of a frame, all
else is bytes.

**Paging.**  A statement's page size and paging state, executions that copy
them, a server that answers with pages of at most that size (also short or empty
ones, or a failure), results, and the iterators over results and rows.  A paging
state carries, as history, the rows read on the way to it.  Columns are looked up
by index and by name: a name is its letters and which of them are capitals, which
count only between quotes.

**SchemaMeta, Reading.**  `get_schema_meta` copies the schema the driver knows
(`server`, any of `Schemas`, another one at every call) into `snapshot`.  Hash maps
iterate in an order nobody chose: `order` fixes one for a map when it is first
walked over, and the table whose views end up in the keyspace is any table.
Iterators have the seven kinds of `iterator.rs`; the lookups are operators.
`Reading` interleaves all this with the reading of results, since
`cass_iterator_next` and `cass_iterator_free` serve both.

Composed are `CassCluster` with `LoadBalancing` and `Runtimes`, `Paging` with
`SchemaMeta`, and `DataTypes` with `Values` and `ValueWire`.  Elsewhere a module
relies on what another one shows: `ResultMetadata`, `Paging` and `ExecProfiles` on
a request keeping its connection (`SessionContract`), and on a future giving its
result once (`OneShot`).

## Runs

| run | bounds | distinct states | checks |
|---|---|---|---|
| `future` | 3 threads, 1 call each, both runtimes and immediate futures | 68,560 | `FutureInv`, `NoStrandedWaiter`, `ImplementsOneShot`, `WaitReturns`, `CallbackRuns` |
| `session` | 3 calls, one runtime of each kind, 1 client id | 120,645 | `SessionSafe`, `RequestKeepsSession`, `CloseDrains`, `ImplementsContract`, `AwaitedResolvesOnOneRuntime` |
| `uuid` | 2 threads, 3 calls each, 2 ticks a millisecond, 2 milliseconds | 43,444 | `GenInv`, `Unique`, `RealTimeOrder`, `NotAhead`, `SomeCallReturns` |
| `lb_filter` | 3 hosts in 2 datacenters, cluster and 1 profile, 2 sessions, 2 thread counts; 4 load balancing calls, or 2 options, or 9 steps of 4 futures, and shorter ones mixed | 940,206 | `ClusterInv`, `FilterSound`, `FilterExact`, `StaysLocal`, `OneRuntimePerCount`, `TaskNeverCancelled`, `ConnectionAsAsked` |
| `profile_resolution` | 2 settings, 2 values, 2 names, 2 sessions, 2 executions, 3 edits, 2 cells | 3,714,620 | `ProfilesInv`, `SettingsAsAsked`, `OneProfilePerCell`, `OwnProfileOnOneConnection` |
| `result_metadata` | 2 requests, 4 addresses, 2 specifications, 3 changes | 322,368 | `MetadataInv`, `Stabilises` |
| `binding` | 3 markers, two alike but for case and type, 3 values, up to 4 parameters, 5 calls | 1,559,565 | `BindInv`, `NamedRow`, `PreparedExact` |
| `values` | 9 starting heaps, 8 types, 2 values, 2 items, 6 calls of which 1 on types | 1,512,541 | `ValuesInv`, `RoundTrip`, `BoundTyped` |
| `paging` | 3 rows, 2 columns of one name but for case, page sizes 0 to 2, 2 requests, 2 iterators, 6 calls; 3 schemas, 2 iterators over a snapshot | 485,377 | `ReadingInv`, `TraversalExact`, `RowsExact`, `SnapshotFaithful`, `WalkComplete` |
| `session_mixed_runtimes`, `lb_stale_restriction`, `batch_loses_names` | | | see [findings](#findings) |

**future.**  Whatever the interleaving of waits, timed waits, a registration and
the task, the callback runs once and after the result is visible; no thread is
left asleep on the condition variable without somebody committed to wake it, also
when the thread that drives the task times out (`NoStrandedWaiter`); every wait
returns.  Three threads are what the hand-over needs: one that times out, one it
wakes, and one that must not be woken in its place.

**session.**  A request keeps the connection it was started on, so the
`expect("This should have been handled synchronously!")` of its future cannot
fire; when a close has ended no request of its connection runs; connects never
replace a connection; the client id read from a connected session is the one
its cluster gave.  Three calls give every pair of calls a third that holds or
queues for the lock.

**uuid.**  Timestamps are unique and follow the order of calls.  A timestamp may
run ahead of the wall clock when threads share the generator or the clock is set
back, and only then (`NotAhead`).  The loop of `try_monotonic_timestamp` is
lock-free and not wait-free: a thread may lose one exchange after another, so what
`SomeCallReturns` says is that some call returns while calls are under way, unless
the millisecond is used up.  Two ticks make both the sharing of a millisecond and
its exhaustion happen.

**lb_filter.**  The filter that decides which hosts get connections never
excludes a host some policy would pick, and is exact when there is one policy.
DC-aware policies without remote hosts stay in their datacenter.  A session is
built with the last valid request for each option, although pairs of fields are
written by several setters and calls are refused (`ConnectionAsAsked`).  Where the
repository contradicts itself on what a request means, nothing is claimed: TCP
keepalive before it is set, connections per host together with connections per
shard, and port ranges that only one of code and message accepts (all three are
among the [findings](#findings)).  Whatever lives at the same time and asked for
one thread count shares one runtime, across closes, freed futures and re-creations
(`OneRuntimePerCount`), and no task loses its runtime (`TaskNeverCancelled`): the
`unwrap` of a task's join in `future.rs:249` is safe.  Four futures are a connect,
its close, a second connect and a request between them.  Two options
are enough for every pair of setters that share a field and for a refused call after
an accepted one.  The instance is the union of four budgets, since the three parts
meet only in connecting.

**profile_resolution.**  All executions sharing a cell use one profile, and on
one connection it is the one of the name the statement was given; the settings
used are those asked for, and those of the cluster for the others; a consistency
that was not asked for is left open, since documentation and code differ on it.

**result_metadata.**  Rows are never read with the metadata of other
specifications, though requests store into the cache in any order and addresses
are reused; when the columns stop changing the cache settles.

**binding.**  A simple statement bound by name sends every marker the value last
bound to its name; a prepared one holds in each column a value of its type, the
one last asked for or one that a bind by name since then, which stopped at a column
of another type, offered to the columns of that name (`PreparedExact`).  What a batch sends of a statement bound by name is a
[finding](#findings).

**values.**  A setter never indexes past the subtypes of a type that changed
meanwhile.  A value whose types are given in full, hold no UDT and were not
changed after they were used is, when it binds, at every depth of the column's type,
although each item was compared with its container only (`BoundTyped`).  A value
that has the shape of the column, and whose vectors have the column's encoding, is
read back as it was written (`RoundTrip`); that the encodings can differ is
described [below](#findings).  One of the scalars has 128 bytes, for which the vint
of a vector element needs a second byte.

**paging.**  Following the paging states reads every row once and in order, however
setters, late responses, retries of failed pages and saved tokens interleave; an
iterator shows the rows of its page with their own columns, by index and by name.
A snapshot shows the schema it was taken of: every table, view, type and column is
found by name, and nothing else is.  By index the columns of a table come in the
order of its partition key, its clustering key and then their names; those of a view
come in whatever order its hash map has, each once.  A table has its own views, with
itself as their base (`SnapshotFaithful`).  A walk of any kind shows each object once and ends, also when
two walks interleave or the order of a map differs from the last snapshot
(`WalkComplete`); the views of a table are here all that `session.rs:740` put into
its map.  `SchemaCost`, four of the six calls, is the price
of a snapshot: the other two are two walks, or a walk and an execution, so that
iterators of both sorts are open together.

The call bounds cut off long histories only: no guard of the code counts calls,
and where the properties are proved (below) the bound is a parameter.
`CHECK_DEADLOCK FALSE` is set where the only processes are calls of the
application, which may stop calling.  Symmetry is used for requests,
iterators, sessions and executions, in runs without liveness properties.

## Fairness

- `CassFuture`: the task proceeds if somebody drives it (a worker, or a thread
  in `block_on`), threads inside a call keep running, deadlines pass.  On a
  `current_thread` runtime nothing drives the task unless a thread waits, and
  nothing is assumed to.
- `CassSession`: each runtime runs its tasks; a `current_thread` one only while
  a future on it is awaited.  Nobody promises to await a future.
- `UuidGen`: threads keep running; the clock need not move.  Fairness lets each
  thread take its next step and does not let it win an exchange.
- `ResultMetadata`: the application goes on executing the statement.

All of it is weak fairness, what an operating system and tokio give a runnable
thread or a woken task.

## Proofs

Every theorem holds for all values of the constants under the named assumptions of
its module: sentinels apart from the values they stand beside, bounds that are
naturals, finite sets of names.  The schemas a server may have (`WellFormed`) are
those the Rust driver gives: the key columns of a table are listed once each, in
the order of their positions, and are columns of it (`metadata.rs:293`, `:317` and
`:326` rely on the same), and a keyspace without tables has no views.  Column names
are naturals, for an alphabetical order.

| module | theorems |
|---|---|
| `SessionProofs` | of `CassFuture`: `ProtocolInvariant`, `CallbackOnce`, `CallbackKept`, `NoLostWakeup`, `HandleKept`, `RefinesOneShot`; of `CassSession`: `SessionInvariant`, `RequestKeeps`, `CloseWaits`, `ClientIdIsClusters`, `ClientIdKept`, `OneConnection`, `RefinesContract` |
| `SharedStateProofs` | of `UuidGen`: `GeneratorInvariant`, `TimestampsUnique`, `TimestampsOrdered`, `TimestampsNotAhead`; of `ExecProfiles`: `ProfilesInvariant`, `ProfilesAsAsked`, `OneProfile`, `OwnProfileUsed`, `CellsFilledOnce` |
| `RuntimesProofs` | what each step of a future does to the owners of the runtimes (lemmas) |
| `CassClusterProofs` | `ClusterInvariant`, `HostFilterSound`, `HostFilterExact`, `DcAwareStaysLocal`, `RuntimesShared`, `TasksFinish`, `SessionsBuiltAsAsked` |
| `StatementProofs` | of `Binding`: `BindingInvariant`, `SlotsForNames`, `RowByName`, `PreparedHolds`, `PreparedColumns`; of `ResultMetadata`: `MetadataInvariant`, `RightMetadata`, `CacheStaysPaired` |
| `ValuesProofs` | `ValuesInvariant` |
| `SchemaMetaProofs` | snapshots, the order of columns in them, and walks over them, step by step (lemmas) |
| `ReadingProofs` | `ReadingInvariant`, `EveryRowOnce`, `RowsInOrder`, `WalksComplete`, `SnapshotsFaithful` |

The properties are not inductive alone.  What carries them, each checked by TLC in
the run of its module:

- `FutureInv`: who owns the mutex (`LockInv`) and the JoinHandle (`HandleInv`),
  what the task's position says about the result (`TaskInv`), and who has
  committed to invoke the callback (`CallbackInv`).  No lost wake-up follows: a
  sleeper implies a driver, a thread about to hand over, or a task about to
  notify.
- `SessionSafe`: guards exclude each other and a running request holds one
  (`GuardInv`); a connection exists once its connect has ended and is closed at
  most once (`ConnectionInv`); the id was written by the connect that holds the
  lock or made the connection (`ClientIdInv`).
- `GenInv`: the word never falls behind a timestamp given out, nor behind what a
  thread about to exchange has read (`StampInv`).  While one thread is alone on the
  generator, its clock sample is neither ahead of the clock nor behind the word, and
  it adds a tick only within the millisecond (`ClockInv`): hence `NotAhead`.
- `ProfilesInv`: a setting is flagged as overridden exactly when it was asked for
  (`ObjectsAsAsked`), on which `SettingsAsAsked` rests; a filled cell was filled from
  the connection of an execution that shares it, and an execution that is past the
  lookup uses what its cell holds (`CellsInUse`).  That a filled cell is never
  written again is the action property `CellsFilledOnce`.
- `ClusterInv`, of three parts.  `LbInv`: a DC-aware policy without failover has its datacenter as
  restriction (`RestrictionInv`); a session's filter is the one its own policies
  give (`SnapshotInv`).  `RuntimesInv`: the owners of a runtime are exactly its
  unfinished or held futures, its connect tasks and its sessions (`OwnersExact`),
  and the cache names every runtime that is alive; a task is then never without
  an owner of its runtime.  `OptionsAsAsked`: the fields of the cluster say, option
  by option, what was asked, and so do the copies sessions were built from.
- `MetadataInv`: the cache's guard keeps its address from being reused.
- `BindInv`: names and the first slots are in bijection, and each holds what was
  last asked for its name (`SlotInv`).
- `ValuesInv`: subtypes only grow, so a value's slots are never more than its
  type's (`SlotsTyped`); the heap is closed (`HeapInv`).
- `ReadingInv`, of two parts.  `PagingInv`: wherever a paging state is kept (statement, token, request,
  result), the rows recorded with it are the rows before it.  `SchemaInv`: a
  snapshot has the objects of the schema it was taken of; an iterator's count is the
  size of its map, and what it has shown is the first part of that map's order.

`SnapshotFaithful` is inductive as it stands, since a snapshot is replaced as a
whole; the work is in the lemmas about one copy.  The columns that are in neither
key form a finite set of naturals, which some sequence sorts (a number goes to the
place given by how many are not above it); so the column list chosen by
`non_key_sorted_columns` exists, and with the two keys it counts every column once.

Only model-checked: liveness (`WaitReturns`, `CallbackRuns`,
`AwaitedResolvesOnOneRuntime`, `SomeCallReturns`, `Stabilises`), which the prover
does not do; and `RoundTrip` and `BoundTyped`, which speak of recursive definitions
and would need induction over values.

## Findings

Three runs check a sentence of the documentation that the code does not keep.

- `session_mixed_runtimes` (`session.rs:112`): sessions reconnected through
  clusters on different runtimes.  A connect that is awaited waits for the lock a
  request holds, and nobody drives the runtime of that request.
  `include/cassandra.h:1925` says awaiting one future executes the others.
- `lb_stale_restriction` (`cluster.rs:1026`): round robin set after a DC-aware
  policy without remote hosts keeps that policy's restriction;
  `include/cassandra.h:2189` says all nodes are used.
- `batch_loses_names` (`statements/batch.rs:259`): a batch keeps the values of a
  simple statement and not the names they were bound to, so they go to markers in
  the order they were bound in.

Seen while modelling, without a run of their own:

- `session.rs:656`: `cass_session_free` while a close or connect is queued
  returns although the session is connected (`include/cassandra.h:2943`: "it will
  be synchronously closed").
- `docs/source/topics/configuration/client-identity.md:47` says a session's
  identifier never changes; a reconnect through another cluster changes it.
- `execution-profiles.md:51` says options not assigned come from the cluster; the
  consistency does not (`exec_profile.rs:87` against the comment at `:374`).
  `SettingsAsAsked` leaves that case out.
- `exec_profile.rs:204`: the profile found by a statement's first execution stays
  with the statement when it is executed on another session.
- `cql_types/data_type.rs:59`: UDTs are equal when their mutual first fields are.
  That is not transitive, so `BoundTyped` leaves UDTs out.
- `cql_types/data_type.rs:211` calls a vector fully typed by construction; its
  element type can gain an untyped subtype afterwards (`:1050`).
- `cql_types/collection.rs:79`: an untyped list takes any vector, and then binds to
  any column of lists.  `cql_types/value.rs:419` writes the vector by its own element
  type (a `bigint` has no length prefix), and reading goes by the column's (a `time`
  has one): a `vector<bigint, 1>` in a column `list<vector<time, 1>>` is misread.
  `RoundTrip` leaves such values out (`SameEncoding`); TLC finds one in five calls
  when it does not.
- A type can be made part of itself, and walks over it then do not end; the models
  leave that call out.
- `cql_types/data_type.rs:817`: `cass_data_type_keyspace` gives the type's name.
- `session.rs:740`: each table is given all views of its keyspace, with itself as
  their base, and a view found through the keyspace has as base table the one that
  came last in a hash map (`include/cassandra.h:3754`: "Gets the base table of the
  view.").  `SnapshotFaithful` therefore says nothing of the views of other tables
  that a table has, nor of which base table a view found through the keyspace names.
- `runtime.rs` says that a runtime goes with the sessions that reference it;
  futures that are held keep it too, which `TaskNeverCancelled` depends on.
- `include/cassandra.h:1971` says that the connections per shard override those per
  host; the later of the two calls does.
- `include/cassandra.h:2556` gives TCP keepalive as disabled by default; it is
  enabled with 2 seconds (`cluster.rs:86`).
- `cluster.rs:947` announces `1024 < lo <= hi < 65536` for local ports; accepted is
  `1024 <= lo < hi <= 65536`.
- `query_result.rs:601`: both quotes of a name are stripped; where they are the
  same character the second `unwrap` panics.  The names of the model have letters
  between their quotes, so `RowsExact` does not meet it.
- `session.rs:123`: a connect that fails leaves the client id of its cluster on the
  unconnected session.  `SessionSafe` speaks of connected ones.
- The getters of 64-bit integers, UUIDs and strings report a wrong type before null,
  the others null first.
- `logging.rs:163`: the callback runs under the read lock that setting the
  callback needs for writing.
- A tuple without items reads back as null; a tuple shorter than the column has
  the column's item count but shows only its own items.
- Turning paging off in the middle of a traversal starts it over, unpaged.

## Not modelled

Logging, whose callback and lock meet nothing else here; the protocol version
setters of `cluster.rs`, which store nothing a session uses; the option setters of
statements and batches, each of which replaces one field of the copy that is
executed; the names and types a prepared statement tells of its parameters, and
those of columns in the schema, which are handed on unread; frames cut short by the
server; `cass_value_is_collection` and `cass_value_is_duration`; inet and date
conversions, which are functions of their arguments.

`retry_policy.rs` and `timestamp_generator.rs` choose an implementation of the
Rust driver; `host_listener.rs` translates events without state; `ssl.rs` calls
OpenSSL; `argconv.rs` is about pointer kinds, which the Rust types check;
`cass_error.rs` translates one enumeration into another; metrics are copied from
the Rust driver; `src/*.cpp` and `testing/` support the tests.  There is no state
there to model.

The Rust driver itself is external: the models have what the wrapper uses of it
(plans of hosts, pages, frames of vectors), marked as such in `PROJECT.json`.

Abstractions: names, hosts, addresses and values are model values.  Names are
equal, equal but for case, or different.  Of settings that work alike one stands
for all.  Application errors that only return an error code are steps that do not
happen or change nothing.
