----------------------------- MODULE CassCluster -----------------------------
(***************************************************************************)
(* The cluster object (cluster.rs): its options, which the application     *)
(* sets in any order and any number of times, and what a session built     *)
(* from it runs with.  It is composed with the load balancing setters      *)
(* (LoadBalancing) and with the runtimes (Runtimes): a connect call copies *)
(* the options, builds the filter and the policies and takes a runtime;    *)
(* its task runs later, when the cluster may have been edited again.       *)
(* A string is a model value; Nil is a null pointer, or Rust's None.       *)
(* asked is a history: the last valid request for each option, in the      *)
(* terms of cassandra.h.  Its field unclear names the options for which    *)
(* the documentation contradicts itself or the code at that moment, and of *)
(* which nothing is claimed.                                               *)
(***************************************************************************)
EXTENDS LoadBalancing, Runtimes, Integers

CONSTANTS Strings, Unparsable,  \* what a string may be; one that is no address
          Budgets  \* how many setter calls, option calls and runtime steps go together

ASSUME ClusterAssumption ==
    /\ Nil \notin Strings
    /\ Unparsable \in Strings
    /\ Nil \notin [lo : Int, hi : Int]

VARIABLES cluster,  \* CassCluster, its session builder and its default profile
          asked,
          captured, \* by connect call: what it copied, and asked at that time
          options, steps

clusterVars == <<cluster, asked, captured, options, steps>>
allVars == <<config, attached, session, calls, cache, threads, owners, connected, ops,
             cluster, asked, captured, options, steps>>

Addresses == Strings \ {Unparsable}

Milli == 1000                 \* microseconds in a millisecond
SmallNondeterministic == 0    \* a coalescing delay below one millisecond

(* The constants at the head of cluster.rs, and those of the Rust driver.   *)
DEFAULT_REQUEST_TIMEOUT == 12000
DEFAULT_DNS_RESOLVE_TIMEOUT == 2000
DEFAULT_MAX_SCHEMA_WAIT_TIME == 10000
DEFAULT_SCHEMA_AGREEMENT_INTERVAL == 200
DEFAULT_CONNECT_TIMEOUT == 5000
DEFAULT_METADATA_TIMEOUT == 2000
DEFAULT_PORT == 9042

cass_cluster_new ==
    [contact_points |-> {}, port |-> DEFAULT_PORT, shuffle_contact_points |-> TRUE,
     auth_username |-> Nil, auth_password |-> Nil, num_threads_io |-> Nil, client_id |-> Nil,
     application_name |-> Nil, application_version |-> Nil, fetch_schema_metadata |-> TRUE,
     tcp_nodelay |-> TRUE, tcp_keepalive_interval |-> 2, timestamp_generator |-> "monotonic",
     keepalive_interval |-> 30, keepalive_timeout |-> 60,
     connect_timeout |-> DEFAULT_CONNECT_TIMEOUT,
     connection_pool_size |-> [per |-> "shard", size |-> 1], enable_write_coalescing |-> TRUE,
     write_coalescing_delay |-> SmallNondeterministic,
     request_timeout |-> DEFAULT_REQUEST_TIMEOUT,
     hostname_resolution_timeout |-> DEFAULT_DNS_RESOLVE_TIMEOUT,
     schema_agreement_timeout |-> DEFAULT_MAX_SCHEMA_WAIT_TIME,
     schema_agreement_interval |-> DEFAULT_SCHEMA_AGREEMENT_INTERVAL,
     local_ip_address |-> Nil, local_port_range |-> Nil,
     speculative_execution |-> Nil, token_awareness_enabled |-> TRUE,
     token_aware_shuffling_replicas_enabled |-> TRUE, retry_policy |-> "default",
     tls_context |-> Nil, compression |-> Nil, latency_awareness_enabled |-> FALSE,
     latency_awareness_builder |-> Nil, consistency |-> "LOCAL_ONE",
     serial_consistency |-> "LOCAL_SERIAL", reconnect_policy |-> Nil,
     metadata_request_serverside_timeout |-> DEFAULT_METADATA_TIMEOUT, host_listener |-> Nil]

(* The same defaults, as requests.  cassandra.h has TCP keep-alive off, the  *)
(* code has it on; of the reconnection policy nobody asked for yet.          *)
AskedFirst ==
    [contact_points |-> {}, port |-> DEFAULT_PORT, randomized |-> TRUE, credentials |-> Nil,
     threads |-> Nil, client_id |-> Nil, app_name |-> Nil, app_version |-> Nil,
     use_schema |-> TRUE, nodelay |-> TRUE, keepalive |-> [enabled |-> TRUE, delay |-> 2],
     timestamps |-> "monotonic", heartbeat |-> 30, idle |-> 60,
     connect_timeout |-> DEFAULT_CONNECT_TIMEOUT, pool |-> [per |-> "default", size |-> 1],
     coalesce_us |-> 200, request_timeout |-> DEFAULT_REQUEST_TIMEOUT,
     resolve_timeout |-> DEFAULT_DNS_RESOLVE_TIMEOUT,
     schema_wait |-> DEFAULT_MAX_SCHEMA_WAIT_TIME,
     schema_interval |-> DEFAULT_SCHEMA_AGREEMENT_INTERVAL,
     address |-> Nil, ports |-> Nil, speculative |-> Nil, token_aware |-> TRUE,
     shuffle_replicas |-> TRUE, retry |-> "default", ssl |-> Nil, compression |-> "NONE",
     latency |-> FALSE, latency_settings |-> Nil, consistency |-> "LOCAL_ONE",
     serial |-> "LOCAL_SERIAL", reconnect |-> Nil,
     metadata_timeout |-> DEFAULT_METADATA_TIMEOUT, listener |-> Nil,
     unclear |-> {"keepalive"}]

ClusterInit ==
    /\ Init
    /\ RuntimesInit
    /\ cluster = cass_cluster_new
    /\ asked = AskedFirst
    /\ captured = [o \in Ops |-> Nil]
    /\ options = 0 /\ steps = 0

-----------------------------------------------------------------------------
(* One setter call: the code's acceptance and update of the cluster, and    *)
(* the header's notion of a valid request.  A refused call changes nothing. *)
Checked(accepted, c, valid, a) ==
    /\ cluster' = IF accepted THEN c ELSE cluster
    /\ asked' = IF valid THEN a ELSE asked

Set(c, a) == Checked(TRUE, c, TRUE, a)

ZeroIsNone(n) == IF n > 0 THEN n ELSE Nil

cass_cluster_set_contact_points(clear, items) ==
    LET update(list) == update_comma_delimited_list(list, clear, items)
    IN  Set([cluster EXCEPT !.contact_points = update(@)],
            [asked EXCEPT !.contact_points = IF clear THEN {} ELSE @ \cup items])

cass_cluster_set_application_name(name) ==
    Checked(name # Nil, [cluster EXCEPT !.application_name = name],
            name \in Strings, [asked EXCEPT !.app_name = name])

cass_cluster_set_application_version(version) ==
    Checked(version # Nil, [cluster EXCEPT !.application_version = version],
            version \in Strings, [asked EXCEPT !.app_version = version])

cass_cluster_set_client_id(id) ==
    Set([cluster EXCEPT !.client_id = id], [asked EXCEPT !.client_id = id])

cass_cluster_set_use_schema(enabled) ==
    Set([cluster EXCEPT !.fetch_schema_metadata = enabled], [asked EXCEPT !.use_schema = enabled])

cass_cluster_set_use_randomized_contact_points(enabled) ==
    Set([cluster EXCEPT !.shuffle_contact_points = enabled], [asked EXCEPT !.randomized = enabled])

cass_cluster_set_tcp_nodelay(enabled) ==
    Set([cluster EXCEPT !.tcp_nodelay = enabled], [asked EXCEPT !.nodelay = enabled])

cass_cluster_set_tcp_keepalive(enabled, delay) ==
    Set([cluster EXCEPT !.tcp_keepalive_interval = IF enabled THEN delay ELSE Nil],
        [asked EXCEPT !.keepalive = [enabled |-> enabled, delay |-> delay],
                      !.unclear = @ \ {"keepalive"}])

cass_cluster_set_timestamp_gen(gen) ==
    Checked(gen # Nil, [cluster EXCEPT !.timestamp_generator =
                            IF gen = "server_side" THEN Nil ELSE gen],
            gen # Nil, [asked EXCEPT !.timestamps = gen])

cass_cluster_set_connection_heartbeat_interval(secs) ==
    Set([cluster EXCEPT !.keepalive_interval = ZeroIsNone(secs)], [asked EXCEPT !.heartbeat = secs])

cass_cluster_set_connection_idle_timeout(secs) ==
    Set([cluster EXCEPT !.keepalive_timeout = ZeroIsNone(secs)], [asked EXCEPT !.idle = secs])

cass_cluster_set_connect_timeout(ms) ==
    Set([cluster EXCEPT !.connect_timeout = ms], [asked EXCEPT !.connect_timeout = ms])

(* cassandra.h says of each of the two that it overrides the other.         *)
PoolAsked(per, n) ==
    [asked EXCEPT !.pool = [per |-> per, size |-> n],
                  !.unclear = IF asked.pool.per \in {"default", per} THEN @ ELSE @ \cup {"pool"}]

cass_cluster_set_core_connections_per_host(n) ==
    Checked(n # 0, [cluster EXCEPT !.connection_pool_size = [per |-> "host", size |-> n]],
            n > 0, PoolAsked("host", n))

cass_cluster_set_core_connections_per_shard(n) ==
    Checked(n # 0, [cluster EXCEPT !.connection_pool_size = [per |-> "shard", size |-> n]],
            n > 0, PoolAsked("shard", n))

BugSmallDelayKeepsOff(us) ==   \* a small delay after 0 does not enable it again
    Checked(us >= 0, IF us < Milli THEN [cluster EXCEPT !.enable_write_coalescing = @ /\ us # 0]
                     ELSE [cluster EXCEPT !.enable_write_coalescing = TRUE,
                                          !.write_coalescing_delay = us \div Milli],
            us >= 0, [asked EXCEPT !.coalesce_us = us])

(* Two fields: a delay of 0 writes only the first.                          *)
cass_cluster_set_coalesce_delay(us) ==
    Checked(us >= 0, IF us = 0 THEN [cluster EXCEPT !.enable_write_coalescing = FALSE]
                     ELSE [cluster EXCEPT !.enable_write_coalescing = TRUE,
                                          !.write_coalescing_delay =
                                              IF us \div Milli = 0 THEN SmallNondeterministic
                                              ELSE us \div Milli],
            us >= 0, [asked EXCEPT !.coalesce_us = us])

cass_cluster_set_request_timeout(ms) ==
    Set([cluster EXCEPT !.request_timeout = ZeroIsNone(ms)], [asked EXCEPT !.request_timeout = ms])

cass_cluster_set_resolve_timeout(ms) ==
    Set([cluster EXCEPT !.hostname_resolution_timeout = ZeroIsNone(ms)],
        [asked EXCEPT !.resolve_timeout = ms])

cass_cluster_set_max_schema_wait_time(ms) ==
    Set([cluster EXCEPT !.schema_agreement_timeout = ms], [asked EXCEPT !.schema_wait = ms])

cass_cluster_set_schema_agreement_interval(ms) ==
    Set([cluster EXCEPT !.schema_agreement_interval = ms], [asked EXCEPT !.schema_interval = ms])

U16Max == 65535
UserPort == 1024       \* the first port that is not reserved

InU16(n) == 0 <= n /\ n <= U16Max

cass_cluster_set_port(port) ==
    Checked(InU16(port), [cluster EXCEPT !.port = port],
            0 <= port /\ port <= U16Max, [asked EXCEPT !.port = port])

(* Null and empty both mean any address.                                    *)
cass_cluster_set_local_address(ip) ==
    Checked(ip # Unparsable, [cluster EXCEPT !.local_ip_address = ip],
            ip \in Addresses \cup {Nil}, [asked EXCEPT !.address = ip])

(* ShardAwarePortRange::new: neither empty nor among the reserved ports.    *)
ShardAwarePortRange(start, end) == UserPort <= start /\ start <= end

(* A range with hi exclusive, and a range in the terms of the error message. *)
HalfOpenRange(lo, hi) == UserPort <= lo /\ lo < hi /\ hi <= U16Max + 1
ExpectedRange(lo, hi) == UserPort < lo /\ lo <= hi /\ hi <= U16Max

(* hi is exclusive here and inclusive in the Rust driver.                   *)
cass_cluster_set_local_port_range(lo, hi) ==
    Checked(InU16(lo) /\ InU16(hi - 1) /\ ShardAwarePortRange(lo, hi - 1),
            [cluster EXCEPT !.local_port_range = [start |-> lo, end |-> hi - 1]],
            HalfOpenRange(lo, hi) \/ ExpectedRange(lo, hi),
            [asked EXCEPT !.ports = [lo |-> lo, hi |-> hi],
                          !.unclear = IF HalfOpenRange(lo, hi) /\ ExpectedRange(lo, hi)
                                      THEN @ \ {"ports"} ELSE @ \cup {"ports"}])

(* Neither is set unless both can be.                                       *)
cass_cluster_set_credentials(username, password) ==
    Checked(username # Nil /\ password # Nil,
            [cluster EXCEPT !.auth_username = username, !.auth_password = password],
            username \in Strings /\ password \in Strings,
            [asked EXCEPT !.credentials = [user |-> username, password |-> password]])

cass_cluster_set_constant_speculative_execution_policy(delay, max) ==
    LET policy == [interval |-> delay, retries |-> max]
    IN  Checked(~(delay < 0 \/ max < 0), [cluster EXCEPT !.speculative_execution = policy],
                delay >= 0 /\ max >= 0, [asked EXCEPT !.speculative = policy])

cass_cluster_set_no_speculative_execution_policy ==
    Set([cluster EXCEPT !.speculative_execution = Nil], [asked EXCEPT !.speculative = Nil])

cass_cluster_set_token_aware_routing(enabled) ==
    Set([cluster EXCEPT !.token_awareness_enabled = enabled], [asked EXCEPT !.token_aware = enabled])

cass_cluster_set_token_aware_routing_shuffle_replicas(enabled) ==
    Set([cluster EXCEPT !.token_aware_shuffling_replicas_enabled = enabled],
        [asked EXCEPT !.shuffle_replicas = enabled])

cass_cluster_set_retry_policy(policy) ==
    Checked(policy # Nil, [cluster EXCEPT !.retry_policy = policy],
            policy # Nil, [asked EXCEPT !.retry = policy])

cass_cluster_set_ssl(ssl) ==
    Checked(ssl # Nil, [cluster EXCEPT !.tls_context = ssl],
            ssl \in Strings, [asked EXCEPT !.ssl = ssl])

cass_cluster_set_compression(type) ==
    Set([cluster EXCEPT !.compression = IF type \in {"LZ4", "SNAPPY"} THEN type ELSE Nil],
        [asked EXCEPT !.compression = type])

cass_cluster_set_latency_aware_routing(enabled) ==
    Set([cluster EXCEPT !.latency_awareness_enabled = enabled],
        [asked EXCEPT !.latency = enabled])

cass_cluster_set_latency_aware_routing_settings(settings) ==
    Set([cluster EXCEPT !.latency_awareness_builder = settings],
        [asked EXCEPT !.latency_settings = settings])

(* MaybeUnsetConfig::from_c_value of the two kinds of consistency; UNKNOWN  *)
(* is the "unset" value, which a cluster refuses.                           *)
Consistency == {"ANY", "ONE", "TWO", "THREE", "QUORUM", "ALL", "LOCAL_QUORUM", "EACH_QUORUM",
                "LOCAL_ONE", "LOCAL_SERIAL", "SERIAL"}
SerialConsistency == {"ANY", "LOCAL_SERIAL", "SERIAL"}

cass_cluster_set_consistency(cl) ==
    Checked(cl # "UNKNOWN" /\ cl \in Consistency, [cluster EXCEPT !.consistency = cl],
            cl \in Consistency, [asked EXCEPT !.consistency = cl])

cass_cluster_set_serial_consistency(cl) ==
    Checked(cl # "UNKNOWN" /\ cl \in SerialConsistency,
            [cluster EXCEPT !.serial_consistency = IF cl = "ANY" THEN Nil ELSE cl],
            cl \in SerialConsistency, [asked EXCEPT !.serial = cl])

cass_cluster_set_constant_reconnect(ms) ==
    LET policy == [kind |-> "constant", base |-> ms, max |-> ms]
    IN  Set([cluster EXCEPT !.reconnect_policy = policy], [asked EXCEPT !.reconnect = policy])

cass_cluster_set_exponential_reconnect(base, max) ==
    LET policy == [kind |-> "exponential", base |-> base, max |-> max]
    IN  Checked(~(base <= 1 \/ max <= 1 \/ max < base),
                [cluster EXCEPT !.reconnect_policy = policy],
                1 < base /\ base <= max, [asked EXCEPT !.reconnect = policy])

cass_cluster_set_num_threads_io(n) ==
    Set([cluster EXCEPT !.num_threads_io = n], [asked EXCEPT !.threads = n])

cass_cluster_set_metadata_request_serverside_timeout(ms) ==
    Set([cluster EXCEPT !.metadata_request_serverside_timeout = ZeroIsNone(ms)],
        [asked EXCEPT !.metadata_timeout = ms])

cass_cluster_set_host_listener_callback(callback) ==
    Set([cluster EXCEPT !.host_listener = callback], [asked EXCEPT !.listener = callback])

-----------------------------------------------------------------------------
Coalescing(c) == IF c.enable_write_coalescing THEN c.write_coalescing_delay ELSE Nil

(* build_session_builder, with LoadBalancingConfig::build: the fields that   *)
(* are combined when a session is built; the others are copied.             *)
build_session_builder(c) ==
    [known_nodes |-> {<<p, c.port>> : p \in c.contact_points},
     user |-> IF c.auth_username # Nil /\ c.auth_password # Nil
              THEN [user |-> c.auth_username, password |-> c.auth_password] ELSE Nil,
     coalescing |-> Coalescing(c),
     shuffling |-> c.token_awareness_enabled /\ c.token_aware_shuffling_replicas_enabled,
     latency |-> IF c.latency_awareness_enabled THEN {c.latency_awareness_builder} ELSE {},
     config |-> c]

Within(n, o, t) == \E b \in Budgets : n <= b.calls /\ o <= b.options /\ t <= b.steps

(* cass_session_connect: everything is copied by the call, before the task. *)
cass_session_connect(o, s) ==
    /\ Connect
    /\ connect(o, s, cluster.num_threads_io)
    /\ captured' = [captured EXCEPT ![o] = [builder |-> build_session_builder(cluster),
                                            asked |-> asked]]
    /\ UNCHANGED <<cluster, asked, options>>

PortRanges ==
    {<<-1, UserPort + 1>>, <<UserPort - 1, U16Max>>, <<UserPort, UserPort + 1>>,
     <<UserPort + 1, UserPort + 1>>, <<UserPort + 1, U16Max>>, <<UserPort + 1, U16Max + 2>>}

(* The option setters, with the inputs at the edges of what they accept.    *)
ConnectionOptions ==
    \/ \E p \in Strings, clear \in BOOLEAN : cass_cluster_set_contact_points(clear, {p})
    \/ \E port \in {-1, 0, U16Max, U16Max + 1} : cass_cluster_set_port(port)
    \/ \E enabled \in BOOLEAN :
          \/ cass_cluster_set_use_randomized_contact_points(enabled)
          \/ cass_cluster_set_use_schema(enabled)
          \/ cass_cluster_set_tcp_nodelay(enabled)
          \/ \E delay \in {0, 5} : cass_cluster_set_tcp_keepalive(enabled, delay)
    \/ \E x \in Strings \cup {Nil} :
          \/ cass_cluster_set_local_address(x)
          \/ \E y \in Strings \cup {Nil} : cass_cluster_set_credentials(x, y)
    \/ \E x \in Addresses \cup {Nil} :
          \/ cass_cluster_set_application_name(x)
          \/ cass_cluster_set_application_version(x)
          \/ cass_cluster_set_ssl(x)
          \/ cass_cluster_set_host_listener_callback(x)
    \/ \E x \in Addresses : cass_cluster_set_client_id(x)
    \/ \E g \in {"monotonic", "server_side", Nil} : cass_cluster_set_timestamp_gen(g)
    \/ \E n \in {0, 1} :
          \/ cass_cluster_set_connection_heartbeat_interval(n)
          \/ cass_cluster_set_connection_idle_timeout(n)
          \/ cass_cluster_set_resolve_timeout(n)
          \/ cass_cluster_set_metadata_request_serverside_timeout(n)
          \/ cass_cluster_set_core_connections_per_host(n)
          \/ cass_cluster_set_core_connections_per_shard(n)
    \/ cass_cluster_set_connect_timeout(0)
    \/ cass_cluster_set_max_schema_wait_time(0)
    \/ cass_cluster_set_schema_agreement_interval(0)
    \/ \E us \in {-1, 0, Milli - 1, Milli} : cass_cluster_set_coalesce_delay(us)
    \/ \E range \in PortRanges :
          cass_cluster_set_local_port_range(range[1], range[2])
    \/ \E t \in {"LZ4", "SNAPPY", "NONE"} : cass_cluster_set_compression(t)
    \/ \E ms \in {0, 2} : cass_cluster_set_constant_reconnect(ms)
    \/ \E base \in {1, 2, 3}, max \in {1, 2} : cass_cluster_set_exponential_reconnect(base, max)

RequestOptions ==
    \/ \E ms \in {0, 1} : cass_cluster_set_request_timeout(ms)
    \/ \E delay \in {-1, 0}, max \in {-1, 2} :
          cass_cluster_set_constant_speculative_execution_policy(delay, max)
    \/ cass_cluster_set_no_speculative_execution_policy
    \/ \E enabled \in BOOLEAN :
          \/ cass_cluster_set_token_aware_routing(enabled)
          \/ cass_cluster_set_token_aware_routing_shuffle_replicas(enabled)
          \/ cass_cluster_set_latency_aware_routing(enabled)
    \/ \E x \in Addresses : cass_cluster_set_latency_aware_routing_settings(x)
    \/ \E r \in {"default", "fallthrough", Nil} : cass_cluster_set_retry_policy(r)
    \/ \E cl \in {"ANY", "QUORUM", "SERIAL", "UNKNOWN", "invalid"} :
          cass_cluster_set_consistency(cl) \/ cass_cluster_set_serial_consistency(cl)

(* A call that changes nothing is a stuttering step and is not counted.     *)
OptionNext ==
    /\ Within(calls, options + 1, steps)
    /\ options' = options + 1
    /\ ConnectionOptions \/ RequestOptions
    /\ <<cluster, asked>>' # <<cluster, asked>>
    /\ UNCHANGED <<config, attached, session, calls, cache, threads, owners, connected, ops,
                   captured, steps>>

ClusterNext ==
    \/ OptionNext
    \/ /\ Within(calls + 1, options, steps)
       /\ Setters
       /\ UNCHANGED <<cache, threads, owners, connected, ops, cluster, asked, captured,
                      options, steps>>
    \/ /\ Within(calls, options, steps + 1)
       /\ steps' = steps + 1
       /\ \/ \E o \in Ops, s \in Sessions : cass_session_connect(o, s)
          \/ /\ \E n \in ThreadCounts \ {Nil} : cass_cluster_set_num_threads_io(n)
             /\ UNCHANGED <<config, attached, session, calls, cache, threads, owners, connected,
                            ops, captured, options>>
          \/ /\ RuntimesNext
             /\ UNCHANGED <<config, attached, session, calls, cluster, asked, captured, options>>

ClusterSpec == ClusterInit /\ [][ClusterNext]_allVars

-----------------------------------------------------------------------------
(* What cassandra.h says the requests in a mean for the options c.  It does  *)
(* not speak of the reconnection policy of a cluster that was asked for none *)
(* as the code does, and it has token-aware routing retrieve the schema      *)
(* whatever was asked: see Built.                                            *)
ConnectionFields(c, a) ==
    /\ c.contact_points = a.contact_points /\ c.port = a.port
    /\ c.shuffle_contact_points = a.randomized
    /\ a.credentials = IF c.auth_username = Nil \/ c.auth_password = Nil THEN Nil
                       ELSE [user |-> c.auth_username, password |-> c.auth_password]
    /\ c.client_id = a.client_id
    /\ c.application_name = a.app_name /\ c.application_version = a.app_version
    /\ c.tcp_nodelay = a.nodelay
    /\ "keepalive" \notin a.unclear =>
          c.tcp_keepalive_interval = IF a.keepalive.enabled THEN a.keepalive.delay ELSE Nil
    /\ c.keepalive_interval = ZeroIsNone(a.heartbeat) /\ c.keepalive_timeout = ZeroIsNone(a.idle)
    /\ c.connect_timeout = a.connect_timeout
    /\ "pool" \notin a.unclear =>
          c.connection_pool_size = IF a.pool.per = "default" THEN [per |-> "shard", size |-> 1]
                                   ELSE a.pool
    /\ c.hostname_resolution_timeout = ZeroIsNone(a.resolve_timeout)
    /\ c.schema_agreement_timeout = a.schema_wait
    /\ c.schema_agreement_interval = a.schema_interval
    /\ c.metadata_request_serverside_timeout = ZeroIsNone(a.metadata_timeout)
    /\ c.local_ip_address = a.address
    /\ "ports" \notin a.unclear =>
          c.local_port_range =
              IF a.ports = Nil THEN Nil ELSE [start |-> a.ports.lo, end |-> a.ports.hi - 1]
    /\ c.tls_context = a.ssl
    /\ c.compression = IF a.compression = "NONE" THEN Nil ELSE a.compression
    /\ a.reconnect # Nil => c.reconnect_policy = a.reconnect
    /\ c.host_listener = a.listener

RequestFields(c, a) ==
    /\ c.timestamp_generator = IF a.timestamps = "server_side" THEN Nil ELSE a.timestamps
    /\ c.request_timeout = ZeroIsNone(a.request_timeout)
    /\ c.speculative_execution = a.speculative
    /\ c.token_awareness_enabled = a.token_aware
    /\ c.token_aware_shuffling_replicas_enabled = a.shuffle_replicas
    /\ c.latency_awareness_enabled = a.latency
    /\ c.latency_awareness_builder = a.latency_settings
    /\ c.retry_policy = a.retry
    /\ c.consistency = a.consistency
    /\ c.serial_consistency = IF a.serial = "ANY" THEN Nil ELSE a.serial

CoalescingAsked(a) == IF a.coalesce_us = 0 THEN Nil ELSE a.coalesce_us \div Milli

(* ... and for the session built as b.                                       *)
Built(b, a) ==
    /\ b.known_nodes = {<<p, a.port>> : p \in a.contact_points}
    /\ b.user = a.credentials
    /\ b.coalescing = CoalescingAsked(a)
    /\ b.shuffling = (a.token_aware /\ a.shuffle_replicas)
    /\ b.latency = IF a.latency THEN {a.latency_settings} ELSE {}
    /\ a.use_schema \/ ~a.token_aware => b.config.fetch_schema_metadata = a.use_schema
    /\ ConnectionFields(b.config, a)
    /\ RequestFields(b.config, a)

(* Every connect call hands its session what the last valid request for each *)
(* option before the call asked for, in whatever order the options were set: *)
(* calls that were refused in between left no trace, and options stored in   *)
(* several fields agree.  Its runtime has the thread count asked for.        *)
(* Nothing is claimed where cluster.rs and its documentation disagree:       *)
(* keep-alive before it is set (cassandra.h:2556), port ranges that only one *)
(* of the code and its message allows (cluster.rs:947), connections asked    *)
(* for both per host and per shard (cassandra.h:1949, :1971), reconnection   *)
(* before it is set (:2021), schema metadata that token-aware routing would  *)
(* enable (:2301).                                                           *)
ConnectionAsAsked ==
    \A o \in Ops :
        captured[o] # Nil =>
            /\ Built(captured[o].builder, captured[o].asked)
            /\ threads[ops[o].runtime] = captured[o].asked.threads

(* What holds of the cluster before it is copied.                            *)
OptionsAsAsked ==
    /\ DOMAIN cluster = DOMAIN cass_cluster_new /\ DOMAIN asked = DOMAIN AskedFirst
    /\ cluster.fetch_schema_metadata = asked.use_schema
    /\ ConnectionFields(cluster, asked)
    /\ RequestFields(cluster, asked)
    /\ Coalescing(cluster) = CoalescingAsked(asked)
    /\ cluster.num_threads_io = asked.threads /\ asked.threads \in ThreadCounts

(* The inductive invariant: those of the load balancing configuration and of *)
(* the runtimes, and what is true of the cluster before and when it is       *)
(* copied.                                                                   *)
ClusterInv ==
    /\ LbInv
    /\ RuntimesInv
    /\ OptionsAsAsked
    /\ DOMAIN captured = Ops
    /\ \A o \in Ops : captured[o] # Nil => ops[o] # Nil
    /\ ConnectionAsAsked
=============================================================================
