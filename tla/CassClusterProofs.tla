-------------------------- MODULE CassClusterProofs --------------------------
(***************************************************************************)
(* The cluster, its load balancing and its runtimes, for any hosts,        *)
(* datacenters, profiles, sessions, thread counts and sequence of calls.   *)
(***************************************************************************)
EXTENDS CassCluster, RuntimesProofs, TLAPS

LEMMA Numbers ==
    /\ Milli \in Nat /\ 200 \div Milli = 0
    /\ U16Max \in Nat /\ UserPort \in Nat /\ 0 < UserPort
    /\ ZeroIsNone(30) = 30 /\ ZeroIsNone(60) = 60
    /\ ZeroIsNone(DEFAULT_REQUEST_TIMEOUT) = DEFAULT_REQUEST_TIMEOUT
    /\ ZeroIsNone(DEFAULT_DNS_RESOLVE_TIMEOUT) = DEFAULT_DNS_RESOLVE_TIMEOUT
    /\ ZeroIsNone(DEFAULT_METADATA_TIMEOUT) = DEFAULT_METADATA_TIMEOUT
BY SMT DEF Milli, U16Max, UserPort, ZeroIsNone, DEFAULT_REQUEST_TIMEOUT,
           DEFAULT_DNS_RESOLVE_TIMEOUT, DEFAULT_METADATA_TIMEOUT

(* A new cluster is as asked.                                               *)
LEMMA DefaultsAsAsked ==
    /\ ConnectionFields(cass_cluster_new, AskedFirst)
    /\ RequestFields(cass_cluster_new, AskedFirst)
    /\ Coalescing(cass_cluster_new) = CoalescingAsked(AskedFirst)
    /\ cass_cluster_new.fetch_schema_metadata = AskedFirst.use_schema
    /\ cass_cluster_new.num_threads_io = AskedFirst.threads
    /\ AskedFirst.threads \in ThreadCounts
<1>1. PICK c, a : c = cass_cluster_new /\ a = AskedFirst
    BY Zenon
<1>2. /\ ConnectionFields(c, a)
      /\ c.fetch_schema_metadata = a.use_schema
      /\ Coalescing(c) = CoalescingAsked(a)
    BY <1>1, Numbers, SMTT(30) DEF ConnectionFields, Coalescing, CoalescingAsked,
        cass_cluster_new, AskedFirst, SmallNondeterministic
<1>3. /\ RequestFields(c, a)
      /\ c.num_threads_io = a.threads /\ a.threads \in ThreadCounts
    BY <1>1, Numbers, RuntimesAssumption, SMTT(30)
    DEF RequestFields, cass_cluster_new, AskedFirst
<1> QED
    BY <1>1, <1>2, <1>3, Zenon

(* The code's checks of ports.                                              *)
LEMMA Ports ==
    ASSUME NEW lo \in Int, NEW hi \in Int
    PROVE /\ InU16(lo) <=> 0 <= lo /\ lo <= U16Max
          /\ InU16(lo) /\ InU16(hi - 1) /\ ShardAwarePortRange(lo, hi - 1) <=>
                HalfOpenRange(lo, hi)
          /\ [lo |-> lo, hi |-> hi] # Nil
BY ClusterAssumption, Numbers DEF InU16, ShardAwarePortRange, HalfOpenRange

LEMMA PortsTyped == \A port \in {-1, 0, U16Max, U16Max + 1} : port \in Int
BY Numbers

LEMMA PortRangesTyped == \A range \in PortRanges : range[1] \in Int /\ range[2] \in Int
BY Numbers DEF PortRanges

(* The options of a cluster.                                                *)
LEMMA Fields ==
    ASSUME OptionsAsAsked
    PROVE LET d == DOMAIN cluster
              e == DOMAIN asked
          IN
    /\ "contact_points" \in d /\ "port" \in d /\ "shuffle_contact_points" \in d
    /\ "auth_username" \in d /\ "auth_password" \in d /\ "num_threads_io" \in d
    /\ "client_id" \in d /\ "application_name" \in d /\ "application_version" \in d
    /\ "fetch_schema_metadata" \in d /\ "tcp_nodelay" \in d
    /\ "tcp_keepalive_interval" \in d /\ "timestamp_generator" \in d
    /\ "keepalive_interval" \in d /\ "keepalive_timeout" \in d /\ "connect_timeout" \in d
    /\ "connection_pool_size" \in d /\ "enable_write_coalescing" \in d
    /\ "write_coalescing_delay" \in d /\ "request_timeout" \in d
    /\ "hostname_resolution_timeout" \in d /\ "schema_agreement_timeout" \in d
    /\ "schema_agreement_interval" \in d /\ "local_ip_address" \in d
    /\ "local_port_range" \in d /\ "speculative_execution" \in d
    /\ "token_awareness_enabled" \in d /\ "token_aware_shuffling_replicas_enabled" \in d
    /\ "retry_policy" \in d /\ "tls_context" \in d /\ "compression" \in d
    /\ "latency_awareness_enabled" \in d /\ "latency_awareness_builder" \in d
    /\ "consistency" \in d /\ "serial_consistency" \in d /\ "reconnect_policy" \in d
    /\ "metadata_request_serverside_timeout" \in d /\ "host_listener" \in d
    /\ "contact_points" \in e /\ "port" \in e /\ "randomized" \in e /\ "credentials" \in e
    /\ "threads" \in e /\ "client_id" \in e /\ "app_name" \in e /\ "app_version" \in e
    /\ "use_schema" \in e /\ "nodelay" \in e /\ "keepalive" \in e /\ "timestamps" \in e
    /\ "heartbeat" \in e /\ "idle" \in e /\ "connect_timeout" \in e /\ "pool" \in e
    /\ "coalesce_us" \in e /\ "request_timeout" \in e /\ "resolve_timeout" \in e
    /\ "schema_wait" \in e /\ "schema_interval" \in e /\ "address" \in e /\ "ports" \in e
    /\ "speculative" \in e /\ "token_aware" \in e /\ "shuffle_replicas" \in e
    /\ "retry" \in e /\ "ssl" \in e /\ "compression" \in e /\ "latency" \in e
    /\ "latency_settings" \in e /\ "consistency" \in e /\ "serial" \in e
    /\ "reconnect" \in e /\ "metadata_timeout" \in e /\ "listener" \in e
    /\ "unclear" \in e
BY SMTT(30) DEF OptionsAsAsked, cass_cluster_new, AskedFirst

(* The options of connections, setter by setter.                            *)
LEMMA ConnectionOptionsStep ==
    ASSUME OptionsAsAsked, ConnectionOptions
    PROVE OptionsAsAsked'
<1> USE Fields DEF OptionsAsAsked, ConnectionFields, RequestFields,
            Coalescing, CoalescingAsked, Checked, Set
<1>1. ASSUME NEW p \in Strings, NEW clear \in BOOLEAN,
             cass_cluster_set_contact_points(clear, {p})
      PROVE OptionsAsAsked'
    BY <1>1 DEF cass_cluster_set_contact_points, update_comma_delimited_list
<1>2. ASSUME NEW port \in {-1, 0, U16Max, U16Max + 1}, cass_cluster_set_port(port)
      PROVE OptionsAsAsked'
    BY <1>2, PortsTyped, Ports DEF cass_cluster_set_port
<1>3. ASSUME NEW x \in BOOLEAN, cass_cluster_set_use_randomized_contact_points(x)
      PROVE OptionsAsAsked'
    BY <1>3 DEF cass_cluster_set_use_randomized_contact_points
<1>4. ASSUME NEW x \in BOOLEAN, cass_cluster_set_use_schema(x)
      PROVE OptionsAsAsked'
    BY <1>4 DEF cass_cluster_set_use_schema
<1>5. ASSUME NEW x \in BOOLEAN, cass_cluster_set_tcp_nodelay(x)
      PROVE OptionsAsAsked'
    BY <1>5 DEF cass_cluster_set_tcp_nodelay
<1>6. ASSUME NEW x \in BOOLEAN, NEW delay \in {0, 5},
             cass_cluster_set_tcp_keepalive(x, delay)
      PROVE OptionsAsAsked'
    BY <1>6 DEF cass_cluster_set_tcp_keepalive
<1>7. ASSUME NEW x \in Strings \cup {Nil}, cass_cluster_set_local_address(x)
      PROVE OptionsAsAsked'
    BY <1>7, ClusterAssumption DEF cass_cluster_set_local_address, Addresses
<1>8. ASSUME NEW x \in Strings \cup {Nil}, NEW y \in Strings \cup {Nil},
             cass_cluster_set_credentials(x, y)
      PROVE OptionsAsAsked'
    BY <1>8, ClusterAssumption DEF cass_cluster_set_credentials
<1>9. ASSUME NEW x \in Addresses \cup {Nil}, cass_cluster_set_application_name(x)
      PROVE OptionsAsAsked'
    BY <1>9, ClusterAssumption DEF cass_cluster_set_application_name, Addresses
<1>10. ASSUME NEW x \in Addresses \cup {Nil}, cass_cluster_set_application_version(x)
      PROVE OptionsAsAsked'
    BY <1>10, ClusterAssumption DEF cass_cluster_set_application_version, Addresses
<1>11. ASSUME NEW x \in Addresses \cup {Nil}, cass_cluster_set_ssl(x)
      PROVE OptionsAsAsked'
    BY <1>11, ClusterAssumption DEF cass_cluster_set_ssl, Addresses
<1>12. ASSUME NEW x \in Addresses \cup {Nil}, cass_cluster_set_host_listener_callback(x)
      PROVE OptionsAsAsked'
    BY <1>12 DEF cass_cluster_set_host_listener_callback
<1>13. ASSUME NEW x \in Addresses, cass_cluster_set_client_id(x)
      PROVE OptionsAsAsked'
    BY <1>13 DEF cass_cluster_set_client_id
<1>14. ASSUME NEW g \in {"monotonic", "server_side", Nil}, cass_cluster_set_timestamp_gen(g)
      PROVE OptionsAsAsked'
    BY <1>14 DEF cass_cluster_set_timestamp_gen
<1>15. ASSUME NEW n \in {0, 1}, cass_cluster_set_connection_heartbeat_interval(n)
      PROVE OptionsAsAsked'
    BY <1>15 DEF cass_cluster_set_connection_heartbeat_interval
<1>16. ASSUME NEW n \in {0, 1}, cass_cluster_set_connection_idle_timeout(n)
      PROVE OptionsAsAsked'
    BY <1>16 DEF cass_cluster_set_connection_idle_timeout
<1>17. ASSUME NEW n \in {0, 1}, cass_cluster_set_resolve_timeout(n)
      PROVE OptionsAsAsked'
    BY <1>17 DEF cass_cluster_set_resolve_timeout
<1>18. ASSUME NEW n \in {0, 1}, cass_cluster_set_metadata_request_serverside_timeout(n)
      PROVE OptionsAsAsked'
    BY <1>18 DEF cass_cluster_set_metadata_request_serverside_timeout
<1>19. ASSUME NEW n \in {0, 1}, cass_cluster_set_core_connections_per_host(n)
      PROVE OptionsAsAsked'
    BY <1>19 DEF cass_cluster_set_core_connections_per_host, PoolAsked
<1>20. ASSUME NEW n \in {0, 1}, cass_cluster_set_core_connections_per_shard(n)
      PROVE OptionsAsAsked'
    BY <1>20 DEF cass_cluster_set_core_connections_per_shard, PoolAsked
<1>21. ASSUME cass_cluster_set_connect_timeout(0)
      PROVE OptionsAsAsked'
    BY <1>21 DEF cass_cluster_set_connect_timeout
<1>22. ASSUME cass_cluster_set_max_schema_wait_time(0)
      PROVE OptionsAsAsked'
    BY <1>22 DEF cass_cluster_set_max_schema_wait_time
<1>23. ASSUME cass_cluster_set_schema_agreement_interval(0)
      PROVE OptionsAsAsked'
    BY <1>23 DEF cass_cluster_set_schema_agreement_interval
<1>24. ASSUME NEW us \in {-1, 0, Milli - 1, Milli}, cass_cluster_set_coalesce_delay(us)
      PROVE OptionsAsAsked'
    BY <1>24 DEF cass_cluster_set_coalesce_delay, SmallNondeterministic
<1>25. ASSUME NEW range \in PortRanges,
             cass_cluster_set_local_port_range(range[1], range[2])
      PROVE OptionsAsAsked'
    BY <1>25, PortRangesTyped, Ports DEF cass_cluster_set_local_port_range
<1>26. ASSUME NEW t \in {"LZ4", "SNAPPY", "NONE"}, cass_cluster_set_compression(t)
      PROVE OptionsAsAsked'
    BY <1>26 DEF cass_cluster_set_compression
<1>27. ASSUME NEW ms \in {0, 2}, cass_cluster_set_constant_reconnect(ms)
      PROVE OptionsAsAsked'
    BY <1>27 DEF cass_cluster_set_constant_reconnect
<1>28. ASSUME NEW base \in {1, 2, 3}, NEW max \in {1, 2},
             cass_cluster_set_exponential_reconnect(base, max)
      PROVE OptionsAsAsked'
    BY <1>28 DEF cass_cluster_set_exponential_reconnect
<1> HIDE Fields DEF OptionsAsAsked, ConnectionFields, RequestFields,
            Coalescing, CoalescingAsked, Checked, Set
<1> QED
  <2>1. CASE \E enabled \in BOOLEAN :
                \/ cass_cluster_set_use_randomized_contact_points(enabled)
                \/ cass_cluster_set_use_schema(enabled)
                \/ cass_cluster_set_tcp_nodelay(enabled)
                \/ \E delay \in {0, 5} : cass_cluster_set_tcp_keepalive(enabled, delay)
      BY <1>3, <1>4, <1>5, <1>6, <2>1
  <2>2. CASE \E x \in Strings \cup {Nil} :
                \/ cass_cluster_set_local_address(x)
                \/ \E y \in Strings \cup {Nil} : cass_cluster_set_credentials(x, y)
      BY <1>7, <1>8, <2>2
  <2>3. CASE \E x \in Addresses \cup {Nil} :
                \/ cass_cluster_set_application_name(x)
                \/ cass_cluster_set_application_version(x)
                \/ cass_cluster_set_ssl(x)
                \/ cass_cluster_set_host_listener_callback(x)
      BY <1>9, <1>10, <1>11, <1>12, <2>3
  <2>4. CASE \E n \in {0, 1} :
                \/ cass_cluster_set_connection_heartbeat_interval(n)
                \/ cass_cluster_set_connection_idle_timeout(n)
                \/ cass_cluster_set_resolve_timeout(n)
                \/ cass_cluster_set_metadata_request_serverside_timeout(n)
                \/ cass_cluster_set_core_connections_per_host(n)
                \/ cass_cluster_set_core_connections_per_shard(n)
      BY <1>15, <1>16, <1>17, <1>18, <1>19, <1>20, <2>4
  <2>5. CASE \E p \in Strings, clear \in BOOLEAN :
                cass_cluster_set_contact_points(clear, {p})
      BY <1>1, <2>5
  <2>6. CASE \E port \in {-1, 0, U16Max, U16Max + 1} : cass_cluster_set_port(port)
      BY <1>2, <2>6
  <2>7. CASE \E x \in Addresses : cass_cluster_set_client_id(x)
      BY <1>13, <2>7
  <2>8. CASE \E g \in {"monotonic", "server_side", Nil} : cass_cluster_set_timestamp_gen(g)
      BY <1>14, <2>8
  <2>9. CASE \E us \in {-1, 0, Milli - 1, Milli} : cass_cluster_set_coalesce_delay(us)
      BY <1>24, <2>9
  <2>10. CASE \E range \in PortRanges : cass_cluster_set_local_port_range(range[1], range[2])
      BY <1>25, <2>10
  <2>11. CASE \E t \in {"LZ4", "SNAPPY", "NONE"} : cass_cluster_set_compression(t)
      BY <1>26, <2>11
  <2>12. CASE \E ms \in {0, 2} : cass_cluster_set_constant_reconnect(ms)
      BY <1>27, <2>12
  <2>13. CASE \E base \in {1, 2, 3}, max \in {1, 2} :
                cass_cluster_set_exponential_reconnect(base, max)
      BY <1>28, <2>13
  <2> QED
      BY <1>21, <1>22, <1>23, <2>1, <2>2, <2>3, <2>4, <2>5, <2>6, <2>7, <2>8, <2>9, <2>10,
         <2>11, <2>12, <2>13, Zenon DEF ConnectionOptions

(* The options of requests.                                                 *)
LEMMA RequestOptionsStep ==
    ASSUME OptionsAsAsked, RequestOptions
    PROVE OptionsAsAsked'
<1> USE Fields DEF OptionsAsAsked, ConnectionFields, RequestFields,
            Coalescing, CoalescingAsked, Checked, Set
<1>1. ASSUME NEW ms \in {0, 1}, cass_cluster_set_request_timeout(ms)
      PROVE OptionsAsAsked'
    BY <1>1 DEF cass_cluster_set_request_timeout
<1>2. ASSUME NEW delay \in {-1, 0}, NEW max \in {-1, 2},
             cass_cluster_set_constant_speculative_execution_policy(delay, max)
      PROVE OptionsAsAsked'
    BY <1>2 DEF cass_cluster_set_constant_speculative_execution_policy
<1>3. ASSUME cass_cluster_set_no_speculative_execution_policy
      PROVE OptionsAsAsked'
    BY <1>3 DEF cass_cluster_set_no_speculative_execution_policy
<1>4. ASSUME NEW x \in BOOLEAN, cass_cluster_set_token_aware_routing(x)
      PROVE OptionsAsAsked'
    BY <1>4 DEF cass_cluster_set_token_aware_routing
<1>5. ASSUME NEW x \in BOOLEAN, cass_cluster_set_token_aware_routing_shuffle_replicas(x)
      PROVE OptionsAsAsked'
    BY <1>5 DEF cass_cluster_set_token_aware_routing_shuffle_replicas
<1>6. ASSUME NEW x \in BOOLEAN, cass_cluster_set_latency_aware_routing(x)
      PROVE OptionsAsAsked'
    BY <1>6 DEF cass_cluster_set_latency_aware_routing
<1>7. ASSUME NEW x \in Addresses, cass_cluster_set_latency_aware_routing_settings(x)
      PROVE OptionsAsAsked'
    BY <1>7 DEF cass_cluster_set_latency_aware_routing_settings
<1>8. ASSUME NEW r \in {"default", "fallthrough", Nil}, cass_cluster_set_retry_policy(r)
      PROVE OptionsAsAsked'
    BY <1>8 DEF cass_cluster_set_retry_policy
<1>9. ASSUME NEW cl, cass_cluster_set_consistency(cl)
      PROVE OptionsAsAsked'
    BY <1>9 DEF cass_cluster_set_consistency, Consistency
<1>10. ASSUME NEW cl, cass_cluster_set_serial_consistency(cl)
      PROVE OptionsAsAsked'
    BY <1>10 DEF cass_cluster_set_serial_consistency, SerialConsistency
<1> HIDE Fields DEF OptionsAsAsked, ConnectionFields, RequestFields,
            Coalescing, CoalescingAsked, Checked, Set
<1> QED
    BY <1>1, <1>2, <1>3, <1>4, <1>5, <1>6, <1>7, <1>8, <1>9, <1>10 DEF RequestOptions

LEMMA ThreadsStep ==
    ASSUME OptionsAsAsked, NEW n \in ThreadCounts, cass_cluster_set_num_threads_io(n)
    PROVE OptionsAsAsked'
BY Fields DEF OptionsAsAsked, ConnectionFields, RequestFields, Coalescing, CoalescingAsked,
       Checked, Set, cass_cluster_set_num_threads_io

-----------------------------------------------------------------------------
USE LoadBalancingAssumption

(* The union of lists contains each of them, unless it stands for no limit. *)
LEMMA UnionCovers ==
    ASSUME NEW lists, NEW list \in lists, NEW item \in list
    PROVE nonempty_union(lists) = {} \/ item \in nonempty_union(lists)
BY DEF nonempty_union

(* A list of nothing lifts the limit.                                       *)
LEMMA UnionLifted ==
    ASSUME NEW lists, {} \in lists PROVE nonempty_union(lists) = {}
BY DEF nonempty_union

(* The filter built from some filterings accepts whatever one of them does. *)
LEMMA FilterCovers ==
    ASSUME NEW filterings, NEW f \in filterings, NEW h \in Hosts, is_host_allowed(f, h)
    PROVE is_host_allowed(new_from_lbp_configs(filterings), h)
<1> DEFINE g == new_from_lbp_configs(filterings)
<1>1. g.allowed_dcs = {} \/ DcOf[h] \in g.allowed_dcs
  <2>1. f.allowed_dcs \in {x.allowed_dcs : x \in filterings}
      OBVIOUS
  <2>2. CASE f.allowed_dcs = {}
      BY <2>1, <2>2, UnionLifted, Zenon DEF new_from_lbp_configs
  <2>3. CASE DcOf[h] \in f.allowed_dcs
      BY <2>1, <2>3, UnionCovers, Zenon DEF new_from_lbp_configs
  <2> QED
      BY <2>2, <2>3 DEF is_host_allowed
<1>2. g.whitelist_hosts = {} \/ h \in g.whitelist_hosts
  <2>1. f.whitelist_hosts \in {x.whitelist_hosts : x \in filterings}
      OBVIOUS
  <2>2. CASE f.whitelist_hosts = {}
      BY <2>1, <2>2, UnionLifted, Zenon DEF new_from_lbp_configs
  <2>3. CASE h \in f.whitelist_hosts
      BY <2>1, <2>3, UnionCovers, Zenon DEF new_from_lbp_configs
  <2> QED
      BY <2>2, <2>3 DEF is_host_allowed
<1>3. h \notin g.blacklist_hosts
    BY DEF is_host_allowed, new_from_lbp_configs, nonempty_intersection
<1>4. g.whitelist_dc = {} \/ DcOf[h] \in g.whitelist_dc
  <2>1. f.whitelist_dc \in {x.whitelist_dc : x \in filterings}
      OBVIOUS
  <2>2. CASE f.whitelist_dc = {}
      BY <2>1, <2>2, UnionLifted, Zenon DEF new_from_lbp_configs
  <2>3. CASE DcOf[h] \in f.whitelist_dc
      BY <2>1, <2>3, UnionCovers, Zenon DEF new_from_lbp_configs
  <2> QED
      BY <2>2, <2>3 DEF is_host_allowed
<1>5. DcOf[h] \notin g.blacklist_dc
    BY DEF is_host_allowed, new_from_lbp_configs, nonempty_intersection
<1> QED
    BY <1>1, <1>2, <1>3, <1>4, <1>5 DEF is_host_allowed

(* Building a policy leaves its filtering alone.                            *)
LEMMA BuildKeepsFiltering ==
    ASSUME NEW c \in Config
    PROVE build(c) \in Config /\ build(c).filtering = c.filtering
BY DEF build, Config, LoadBalancingKind, Unset

(* The configurations a connect reads.                                      *)
LEMMA ConfigsTyped == TypeOK => Configs \subseteq Config
BY DEF TypeOK, Configs, OwnPolicies, Owners

(* The filter of a connect is that of the policies it builds.               *)
LEMMA SameFilterings ==
    TypeOK => {c.filtering : c \in {build(d) : d \in Configs}}
                = {c.filtering : c \in Configs}
<1> SUFFICES ASSUME TypeOK
             PROVE {c.filtering : c \in {build(d) : d \in Configs}}
                     = {c.filtering : c \in Configs}
    BY Zenon
<1>1. \A c \in Configs : build(c).filtering = c.filtering
    BY ConfigsTyped, BuildKeepsFiltering
<1> QED
    BY <1>1

(* The filter a connect builds is a filtering.                              *)
LEMMA FilterTyped ==
    ASSUME NEW S, S \subseteq FilteringConfig
    PROVE new_from_lbp_configs(S) \in FilteringConfig
<1>1. \A f \in S : /\ f.whitelist_hosts \subseteq Hosts /\ f.blacklist_hosts \subseteq Hosts
                   /\ f.whitelist_dc \subseteq Dcs /\ f.blacklist_dc \subseteq Dcs
                   /\ f.allowed_dcs \subseteq Dcs
    BY DEF FilteringConfig
<1>2. /\ nonempty_union({f.whitelist_hosts : f \in S}) \subseteq Hosts
      /\ nonempty_union({f.whitelist_dc : f \in S}) \subseteq Dcs
      /\ nonempty_union({f.allowed_dcs : f \in S}) \subseteq Dcs
    BY <1>1 DEF nonempty_union
<1>3. /\ nonempty_intersection({f.blacklist_hosts : f \in S}) \subseteq Hosts
      /\ nonempty_intersection({f.blacklist_dc : f \in S}) \subseteq Dcs
    BY <1>1 DEF nonempty_intersection
<1> QED
    BY <1>2, <1>3 DEF new_from_lbp_configs, FilteringConfig

(* A changed list is still a list.                                          *)
LEMMA UpdateTyped ==
    ASSUME NEW c \in Config, NEW clear \in BOOLEAN, NEW items, NEW field,
           \/ field \in {"whitelist_hosts", "blacklist_hosts"} /\ items \subseteq Hosts
           \/ field \in {"whitelist_dc", "blacklist_dc"} /\ items \subseteq Dcs
    PROVE /\ UpdateList(c, field, clear, items) \in Config
          /\ UpdateList(c, field, clear, items).kind = c.kind
          /\ UpdateList(c, field, clear, items).filtering.allowed_dcs
                = c.filtering.allowed_dcs
<1> DEFINE new == update_comma_delimited_list(c.filtering[field], clear, items)
<1>1. c.filtering \in FilteringConfig /\ c.kind \in LoadBalancingKind \cup {Unset}
    BY DEF Config
<1>2. UpdateList(c, field, clear, items)
        = [kind |-> c.kind, filtering |-> [c.filtering EXCEPT ![field] = new]]
    BY DEF Config, UpdateList
<1>3. [c.filtering EXCEPT ![field] = new] \in FilteringConfig
  <2>1. CASE field \in {"whitelist_hosts", "blacklist_hosts"} /\ items \subseteq Hosts
    <3>1. c.filtering[field] \subseteq Hosts
        BY <1>1, <2>1 DEF FilteringConfig
    <3>2. new \subseteq Hosts
        BY <2>1, <3>1 DEF update_comma_delimited_list
    <3> HIDE DEF new
    <3> QED
        BY <1>1, <2>1, <3>2 DEF FilteringConfig
  <2>2. CASE field \in {"whitelist_dc", "blacklist_dc"} /\ items \subseteq Dcs
    <3>1. c.filtering[field] \subseteq Dcs
        BY <1>1, <2>2 DEF FilteringConfig
    <3>2. new \subseteq Dcs
        BY <2>2, <3>1 DEF update_comma_delimited_list
    <3> HIDE DEF new
    <3> QED
        BY <1>1, <2>2, <3>2 DEF FilteringConfig
  <2> QED
      BY <2>1, <2>2
<1>4. [c.filtering EXCEPT ![field] = new].allowed_dcs = c.filtering.allowed_dcs
    BY <1>1 DEF FilteringConfig
<1> QED
    BY <1>1, <1>2, <1>3, <1>4 DEF Config

(* What a setter must keep for one configuration: its type and the tie       *)
(* between the policy and the restriction.                                  *)
Tied(c) ==
    /\ c \in Config
    /\ c.kind.name = "DcAware" /\ ~c.kind.permit_dc_failover
         => c.filtering.allowed_dcs = {c.kind.local_dc}

(* A setter that leaves a tied configuration keeps the invariant.           *)
LEMMA ConfigureStep ==
    ASSUME LbInv, NEW x \in Owners, NEW c, Tied(c), Configure(x, c)
    PROVE LbInv'
<1> USE DEF LbInv, Configure
<1>1. TypeOK'
    BY DEF TypeOK, Tied
<1>2. RestrictionInv'
    BY DEF TypeOK, RestrictionInv, Tied
<1>3. SnapshotInv'
    BY DEF SnapshotInv, Connected
<1> QED
    BY <1>1, <1>2, <1>3

(* Configurations of reachable states are tied.                             *)
LEMMA OwnersTied == LbInv => \A x \in Owners : Tied(config[x])
<1> SUFFICES ASSUME LbInv, NEW x \in Owners PROVE Tied(config[x])
    OBVIOUS
<1>1. config[x] \in Config
    BY DEF LbInv, TypeOK
<1>2. config[x] # Unset
    BY <1>1 DEF Config, Unset
<1> QED
    BY <1>1, <1>2 DEF LbInv, RestrictionInv, Tied

(* The load balancing invariant holds at first, and every setter and connect *)
(* keeps it.                                                                *)
LEMMA LbBegin == Init => LbInv
<1> SUFFICES ASSUME Init PROVE LbInv
    OBVIOUS
<1>1. Default \in Config /\ Default.kind.name # "DcAware"
    BY DEF Default, Config, FilteringConfig, Unset
<1>2. TypeOK
    BY <1>1 DEF Init, TypeOK, Unconnected
<1>3. RestrictionInv
    BY <1>1 DEF Init, RestrictionInv, Unconnected
<1>4. SnapshotInv
    BY DEF Init, SnapshotInv, Connected
<1> QED
    BY <1>2, <1>3, <1>4 DEF LbInv

LEMMA LbStep ==
    ASSUME LbInv, [Next]_vars
    PROVE LbInv'
<1>1. ASSUME NEW x \in Owners, SetRoundRobin(x) PROVE LbInv'
  <2>1. Tied([config[x] EXCEPT !.kind = [name |-> "RoundRobin"]])
      BY OwnersTied DEF Tied, Config, LoadBalancingKind
  <2> QED
      BY <1>1, <2>1, ConfigureStep DEF SetRoundRobin
<1>2. ASSUME NEW x \in Owners, NEW dc \in Dcs, SetRackAware(x, dc) PROVE LbInv'
  <2>1. Tied([config[x] EXCEPT !.kind = [name |-> "RackAware", local_dc |-> dc]])
      BY OwnersTied DEF Tied, Config, LoadBalancingKind
  <2> QED
      BY <1>2, <2>1, ConfigureStep DEF SetRackAware
<1>3. ASSUME NEW x \in Owners, NEW dc \in Dcs, NEW used \in {0, 1}, NEW allow \in BOOLEAN,
             SetDcAware(x, dc, used, allow)
      PROVE LbInv'
  <2> DEFINE kind == DcAware(dc, used > 0, allow)
             allowed == IF used > 0 THEN {} ELSE {dc}
             new == [kind |-> kind,
                     filtering |-> [config[x].filtering EXCEPT !.allowed_dcs = allowed]]
  <2>1. config[x] \in Config
      BY OwnersTied DEF Tied
  <2>2. kind \in LoadBalancingKind /\ kind.local_dc = dc /\ kind.permit_dc_failover = (used > 0)
      BY DEF DcAware, LoadBalancingKind
  <2>4. /\ [config[x].filtering EXCEPT !.allowed_dcs = allowed] \in FilteringConfig
        /\ [config[x].filtering EXCEPT !.allowed_dcs = allowed].allowed_dcs = allowed
      BY <2>1 DEF Config, FilteringConfig
  <2> HIDE DEF kind, allowed
  <2>5. Tied(new)
      BY <2>2, <2>4, Zenon DEF Tied, Config, allowed
  <2> QED
      BY <1>3, <2>5, ConfigureStep DEF SetDcAware, kind, allowed
<1>4. ASSUME NEW x \in Owners, NEW clear \in BOOLEAN, NEW items, NEW field,
             \/ field \in {"whitelist_hosts", "blacklist_hosts"} /\ items \subseteq Hosts
             \/ field \in {"whitelist_dc", "blacklist_dc"} /\ items \subseteq Dcs,
             Configure(x, UpdateList(config[x], field, clear, items))
      PROVE LbInv'
  <2>1. Tied(config[x])
      BY OwnersTied
  <2>2. Tied(UpdateList(config[x], field, clear, items))
      BY <1>4, <2>1, UpdateTyped DEF Tied
  <2> QED
      BY <1>4, <2>2, ConfigureStep
<1>5. ASSUME NEW p \in Profiles, SetExecutionProfile(p) PROVE LbInv'
  <2>1. TypeOK'
      BY <1>5 DEF SetExecutionProfile, LbInv, TypeOK, Owners
  <2>2. RestrictionInv'
      BY <1>5 DEF SetExecutionProfile, LbInv, TypeOK, RestrictionInv, Owners
  <2>3. SnapshotInv'
      BY <1>5 DEF SetExecutionProfile, LbInv, SnapshotInv, Connected
  <2> QED
      BY <2>1, <2>2, <2>3 DEF LbInv
<1>6. ASSUME Connect PROVE LbInv'
  <2>1. /\ session' = [filter |-> build_host_filter,
                       policies |-> {build(c) : c \in Configs}]
        /\ UNCHANGED <<config, attached, calls>>
      BY <1>6 DEF Connect
  <2>2. Configs \subseteq Config /\ {build(c) : c \in Configs} \subseteq Config
      BY ConfigsTyped, BuildKeepsFiltering DEF LbInv
  <2>3. build_host_filter \in FilteringConfig
    <3>1. {c.filtering : c \in Configs} \subseteq FilteringConfig
        BY <2>2 DEF Config
    <3> QED
        BY <3>1, FilterTyped DEF build_host_filter
  <2>4. TypeOK'
      BY <2>1, <2>2, <2>3 DEF LbInv, TypeOK
  <2>5. RestrictionInv'
    <3>1. \A c \in Configs : c # Unset /\ (c.kind.name = "DcAware" /\ ~c.kind.permit_dc_failover
                                => c.filtering.allowed_dcs = {c.kind.local_dc})
      <4>1. \A c \in Configs : c # Unset
          BY <2>2 DEF Config, Unset
      <4>2. Configs \subseteq {config[x] : x \in Owners} \cup {attached[p] : p \in Profiles}
          BY DEF Configs, OwnPolicies, Owners
      <4> QED
          BY <4>1, <4>2 DEF LbInv, RestrictionInv
    <3>2. \A c \in Configs : build(c).kind.name = "DcAware" => build(c) = c
        BY <2>2 DEF build, Config
    <3>3. \A c \in {build(d) : d \in Configs} :
             c.kind.name = "DcAware" /\ ~c.kind.permit_dc_failover
               => c.filtering.allowed_dcs = {c.kind.local_dc}
        BY <3>1, <3>2
    <3> QED
        BY <2>1, <3>3 DEF LbInv, RestrictionInv
  <2>6. SnapshotInv'
    <3>1. new_from_lbp_configs({c.filtering : c \in {build(d) : d \in Configs}})
            = build_host_filter
        BY SameFilterings, Zenon DEF LbInv, build_host_filter
    <3> QED
        BY <2>1, <3>1 DEF SnapshotInv
  <2> QED
      BY <2>4, <2>5, <2>6 DEF LbInv
<1>7. CASE UNCHANGED vars
    BY <1>7 DEF vars, LbInv, TypeOK, RestrictionInv, SnapshotInv, Connected
<1>8. ASSUME NEW clear \in BOOLEAN, NEW items, NEW field,
             \/ field \in {"whitelist_hosts", "blacklist_hosts"} /\ items \subseteq Hosts
             \/ field \in {"whitelist_dc", "blacklist_dc"} /\ items \subseteq Dcs,
             \/ SetClusterList(field, clear, items)
             \/ \E p \in Profiles : SetProfileList(p, field, clear, items)
      PROVE LbInv'
    BY <1>4, <1>8 DEF SetClusterList, SetProfileList, Owners
<1>9. ASSUME NEW clear \in BOOLEAN, NEW h \in Hosts,
             NEW f \in {"whitelist_hosts", "blacklist_hosts"},
             \/ SetClusterList(f, clear, {h})
             \/ \E p \in Profiles : SetProfileList(p, f, clear, {h})
      PROVE LbInv'
    BY <1>8, <1>9, Zenon
<1>10. ASSUME NEW clear \in BOOLEAN, NEW dc \in Dcs,
              NEW f \in {"whitelist_dc", "blacklist_dc"},
              \/ SetClusterList(f, clear, {dc})
              \/ \E p \in Profiles : SetProfileList(p, f, clear, {dc})
       PROVE LbInv'
    BY <1>8, <1>10, Zenon
<1> QED
    BY <1>1, <1>2, <1>3, <1>5, <1>6, <1>7, <1>9, <1>10, Zenon DEF Next, Setters

(* The host filter hides no host that a policy of the session uses.         *)
LEMMA FilterIsSound == LbInv => FilterSound
<1> SUFFICES ASSUME LbInv, Connected, NEW policy \in session.policies,
                    NEW cl \in Consistencies, NEW h \in Plan(policy, cl)
             PROVE is_host_allowed(session.filter, h)
    BY DEF FilterSound
<1>1. h \in Hosts /\ is_host_allowed(policy.filtering, h)
    BY DEF Plan
<1>2. policy.filtering \in {c.filtering : c \in session.policies}
    OBVIOUS
<1>3. is_host_allowed(new_from_lbp_configs({c.filtering : c \in session.policies}), h)
    BY <1>1, <1>2, FilterCovers
<1> QED
    BY <1>3 DEF LbInv, SnapshotInv

(* The union and the intersection of one list are that list.                *)
LEMMA OneList ==
    ASSUME NEW list
    PROVE nonempty_union({list}) = list /\ nonempty_intersection({list}) = list
BY DEF nonempty_union, nonempty_intersection

(* The filter of a single policy is the policy's own.                       *)
LEMMA FilterIsExact == LbInv => FilterExact
<1> SUFFICES ASSUME LbInv, Connected, NEW policy \in session.policies,
                    session.policies = {policy}, NEW h \in Hosts,
                    is_host_allowed(session.filter, h)
             PROVE is_host_allowed(policy.filtering, h)
    BY DEF FilterExact
<1> DEFINE f == policy.filtering
<1>1. f \in FilteringConfig
    BY DEF LbInv, TypeOK, Config
<1>2. {c.filtering : c \in session.policies} = {f}
    OBVIOUS
<1>3. session.filter = new_from_lbp_configs({f})
    BY <1>2 DEF LbInv, SnapshotInv
<1> HIDE DEF f
<1>4. /\ {x.whitelist_hosts : x \in {f}} = {f.whitelist_hosts}
      /\ {x.blacklist_hosts : x \in {f}} = {f.blacklist_hosts}
      /\ {x.whitelist_dc : x \in {f}} = {f.whitelist_dc}
      /\ {x.blacklist_dc : x \in {f}} = {f.blacklist_dc}
      /\ {x.allowed_dcs : x \in {f}} = {f.allowed_dcs}
    OBVIOUS
<1>5. new_from_lbp_configs({f}) =
        [whitelist_hosts |-> f.whitelist_hosts, blacklist_hosts |-> f.blacklist_hosts,
         whitelist_dc |-> f.whitelist_dc, blacklist_dc |-> f.blacklist_dc,
         allowed_dcs |-> f.allowed_dcs]
    BY <1>4, OneList, Zenon DEF new_from_lbp_configs
<1>6. is_host_allowed(f, h)
    BY <1>3, <1>5 DEF is_host_allowed
<1> QED
    BY <1>6 DEF f

(* A DC-aware policy keeps its requests in its datacenter when it must.     *)
LEMMA DcAwareIsLocal == LbInv => StaysLocal
<1> SUFFICES ASSUME LbInv, Connected, NEW policy \in session.policies,
                    NEW cl \in Consistencies, policy.kind.name = "DcAware",
                    \/ ~policy.kind.permit_dc_failover
                    \/ ~policy.kind.allow_remote_dcs_for_local_cl
                          /\ cl \in LocalConsistencies,
                    NEW h \in Plan(policy, cl)
             PROVE DcOf[h] = policy.kind.local_dc
    BY DEF StaysLocal
<1>1. CASE ~policy.kind.permit_dc_failover
  <2>1. policy # Unset
      BY DEF LbInv, TypeOK, Config, Unset
  <2>2. policy.filtering.allowed_dcs = {policy.kind.local_dc}
      BY <1>1, <2>1 DEF LbInv, RestrictionInv
  <2> QED
      BY <2>2 DEF Plan, is_host_allowed
<1>2. CASE ~policy.kind.allow_remote_dcs_for_local_cl /\ cl \in LocalConsistencies
    BY <1>2 DEF Plan, is_dc_allowed
<1> QED
    BY <1>1, <1>2

-----------------------------------------------------------------------------
(* What is copied is what was asked, also for the fields that are combined. *)
LEMMA BuiltAsAsked == OptionsAsAsked => Built(build_session_builder(cluster), asked)
<1> SUFFICES ASSUME OptionsAsAsked PROVE Built(build_session_builder(cluster), asked)
    BY Zenon
<1>0. PICK b : b = build_session_builder(cluster)
    BY Zenon
<1>1. /\ b.config = cluster /\ b.coalescing = Coalescing(cluster)
      /\ b.known_nodes = {<<p, cluster.port>> : p \in cluster.contact_points}
      /\ b.user = IF cluster.auth_username # Nil /\ cluster.auth_password # Nil
                  THEN [user |-> cluster.auth_username, password |-> cluster.auth_password]
                  ELSE Nil
      /\ b.shuffling = (cluster.token_awareness_enabled
                          /\ cluster.token_aware_shuffling_replicas_enabled)
      /\ b.latency = IF cluster.latency_awareness_enabled
                     THEN {cluster.latency_awareness_builder} ELSE {}
    BY <1>0, SMTT(20) DEF build_session_builder
<1>2. ConnectionFields(b.config, asked) /\ RequestFields(b.config, asked)
    BY <1>1 DEF OptionsAsAsked
<1>3. /\ cluster.contact_points = asked.contact_points /\ cluster.port = asked.port
      /\ b.user = asked.credentials
    BY <1>1 DEF OptionsAsAsked, ConnectionFields
<1>4. /\ b.shuffling = (asked.token_aware /\ asked.shuffle_replicas)
      /\ b.latency = IF asked.latency THEN {asked.latency_settings} ELSE {}
    BY <1>1 DEF OptionsAsAsked, RequestFields
<1>5. Built(b, asked)
    BY <1>1, <1>2, <1>3, <1>4 DEF Built, OptionsAsAsked
<1> QED
    BY <1>0, <1>5, Zenon

(* What was copied stays, as do the runtimes of the calls that copied it.   *)
LEMMA CapturedKept ==
    ASSUME ClusterInv, captured' = captured,
           \A p \in Ops : ops[p] # Nil =>
               ops'[p] # Nil /\ threads'[ops'[p].runtime] = threads[ops[p].runtime]
    PROVE /\ (DOMAIN captured = Ops)'
          /\ (\A o \in Ops : captured[o] # Nil => ops[o] # Nil)'
          /\ ConnectionAsAsked'
BY DEF ClusterInv, ConnectionAsAsked

(* A connect call captures the options and the runtime as they were asked.  *)
LEMMA CaptureStep ==
    ASSUME ClusterInv, NEW o \in Ops, NEW s \in Sessions, cass_session_connect(o, s)
    PROVE ClusterInv'
<1> DEFINE n == cluster.num_threads_io
           new == [builder |-> build_session_builder(cluster), asked |-> asked]
<1>1. /\ Connect /\ connect(o, s, n) /\ captured' = [captured EXCEPT ![o] = new]
      /\ cluster' = cluster /\ asked' = asked
    BY DEF cass_session_connect
<1>2. n \in ThreadCounts /\ n = asked.threads
    BY DEF ClusterInv, OptionsAsAsked
<1>3. new.builder = build_session_builder(cluster) /\ new.asked = asked
    OBVIOUS
<1> HIDE DEF n, new
<1>4. Built(new.builder, new.asked)
    BY <1>3, BuiltAsAsked DEF ClusterInv
<1>5. LbInv'
    BY <1>1, LbStep DEF ClusterInv, Next
<1>6. RuntimesInv'
    BY <1>1, <1>2, ConnectStep DEF ClusterInv
<1>7. OptionsAsAsked'
    BY <1>1 DEF ClusterInv, OptionsAsAsked
<1>8. \A p \in Ops :
         /\ ops[o] = Nil /\ ops'[o] # Nil /\ threads'[ops'[o].runtime] = n
         /\ ops[p] # Nil => /\ ops'[p] = ops[p]
                            /\ threads'[ops'[p].runtime] = threads[ops[p].runtime]
    BY <1>1, <1>2, ConnectKeeps DEF ClusterInv
<1>9. (DOMAIN captured = Ops)' /\ (\A p \in Ops : captured[p] # Nil => ops[p] # Nil)'
    BY <1>1, <1>8 DEF ClusterInv
<1>10. ConnectionAsAsked'
    BY <1>1, <1>2, <1>3, <1>4, <1>8 DEF ClusterInv, ConnectionAsAsked
<1> QED
    BY <1>5, <1>6, <1>7, <1>9, <1>10 DEF ClusterInv

(* The invariant of the cluster, its load balancing and its runtimes, for    *)
(* any hosts, profiles, sessions, thread counts and sequence of calls.       *)
THEOREM ClusterInvariant == ClusterSpec => []ClusterInv
<1>1. ClusterInit => ClusterInv
  <2> SUFFICES ASSUME ClusterInit PROVE ClusterInv
      OBVIOUS
  <2>1. LbInv /\ RuntimesInv
      BY LbBegin, RuntimesBegin DEF ClusterInit
  <2>2. OptionsAsAsked
    <3>1. cluster = cass_cluster_new /\ asked = AskedFirst
        BY Zenon DEF ClusterInit
    <3> QED
        BY <3>1, DefaultsAsAsked DEF OptionsAsAsked
  <2>3. DOMAIN captured = Ops /\ \A o \in Ops : captured[o] = Nil
      BY DEF ClusterInit
  <2> QED
      BY <2>1, <2>2, <2>3 DEF ClusterInv, ConnectionAsAsked
<1>2. ClusterInv /\ [ClusterNext]_allVars => ClusterInv'
  <2> SUFFICES ASSUME ClusterInv, [ClusterNext]_allVars PROVE ClusterInv'
      OBVIOUS
  <2>0. \A p \in Ops : UNCHANGED <<ops, threads>> /\ ops[p] # Nil =>
               ops'[p] # Nil /\ threads'[ops'[p].runtime] = threads[ops[p].runtime]
      OBVIOUS
  <2>1. CASE OptionNext
    <3>1. UNCHANGED vars /\ UNCHANGED runtimeVars /\ UNCHANGED <<ops, threads>>
          /\ captured' = captured
        BY <2>1 DEF OptionNext, vars, runtimeVars
    <3>2. LbInv' /\ RuntimesInv'
        BY <3>1, LbStep, RuntimesStep DEF ClusterInv
    <3>3. OptionsAsAsked'
        BY <2>1, ConnectionOptionsStep, RequestOptionsStep DEF ClusterInv, OptionNext
    <3> QED
        BY <2>0, <3>1, <3>2, <3>3, CapturedKept DEF ClusterInv
  <2>2. CASE Setters /\ UNCHANGED <<cache, threads, owners, connected, ops, cluster, asked,
                                    captured, options, steps>>
    <3>1. LbInv' /\ RuntimesInv'
        BY <2>2, LbStep, RuntimesStep DEF ClusterInv, Next, runtimeVars
    <3>2. OptionsAsAsked'
        BY <2>2 DEF ClusterInv, OptionsAsAsked
    <3> QED
        BY <2>0, <2>2, <3>1, <3>2, CapturedKept DEF ClusterInv
  <2>3. CASE \E o \in Ops, s \in Sessions : cass_session_connect(o, s)
      BY <2>3, CaptureStep
  <2>4. CASE /\ \E n \in ThreadCounts \ {Nil} : cass_cluster_set_num_threads_io(n)
             /\ UNCHANGED <<config, attached, session, calls, cache, threads, owners,
                            connected, ops, captured, options>>
    <3>1. LbInv' /\ RuntimesInv'
        BY <2>4, LbStep, RuntimesStep DEF ClusterInv, vars, runtimeVars
    <3>2. OptionsAsAsked'
        BY <2>4, ThreadsStep DEF ClusterInv
    <3> QED
        BY <2>0, <2>4, <3>1, <3>2, CapturedKept DEF ClusterInv
  <2>5. CASE /\ RuntimesNext
             /\ UNCHANGED <<config, attached, session, calls, cluster, asked, captured, options>>
    <3>1. LbInv' /\ RuntimesInv'
        BY <2>5, LbStep, RuntimesStep DEF ClusterInv, vars
    <3>2. OptionsAsAsked'
        BY <2>5 DEF ClusterInv, OptionsAsAsked
    <3>3. \A p \in Ops : ops[p] # Nil =>
             ops'[p] # Nil /\ threads'[ops'[p].runtime] = threads[ops[p].runtime]
        BY <2>5, RuntimesKeep DEF ClusterInv
    <3> QED
        BY <2>5, <3>1, <3>2, <3>3, CapturedKept DEF ClusterInv
  <2>6. CASE UNCHANGED allVars
    <3>1. LbInv' /\ RuntimesInv'
        BY <2>6, LbStep, RuntimesStep DEF ClusterInv, allVars, vars, runtimeVars
    <3>2. OptionsAsAsked'
        BY <2>6 DEF ClusterInv, OptionsAsAsked, allVars
    <3> QED
        BY <2>0, <2>6, <3>1, <3>2, CapturedKept DEF ClusterInv, allVars
  <2> QED
      BY <2>1, <2>2, <2>3, <2>4, <2>5, <2>6 DEF ClusterNext
<1> QED
    BY <1>1, <1>2, PTL DEF ClusterSpec

(* The host filter of a session never hides a host that one of its policies  *)
(* may send a request to (load_balancing.rs, FilteringInfo).                 *)
THEOREM HostFilterSound == ClusterSpec => []FilterSound
<1>1. ClusterInv => FilterSound
    BY FilterIsSound DEF ClusterInv
<1> QED
    BY <1>1, ClusterInvariant, PTL

(* With one policy, connections are opened only to hosts it accepts.         *)
THEOREM HostFilterExact == ClusterSpec => []FilterExact
<1>1. ClusterInv => FilterExact
    BY FilterIsExact DEF ClusterInv
<1> QED
    BY <1>1, ClusterInvariant, PTL

(* A DC-aware policy that must stay in its datacenter does, whatever was     *)
(* configured before it (load_balancing.rs, is_dc_allowed).                  *)
THEOREM DcAwareStaysLocal == ClusterSpec => []StaysLocal
<1>1. ClusterInv => StaysLocal
    BY DcAwareIsLocal DEF ClusterInv
<1> QED
    BY <1>1, ClusterInvariant, PTL

(* Whatever lives at the same time with the same thread count shares one     *)
(* runtime (runtime.rs, cached_or_new_runtime).                              *)
THEOREM RuntimesShared == ClusterSpec => []OneRuntimePerCount
<1>1. ClusterInv => OneRuntimePerCount
    BY OneRuntime DEF ClusterInv
<1> QED
    BY <1>1, ClusterInvariant, PTL

(* No task is cut off by the shutdown of its runtime (runtime.rs, drop).     *)
THEOREM TasksFinish == ClusterSpec => []TaskNeverCancelled
<1>1. ClusterInv => TaskNeverCancelled
    BY DEF ClusterInv, RuntimesInv
<1> QED
    BY <1>1, ClusterInvariant, PTL

(* A connect call hands its session the last valid request for every option  *)
(* (cluster.rs, the setters and build_session_builder).                      *)
THEOREM SessionsBuiltAsAsked == ClusterSpec => []ConnectionAsAsked
<1>1. ClusterInv => ConnectionAsAsked
    BY DEF ClusterInv
<1> QED
    BY <1>1, ClusterInvariant, PTL
=============================================================================
