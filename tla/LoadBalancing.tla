---------------------------- MODULE LoadBalancing ----------------------------
(***************************************************************************)
(* Which hosts the driver may contact (load_balancing.rs and the setters   *)
(* in cluster.rs and exec_profile.rs).  The application edits the load     *)
(* balancing configuration of the cluster and of its execution profiles in *)
(* any order; a connect turns them into one filtering policy each, and     *)
(* into one host filter that decides which connections are opened at all.  *)
(* A list is the set of its elements; an empty set stands for "no list",   *)
(* which is how the code reads an empty one.                               *)
(***************************************************************************)
EXTENDS Naturals

CONSTANTS Hosts, Dcs,
          NoDc,        \* the datacenter of a host that has none
          DcOf,        \* the datacenter of each host
          Cluster, Profiles,
          MaxCalls     \* setter calls in a behaviour

ASSUME LoadBalancingAssumption ==
    /\ NoDc \notin Dcs
    /\ DcOf \in [Hosts -> Dcs \cup {NoDc}]
    /\ Cluster \notin Profiles
    /\ MaxCalls \in Nat

VARIABLES config,   \* LoadBalancingConfig of the cluster and of each profile
          attached, \* the profiles copied into the cluster, by name
          session,  \* what the last connect built: filter and policies
          calls

vars == <<config, attached, session, calls>>

Owners == {Cluster} \cup Profiles

LoadBalancingKind ==
    [name : {"RoundRobin"}]
        \cup [name : {"RackAware"}, local_dc : Dcs]
        \cup [name : {"DcAware"}, local_dc : Dcs, permit_dc_failover : BOOLEAN,
              allow_remote_dcs_for_local_cl : BOOLEAN]

Unset == [name |-> "Unset"]

FilteringConfig ==
    [whitelist_hosts : SUBSET Hosts, blacklist_hosts : SUBSET Hosts,
     whitelist_dc : SUBSET Dcs, blacklist_dc : SUBSET Dcs,
     allowed_dcs : SUBSET Dcs]            \* dc_restriction: {} or {local_dc}

Config == [kind : LoadBalancingKind \cup {Unset}, filtering : FilteringConfig]

Unconnected == [filter |-> Unset, policies |-> {}]

TypeOK ==
    /\ config \in [Owners -> Config]
    /\ attached \in [Profiles -> Config \cup {Unset}]
    /\ session \in [filter : FilteringConfig \cup {Unset}, policies : SUBSET Config]
    /\ calls \in 0 .. MaxCalls

Default ==
    [kind |-> Unset,
     filtering |-> [whitelist_hosts |-> {}, blacklist_hosts |-> {},
                    whitelist_dc |-> {}, blacklist_dc |-> {}, allowed_dcs |-> {}]]

Init ==
    /\ config = [x \in Owners |-> Default]
    /\ attached = [p \in Profiles |-> Unset]
    /\ session = Unconnected
    /\ calls = 0

-----------------------------------------------------------------------------
(* The setters.  A null, empty or malformed datacenter is refused and       *)
(* changes nothing.                                                         *)
Configure(x, c) ==
    /\ calls < MaxCalls
    /\ calls' = calls + 1
    /\ config' = [config EXCEPT ![x] = c]
    /\ UNCHANGED <<attached, session>>

SetRoundRobin(x) == Configure(x, [config[x] EXCEPT !.kind = [name |-> "RoundRobin"]])

DcAware(dc, failover, allow) ==
    [name |-> "DcAware", local_dc |-> dc, permit_dc_failover |-> failover,
     allow_remote_dcs_for_local_cl |-> allow]

BugKeepRestriction(x, dc, used, allow) ==  \* the restriction is not updated
    Configure(x, [config[x] EXCEPT !.kind = DcAware(dc, used > 0, allow)])

SetDcAware(x, dc, used, allow) ==
    Configure(x, [kind |-> DcAware(dc, used > 0, allow),
                  filtering |-> [config[x].filtering EXCEPT
                                   !.allowed_dcs = IF used > 0 THEN {} ELSE {dc}]])

SetRackAware(x, dc) ==
    Configure(x, [config[x] EXCEPT !.kind = [name |-> "RackAware", local_dc |-> dc]])

(* A null or empty string clears the list, any other appends what parses.   *)
update_comma_delimited_list(list, clear, items) ==
    IF clear THEN {} ELSE list \cup items

UpdateList(c, field, clear, items) ==
    [c EXCEPT !.filtering[field] = update_comma_delimited_list(@, clear, items)]

SetClusterList(field, clear, items) ==
    Configure(Cluster, UpdateList(config[Cluster], field, clear, items))

SetProfileList(p, field, clear, items) ==
    Configure(p, UpdateList(config[p], field, clear, items))

(* cass_cluster_set_execution_profile: the cluster keeps a copy.            *)
SetExecutionProfile(p) ==
    /\ calls < MaxCalls
    /\ calls' = calls + 1
    /\ attached' = [attached EXCEPT ![p] = config[p]]
    /\ UNCHANGED <<config, session>>

-----------------------------------------------------------------------------
(* Connecting.                                                              *)
BugUnion(lists) == UNION lists         \* "no list" does not mean "no limit"

(* "If at least one set is empty", the union limits nothing.                *)
nonempty_union(lists) == IF {} \in lists THEN {} ELSE UNION lists

nonempty_intersection(lists) ==
    {item \in UNION lists : \A list \in lists : item \in list}

(* new_from_lbp_configs_inner; the fold over the dc restrictions is the     *)
(* union too: one unrestricted policy lifts the restriction.                *)
new_from_lbp_configs(filterings) ==
    [whitelist_hosts |-> nonempty_union({f.whitelist_hosts : f \in filterings}),
     blacklist_hosts |-> nonempty_intersection({f.blacklist_hosts : f \in filterings}),
     whitelist_dc |-> nonempty_union({f.whitelist_dc : f \in filterings}),
     blacklist_dc |-> nonempty_intersection({f.blacklist_dc : f \in filterings}),
     allowed_dcs |-> nonempty_union({f.allowed_dcs : f \in filterings})]

(* The profiles that have a base policy of their own; the others use the    *)
(* cluster's, and their lists are ignored.                                  *)
OwnPolicies == {attached[p] : p \in {q \in Profiles : /\ attached[q] # Unset
                                                     /\ attached[q].kind # Unset}}

Configs == {config[Cluster]} \cup OwnPolicies

BugProfilesOnly == new_from_lbp_configs({c.filtering : c \in OwnPolicies})

build_host_filter == new_from_lbp_configs({c.filtering : c \in Configs})

(* LoadBalancingConfig::build: a policy without a kind is round robin.      *)
build(c) == IF c.kind = Unset THEN [c EXCEPT !.kind = [name |-> "RoundRobin"]] ELSE c

Connect ==
    /\ session' = [filter |-> build_host_filter,
                   policies |-> {build(c) : c \in Configs}]
    /\ UNCHANGED <<config, attached, calls>>

-----------------------------------------------------------------------------
(* FilteringInfo::is_host_allowed.                                          *)
is_host_allowed(f, h) ==
    /\ f.allowed_dcs = {} \/ DcOf[h] \in f.allowed_dcs
    /\ f.whitelist_hosts = {} \/ h \in f.whitelist_hosts
    /\ h \notin f.blacklist_hosts
    /\ f.whitelist_dc = {} \/ DcOf[h] \in f.whitelist_dc
    /\ DcOf[h] \notin f.blacklist_dc

LocalConsistencies == {"LocalQuorum", "LocalOne", "LocalSerial"}
Consistencies == LocalConsistencies \cup
    {"Any", "One", "Two", "Three", "Quorum", "All", "EachQuorum", "Serial"}

BugLocalOneIsRemote(policy, h, cl) ==   \* LocalOne is not taken for local
    \/ policy.kind.name # "DcAware"
    \/ policy.kind.allow_remote_dcs_for_local_cl
    \/ cl \notin {"LocalQuorum", "LocalSerial"}
    \/ DcOf[h] = policy.kind.local_dc

(* DcLocalConsistencyAllowance::is_dc_allowed.                              *)
is_dc_allowed(policy, h, cl) ==
    \/ policy.kind.name # "DcAware"
    \/ policy.kind.allow_remote_dcs_for_local_cl
    \/ cl \notin LocalConsistencies
    \/ DcOf[h] = policy.kind.local_dc

(* pick and fallback: what is left of the child policy's plan.              *)
Plan(policy, cl) ==
    {h \in Hosts : is_host_allowed(policy.filtering, h) /\ is_dc_allowed(policy, h, cl)}

Setters ==
    \/ \E x \in Owners :
          \/ SetRoundRobin(x)
          \/ \E dc \in Dcs :
                \/ SetRackAware(x, dc)
                \/ \E used \in {0, 1}, allow \in BOOLEAN : SetDcAware(x, dc, used, allow)
    \/ \E clear \in BOOLEAN :
          \/ \E h \in Hosts, f \in {"whitelist_hosts", "blacklist_hosts"} :
                \/ SetClusterList(f, clear, {h})
                \/ \E p \in Profiles : SetProfileList(p, f, clear, {h})
          \/ \E dc \in Dcs, f \in {"whitelist_dc", "blacklist_dc"} :
                \/ SetClusterList(f, clear, {dc})
                \/ \E p \in Profiles : SetProfileList(p, f, clear, {dc})
    \/ \E p \in Profiles : SetExecutionProfile(p)

Next == Setters \/ Connect

Spec == Init /\ [][Next]_vars

-----------------------------------------------------------------------------
Connected == session # Unconnected

(* The host filter never closes a host that some policy of the session would *)
(* send a request to: no profile is starved by the connections of others.    *)
FilterSound ==
    Connected =>
        \A policy \in session.policies, cl \in Consistencies :
            \A h \in Plan(policy, cl) : is_host_allowed(session.filter, h)

(* When no profile brings a policy of its own, connections are opened to     *)
(* exactly the hosts the only policy accepts.                                *)
FilterExact ==
    Connected =>
        \A policy \in session.policies :
            session.policies = {policy} =>
                \A h \in Hosts : is_host_allowed(session.filter, h)
                                    => is_host_allowed(policy.filtering, h)

(* A DC-aware policy that may not use remote hosts, or whose request has a   *)
(* local consistency level it keeps at home, never leaves its datacenter,    *)
(* whatever was configured before.                                           *)
StaysLocal ==
    Connected =>
        \A policy \in session.policies, cl \in Consistencies :
            /\ policy.kind.name = "DcAware"
            /\ \/ ~policy.kind.permit_dc_failover
               \/ ~policy.kind.allow_remote_dcs_for_local_cl /\ cl \in LocalConsistencies
            => \A h \in Plan(policy, cl) : DcOf[h] = policy.kind.local_dc

(* cassandra.h, round robin: "The driver discovers all nodes in a cluster    *)
(* and cycles through them per request."                                     *)
RoundRobinReachesAll ==
    Connected =>
        \A policy \in session.policies, cl \in Consistencies :
            /\ policy.kind.name = "RoundRobin"
            /\ \A f \in {"whitelist_hosts", "blacklist_hosts", "whitelist_dc",
                         "blacklist_dc"} : policy.filtering[f] = {}
            => Plan(policy, cl) = Hosts

(* The filter of a session is the one its own policies give.                 *)
SnapshotInv ==
    Connected =>
        session.filter = new_from_lbp_configs({c.filtering : c \in session.policies})

(* What ties the two fields a DC-aware setter writes.                        *)
RestrictionInv ==
    \A c \in {config[x] : x \in Owners} \cup {attached[p] : p \in Profiles}
                \cup session.policies :
        c # Unset /\ c.kind.name = "DcAware" /\ ~c.kind.permit_dc_failover
            => c.filtering.allowed_dcs = {c.kind.local_dc}

(* The inductive invariant behind FilterSound and StaysLocal.                *)
LbInv == TypeOK /\ RestrictionInv /\ SnapshotInv

=============================================================================
