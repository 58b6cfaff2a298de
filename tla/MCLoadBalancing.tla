--------------------------- MODULE MCLoadBalancing ---------------------------
(* Small instances of LoadBalancing for TLC: one host in each of two        *)
(* datacenters, and a host whose datacenter is unknown.                     *)
EXTENDS LoadBalancing, TLC

CONSTANTS h1, h2, h3, d1, d2

MCHosts == {h1, h2, h3}
MCDcs == {d1, d2}
MCDcOf == h1 :> d1 @@ h2 :> d2 @@ h3 :> NoDc
=============================================================================
