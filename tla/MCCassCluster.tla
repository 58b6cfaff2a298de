---------------------------- MODULE MCCassCluster ----------------------------
(* The cluster, its load balancing and its runtimes for TLC.  Long          *)
(* sequences of load balancing calls, of option calls and of connects,      *)
(* closes and requests are each explored on their own, and shorter ones     *)
(* together.                                                                *)
EXTENDS CassCluster, MCLoadBalancing

MCBudgets ==
    {[calls |-> 4, options |-> 0, steps |-> 1], [calls |-> 0, options |-> 2, steps |-> 1],
     [calls |-> 1, options |-> 1, steps |-> 2], [calls |-> 0, options |-> 0, steps |-> 9]}

SessionSymmetry == Permutations(Sessions)
=============================================================================
