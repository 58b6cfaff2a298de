--------------------------- MODULE MCCassFuture ---------------------------
(* Small instances of CassFuture for TLC.                                   *)
EXTENDS CassFuture, TLC

Symmetry == Permutations(Threads)
=============================================================================
