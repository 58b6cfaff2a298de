------------------------------ MODULE MCUuidGen ------------------------------
(* Small instances of UuidGen for TLC.                                      *)
EXTENDS UuidGen, TLC

Symmetry == Permutations(Threads)
=============================================================================
