---------------------------- MODULE MCCassSession ----------------------------
(* Small instances of CassSession for TLC.                                  *)
EXTENDS CassSession, TLC

Symmetry == Permutations(Ops)
=============================================================================
