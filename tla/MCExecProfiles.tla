--------------------------- MODULE MCExecProfiles ---------------------------
(* Small instances of ExecProfiles for TLC.                                 *)
EXTENDS ExecProfiles, TLC

Symmetry == Permutations(Sessions) \cup Permutations(Execs)
=============================================================================
