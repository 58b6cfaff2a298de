--------------------------- MODULE MCResultMetadata ---------------------------
(* A small instance of ResultMetadata for TLC.                              *)
EXTENDS ResultMetadata
=============================================================================
