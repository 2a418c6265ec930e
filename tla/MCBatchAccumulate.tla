--------------------------- MODULE MCBatchAccumulate ---------------------------
(* Small instances of BatchAccumulate for TLC. *)
EXTENDS BatchAccumulate

CONSTANT k1
================================================================================
