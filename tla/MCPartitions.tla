---------------------------- MODULE MCPartitions ----------------------------
(* Small instances of Partitions for TLC. *)
EXTENDS Partitions
=============================================================================
