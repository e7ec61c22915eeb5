---------------------------- MODULE MCWakVector ----------------------------
(* Instances of WakVector for TLC. *)
EXTENDS WakVector

MCTypeSizes == 1..3
MCCounts == 1..2
=============================================================================
