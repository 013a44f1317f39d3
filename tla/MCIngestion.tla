----------------------------- MODULE MCIngestion -----------------------------
(***************************************************************************)
(* Instances of Ingestion for TLC, bounded by MaxMessages and MaxFaults.   *)
(***************************************************************************)
EXTENDS Ingestion

=============================================================================
