----------------------------- MODULE MCKeyspace -----------------------------
(* Instances of Keyspace for TLC, without symmetry since they check liveness. *)
EXTENDS Keyspace
=============================================================================
