------------------------------- MODULE MCRdb --------------------------------
(* Instance of Rdb for TLC, without symmetry since it checks liveness. *)
EXTENDS Rdb
=============================================================================
