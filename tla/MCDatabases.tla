---------------------------- MODULE MCDatabases ----------------------------
(* Instances of Databases for TLC.  Clients are interchangeable.           *)
EXTENDS Databases, TLC

Symmetry == Permutations(Clients)
=============================================================================
