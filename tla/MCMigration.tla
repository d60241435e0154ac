---------------------------- MODULE MCMigration -----------------------------
(* Instance of Migration for TLC: two servers with two databases.  Database *)
(* 1 of s1 has two entries, whose replies do not fit into the socket        *)
(* together with that of the SELECT; s2 has no database 1 at first.         *)
EXTENDS Migration

CONSTANTS s1, s2, k0, k1, k2, p1, p2

MCServers == {s1, s2}
MCNumbers == {0, 1}
MCKeys == [n \in MCNumbers |-> IF n = 0 THEN {k0} ELSE {k1, k2}]
MCLayouts == {[s \in MCServers |-> [n \in MCNumbers |->
                 IF s = s1 /\ n = 1 THEN {k1, k2} ELSE IF s = s2 /\ n = 0 THEN {k0} ELSE {}]]}
MCPasswords == {[s \in MCServers |-> p1],
                [s \in MCServers |-> IF s = s1 THEN p1 ELSE p2]}
=============================================================================
