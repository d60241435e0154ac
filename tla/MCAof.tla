------------------------------- MODULE MCAof --------------------------------
(* Instances of Aof for TLC: kills without SELECT or REWRITE, and both     *)
(* without kills.                                                          *)
EXTENDS Aof

Killed == [selects |-> 0, rewrites |-> 0, crashes |-> 2]
Rewritten == [selects |-> 1, rewrites |-> 1, crashes |-> 0]
MCPlans == {Killed, Rewritten}
OneRewrite == {[selects |-> 0, rewrites |-> 1, crashes |-> 0]}
=============================================================================
