----------------------------- MODULE MCReactor ------------------------------
(* Instances of Reactor for TLC: a client that pipelines three requests in *)
(* fragments and may hang up at any time, and two clients that wait for    *)
(* each reply.                                                             *)
EXTENDS Reactor

CONSTANTS c1, c2

Pipelining == [conns |-> {c1}, impatient |-> {c1}, requests |-> 3, window |-> 3,
               fragments |-> 2]
Waiting == [conns |-> {c1, c2}, impatient |-> {}, requests |-> 2, window |-> 1,
            fragments |-> 1]
MCLoads == {Pipelining, Waiting}
=============================================================================
