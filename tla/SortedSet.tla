------------------------------ MODULE SortedSet -----------------------------
(***************************************************************************)
(* What a sorted set promises: a set of members, each with a score, that   *)
(* commands change one member at a time; only a rewrite of the log touches *)
(* several.                                                                *)
(***************************************************************************)
EXTENDS Integers

CONSTANTS Members, Scores

VARIABLE scores     \* function from the members present to their scores

Init == scores = [m \in {} |-> 0]

Insert(m, s) ==
    /\ m \notin DOMAIN scores
    /\ scores' = [k \in DOMAIN scores \cup {m} |-> IF k = m THEN s ELSE scores[k]]

Remove(m) ==
    /\ m \in DOMAIN scores
    /\ scores' = [k \in DOMAIN scores \ {m} |-> scores[k]]

Change(m, s) ==
    /\ m \in DOMAIN scores
    /\ scores' = [scores EXCEPT ![m] = s]

\* A rewrite of the log: scores lose their signs.
Unsign == scores' = [m \in DOMAIN scores |-> IF scores[m] < 0 THEN -scores[m] ELSE scores[m]]

Next ==
    \/ \E m \in Members : Remove(m) \/ \E s \in Scores : Insert(m, s) \/ Change(m, s)
    \/ Unsign

Spec == Init /\ [][Next]_scores
=============================================================================
