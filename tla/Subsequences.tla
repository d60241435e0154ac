---------------------------- MODULE Subsequences ----------------------------
(***************************************************************************)
(* Subsequences by position: what a loop over a sequence leaves when it    *)
(* skips some of the elements.                                             *)
(***************************************************************************)
EXTENDS Naturals, Sequences

\* What the first i elements of s leave, for every i, when only the positions
\* in I are taken.
Picked(s, I) ==
    LET pick[i \in 0..Len(s)] ==
          IF i = 0 THEN <<>>
          ELSE IF i \in I THEN Append(pick[i - 1], s[i])
          ELSE pick[i - 1]
    IN pick

\* The elements of s at the positions in I, in their order in s.
Pick(s, I) == Picked(s, I)[Len(s)]

\* One sequence is a beginning of the other.
Begins(q, r) == /\ Len(q) <= Len(r)
                /\ \A j \in 1..Len(q) : r[j] = q[j]
=============================================================================
