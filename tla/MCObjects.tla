----------------------------- MODULE MCObjects -----------------------------
(* Instances of Objects for TLC.  Keys and clients are interchangeable.    *)
EXTENDS Objects, TLC

MCIndices == -6..3
MCScores == -1..1
MCDeltas == {-2, -1, 1}
MCFieldTexts == {<<1>>, <<0, 1>>, <<Letter>>, <<Dash>>}
MCValueTexts == MCFieldTexts \cup {<<Dash, 1>>, <<1, 1>>}
MCSizes == 1..40
MCPayloads == {1, 2, 4, 8, 16, 22, 30, 41}
Symmetry == Permutations(Keys) \cup Permutations(Clients)
=============================================================================
