------------------------------- MODULE MCWire -------------------------------
(* Instance of Wire for TLC: a client sends one or two requests, of one or  *)
(* two words of at most one character and some longer ones.                 *)
EXTENDS Wire

MCWords == {<<>>, <<LetterN>>, <<Quote>>, <<Slash>>, <<Newline>>, <<Shut>>, <<Open>>,
            <<Slash, LetterN>>}
MCRequests == {<<>>} \cup {<<w>> : w \in MCWords} \cup
              {<<<<LetterN>>, w>> : w \in {<<>>, <<Quote>>, <<Shut>>}}
MCStreams == {<<r>> : r \in MCRequests} \cup {<<r, s>> : r, s \in MCRequests}
=============================================================================
