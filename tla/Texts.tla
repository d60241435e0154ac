------------------------------- MODULE Texts -------------------------------
(***************************************************************************)
(* Texts and numbers: the conversions Str, Hash and the replay of a log    *)
(* rest on.  A text is a sequence of characters: binary digits 0 and 1,    *)
(* "Letter" and "Dash", a dash (the only other character the code tells    *)
(* apart).  An int has Width bits.                                         *)
(***************************************************************************)
EXTENDS Integers, Sequences, SequencesExt, Functions

CONSTANTS
    Letter, Dash,  \* characters that are no digits
    Width          \* bits of an int, 32 in the code

Digits == {0, 1}
Chars == Digits \cup {Letter, Dash}

MinInt == -(2^(Width - 1))
MaxInt == 2^(Width - 1) - 1
Ints == MinInt..MaxInt

\* int arithmetic wraps around.
Wrap(n) == ((n - MinInt) % 2^Width) + MinInt

AllDigits(t) == \A i \in DOMAIN t : t[i] \in Digits
Negative(t) == t # <<>> /\ Head(t) = Dash

\* The value of a run of digits.
Magnitude(t) == FoldLeft(LAMBDA n, d : 2 * n + d, 0, t)

\* What RedisStrToInt and std::stoi give: an int, nothing, or an exception.
Number(n) == IF n \in Ints THEN [is |-> "int", n |-> n] ELSE [is |-> "throw", n |-> 0]
NotNumber == [is |-> "none", n |-> 0]

\* std::stoi of an optional dash and digits.
Stoi(t) ==
    CASE Negative(t) /\ Tail(t) # <<>> -> Number(-Magnitude(Tail(t)))
      [] ~Negative(t) /\ t # <<>>      -> Number(Magnitude(t))
      [] OTHER                         -> [is |-> "throw", n |-> 0]

\* RedisStrToInt negates the std::stoi of what follows the dash.
RedisStrToInt(t) ==
    LET abs == IF Negative(t) THEN Tail(t) ELSE t
    IN IF abs = <<>> \/ ~AllDigits(abs) THEN NotNumber
       ELSE [Stoi(abs) EXCEPT !.n = IF Negative(t) THEN -@ ELSE @]

\* The digits of n without leading zeros.
Bits(n) == CHOOSE t \in UNION {[1..k -> Digits] : k \in 1..Width} :
              Magnitude(t) = n /\ (Len(t) = 1 \/ Head(t) = 1)

\* Mutation: the sign is lost.
IntToTextUnsigned(n) == Bits(IF n < 0 THEN -n ELSE n)

\* std::to_string.
IntToText(n) == IF n < 0 THEN <<Dash>> \o Bits(-n) ELSE Bits(n)

\* The encoding Str::Set settles on.
TypeOf(t) ==
    IF AllDigits(t) \/ (Negative(t) /\ Len(t) > 1 /\ AllDigits(Tail(t)))
    THEN "INT" ELSE "STR_RAW"

\* isTokenMember of RawCommandToRequest.
TokenMember(t, i) == i \in DOMAIN t /\ t[i] \in Digits \cup {Letter}

\* Where the token that starts at i ends.
TokenEnd(t, i) ==
    CHOOSE j \in i..Len(t) :
        ~TokenMember(t, j + 1) /\ \A k \in i..j : TokenMember(t, k)

\* RawCommandToRequest: the runs of token members.
RawCommandToRequest(t) ==
    LET starts == {i \in DOMAIN t : TokenMember(t, i) /\ ~TokenMember(t, i - 1)}
        from == SetToSortSeq(starts, <)
    IN [n \in DOMAIN from |-> SubSeq(t, from[n], TokenEnd(t, from[n]))]
=============================================================================
