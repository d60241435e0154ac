------------------------------- MODULE Hashes -------------------------------
(***************************************************************************)
(* A hash object (class Hash): the commands on it, a save with the load    *)
(* that follows, and a rewrite of the log with its replay.  Fields and     *)
(* values are Strs and go through both like any other text: a numeral is   *)
(* dumped as an int, and a rewrite passes everything through one           *)
(* tokenizer.  data_map_ is an unordered_map, written in any order.        *)
(*                                                                         *)
(* The encoding of a Str in a hash is always TypeOf its text: it is made   *)
(* from a text and changed by IncrBy only.  A hash without fields and a    *)
(* missing key are not told apart.                                         *)
(***************************************************************************)
EXTENDS Texts, FiniteSets

CONSTANTS
    FieldTexts,  \* texts clients send as fields
    ValueTexts,  \* texts clients send as values
    MaxFields,   \* bound: fields of the hash
    Space        \* the blank Hash::Fork puts between texts

VARIABLES
    table,       \* data_map_
    alive        \* the process runs

vars == <<table, alive>>

Empty == [f \in {} |-> <<>>]
Orders == SetToSeqs(DOMAIN table)

Init == table = Empty /\ alive = TRUE

SetField(t, f, v) == [g \in DOMAIN t \cup {f} |-> IF g = f THEN v ELSE t[g]]

\* HSET: Hash::Set.
Set(f, v) ==
    /\ alive
    /\ Cardinality(DOMAIN table \cup {f}) <= MaxFields
    /\ table' = SetField(table, f, v)
    /\ UNCHANGED alive

\* HDEL: Hash::Del.
Del(f) ==
    /\ alive
    /\ table' = [g \in DOMAIN table \ {f} |-> table[g]]
    /\ UNCHANGED alive

\* HINCRBY and HDECRBY: Str::IncrBy of the value.
IncrBy(f, delta) ==
    /\ alive
    /\ f \in DOMAIN table /\ TypeOf(table[f]) = "INT"
    /\ LET intval == RedisStrToInt(table[f])
       IN /\ alive' = (intval.is # "throw")
          /\ table' = IF intval.is = "int"
                      THEN [table EXCEPT ![f] = IntToText(Wrap(intval.n + delta))]
                      ELSE table

\* Str::EncodeValue throws, and what Str::DecodeValue makes of the image.
Unsavable(t) == TypeOf(t) = "INT" /\ Stoi(t).is = "throw"
Reread(t) == IF TypeOf(t) = "INT" THEN IntToText(Stoi(t).n) ELSE t

\* Hash::EncodeValue and Hash::DecodeValue, whose insert keeps the first of
\* two fields that read back as the same text.
Reload ==
    /\ alive
    /\ alive' = ~(\E f \in DOMAIN table : Unsavable(f) \/ Unsavable(table[f]))
    /\ \E order \in Orders :
         LET back(f) == SelectInSeq(order, LAMBDA g : Reread(g) = f)
         IN table' = IF ~alive' THEN table
                     ELSE [f \in {Reread(g) : g \in DOMAIN table} |->
                             Reread(table[order[back(f)]])]

\* Mutation: nothing between a value and the next field.
ForkUnspaced(order) ==
    FlattenSeq([i \in DOMAIN order |-> order[i] \o <<Space>> \o table[order[i]]])

\* Hash::Fork, without the command and the key.
Fork(order) ==
    FlattenSeq([i \in DOMAIN order |->
        order[i] \o <<Space>> \o table[order[i]] \o <<Space>>])

\* A rewrite of the log and its replay.  JsonToHashCommand takes an HSET with
\* at least one token and an even number of them.
Rewrite ==
    /\ alive
    /\ \E order \in Orders :
         LET tokens == RawCommandToRequest(Fork(order))
             pair(t, i) == SetField(t, tokens[2 * i - 1], tokens[2 * i])
             pairs == [i \in 1..(Len(tokens) \div 2) |-> i]
         IN table' = IF Len(tokens) % 2 = 1 THEN Empty ELSE FoldLeft(pair, Empty, pairs)
    /\ UNCHANGED alive

Next ==
    \/ \E f \in FieldTexts, v \in ValueTexts : Set(f, v)
    \/ \E f \in FieldTexts : Del(f)
    \/ \E f \in FieldTexts, delta \in Ints : IncrBy(f, delta)
    \/ Reload \/ Rewrite

Spec == Init /\ [][Next]_vars

(***************************************************************************)
(* Properties.                                                             *)
(***************************************************************************)
\* A field comes back from a dump with its value if both are no numerals or
\* as std::to_string writes them, and no other field is the same number.
LoadIsStable ==
    [][Reload /\ alive' =>
        \A f \in DOMAIN table :
            /\ Reread(f) = f /\ Reread(table[f]) = table[f]
            /\ \A g \in DOMAIN table \ {f} : Reread(g) # f
            => f \in DOMAIN table' /\ table'[f] = table[f]]_vars

\* A hash of letters and digits comes out of a rewrite of the log as it was.
\* One dash anywhere is enough to lose that for every field.
PlainTextSurvives ==
    [][Rewrite /\ (\A f \in DOMAIN table : ~Contains(f, Dash) /\ ~Contains(table[f], Dash))
        => table' = table]_vars
=============================================================================
