------------------------------ MODULE Objects ------------------------------
(***************************************************************************)
(* What commands work on: what Commands has, and the objects with texts in *)
(* them, a string or a hash, each with the commands on it and its          *)
(* persistence.  A behaviour follows one of them.                          *)
(***************************************************************************)
EXTENDS Commands

CONSTANTS
    Letter, Dash, Width, MaxText, MaxStr,                \* Strings
    FieldTexts, ValueTexts, MaxFields, Space             \* Hashes

VARIABLES
    data, type, image, aof,                       \* Strings
    table                                         \* Hashes

string == <<data, type, image, aof>>
vars == <<commandVars, string, table>>

S == INSTANCE Strings WITH MaxLen <- MaxStr
H == INSTANCE Hashes

Init ==
    /\ kind \in {"string", "hash", "buffer", "container", "zset", "request", "dblist"}
    /\ CommandInit
    /\ S!Init /\ H!Init

StringStep == kind = "string" /\ S!Next /\ ElsewhereStep /\ UNCHANGED table
HashStep == kind = "hash" /\ H!Next /\ ElsewhereStep /\ UNCHANGED string

Next ==
    \/ StringStep \/ HashStep
    \/ CommandStep /\ UNCHANGED <<string, table>>

Spec == Init /\ [][Next]_vars

(***************************************************************************)
(* Properties, as the modules of the objects state them.                   *)
(***************************************************************************)
\* A text encoded as INT is a numeral, after any sequence of SET, APPEND,
\* INCRBY, loads and rewrites (Str::EncodeValue does not look again).
EncodingSound == S!EncodingSound

\* Str::DecodeValue loses nothing Str::EncodeValue has put into the image,
\* and Hash::DecodeValue finds every field that reads back as itself.
LoadIsStable == S!LoadIsStable /\ H!LoadIsStable

\* A string or a hash of letters and digits survives a rewrite of the log
\* (Str::Fork or Hash::Fork, RawCommandToRequest, SET or HSET).
PlainTextSurvives == S!PlainTextSurvives /\ H!PlainTextSurvives
=============================================================================
