------------------------------ MODULE Strings ------------------------------
(***************************************************************************)
(* One string object: Str with its INT and STR_RAW encodings, the commands *)
(* on it, its form in the dump file (EncodeValue and DecodeValue) and its  *)
(* way through a rewrite of the log (Fork, then RawCommandToRequest, then  *)
(* the replayed SET).                                                      *)
(***************************************************************************)
EXTENDS Texts

CONSTANTS
    MaxText,       \* bound: length of the texts clients send
    MaxLen         \* bound: length APPEND lets a text grow to

VARIABLES
    data,    \* data_
    type,    \* encoding_type_: "INT" or "STR_RAW"
    image,   \* EncodeValue of the last save, or NoImage
    aof,     \* conf_.enable_aof_: the log persists, not the dump file
    alive    \* the process runs

vars == <<data, type, image, aof, alive>>

ClientTexts == UNION {[1..n -> Chars] : n \in 1..MaxText}

NoText == <<>>   \* the key is missing
NoImage == [type |-> "none", data |-> <<>>, n |-> 0]

Init ==
    /\ data = NoText
    /\ type = "INT"
    /\ image = NoImage
    /\ aof \in BOOLEAN
    /\ alive = TRUE

\* SET: Str::Set.
Set(t) ==
    /\ alive
    /\ data' = t
    /\ type' = TypeOf(t)
    /\ UNCHANGED <<image, aof, alive>>

\* Mutation: the encoding is left alone.
AppendKeepsType(t) ==
    /\ alive /\ data # NoText
    /\ Len(data) + Len(t) <= MaxLen
    /\ data' = data \o t
    /\ UNCHANGED <<type, image, aof, alive>>

\* APPEND: Str::Append; the text is appended before the conversion that may
\* throw.
StrAppend(t) ==
    /\ alive /\ data # NoText
    /\ Len(data) + Len(t) <= MaxLen
    /\ data' = data \o t
    /\ type' = IF type = "INT" /\ RedisStrToInt(data').is = "none"
               THEN "STR_RAW" ELSE type
    /\ alive' = ~(type = "INT" /\ RedisStrToInt(data').is = "throw")
    /\ UNCHANGED <<image, aof>>

\* INCRBY and DECRBY: Str::IncrBy of delta or of -delta.
IncrBy(delta) ==
    /\ alive /\ data # NoText
    /\ type = "INT"
    /\ LET intval == RedisStrToInt(data)
       IN /\ data' = IF intval.is = "int" THEN IntToText(Wrap(intval.n + delta)) ELSE data
          /\ type' = IF intval.is = "none" THEN "STR_RAW" ELSE type
          /\ alive' = (intval.is # "throw")
    /\ UNCHANGED <<image, aof>>

\* A save: Str::EncodeValue.
EncodeValue ==
    /\ ~aof /\ alive /\ data # NoText
    /\ alive' = ~(type = "INT" /\ Stoi(data).is = "throw")
    /\ image' = CASE ~alive'      -> image
                  [] type = "INT" -> [type |-> "INT", data |-> <<>>, n |-> Stoi(data).n]
                  [] OTHER        -> [type |-> "STR_RAW", data |-> data, n |-> 0]
    /\ UNCHANGED <<data, type, aof>>

\* A restart from the dump file: Str::DecodeValue.
DecodeValue ==
    /\ image # NoImage
    /\ alive' = TRUE
    /\ type' = image.type
    /\ data' = IF image.type = "INT" THEN IntToText(image.n) ELSE image.data
    /\ UNCHANGED <<image, aof>>

\* A rewrite of the log and its replay: SET of the first token of the text,
\* which is invalid, and leaves no key, if the text has none.
Rewrite ==
    /\ aof /\ alive /\ data # NoText
    /\ data' = LET tokens == RawCommandToRequest(data)
               IN IF tokens = <<>> THEN NoText ELSE Head(tokens)
    /\ type' = TypeOf(data')
    /\ UNCHANGED <<image, aof, alive>>

Next ==
    \/ \E t \in ClientTexts : Set(t) \/ StrAppend(t)
    \/ \E delta \in Ints : IncrBy(delta)
    \/ EncodeValue \/ DecodeValue \/ Rewrite

Spec == Init /\ [][Next]_vars

(***************************************************************************)
(* Properties.                                                             *)
(***************************************************************************)
\* A text encoded as INT is a numeral, after any sequence of SET, APPEND,
\* INCRBY and loads: EncodeValue hands it to std::stoi unchecked.
EncodingSound == type = "INT" => TypeOf(data) = "INT"

\* Loading loses nothing that was in the image: EncodeValue of what
\* DecodeValue made gives the same image.
LoadIsStable ==
    [][DecodeValue => IF type' = "INT" THEN Stoi(data') = Number(image.n)
                      ELSE data' = image.data]_vars

\* A text of letters and digits comes out of a rewrite of the log as it was,
\* and with the same encoding, whatever commands made it.
PlainTextSurvives ==
    [][Rewrite /\ ~Contains(data, Dash) => data' = data /\ type' = type]_vars
=============================================================================
