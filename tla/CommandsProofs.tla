--------------------------- MODULE CommandsProofs ---------------------------
(***************************************************************************)
(* Proofs of what Commands says about requests, the list of databases,     *)
(* lists, sorted sets and the compression of texts, for every value of the *)
(* constants.                                                              *)
(* A behaviour follows one of them; each part has an inductive invariant   *)
(* of its own, which the steps of the others leave alone.                  *)
(***************************************************************************)
EXTENDS Commands, SubsequencesProofs

(***************************************************************************)
(* Compression.                                                            *)
(***************************************************************************)
\* RoundTrip with the ranges of the variables, which make it inductive.
BufferInv ==
    kind = "buffer" =>
      /\ size \in Nat \ {0} /\ payload \in Nat \ {0}
      /\ stage \in {"compress", "decompress", "loaded"}
      /\ times \in Nat \ {0} /\ stored \in Nat
      /\ B!RoundTrip

\* What lzfse_encode_buffer returns is a size, and a buffer with room for an
\* uncompressed block is always enough.
LEMMA EncodeBufferFits ==
    ASSUME size \in Nat \ {0}, payload \in Nat \ {0}, NEW n \in Nat
    PROVE  /\ B!EncodeBuffer(n) \in Nat
           /\ size + B!BlockExtra <= n => B!EncodeBuffer(n) > 0
BY CommandsAssumption DEF B!CompressionAssumption, B!EncodeBuffer, B!BlockExtra, B!LzvnExtra

\* A buffer that lzfse_decode_buffer has not filled holds the whole text; one
\* it has filled is no larger than the text.
LEMMA DecodeBufferFills ==
    ASSUME size \in Nat, NEW n \in Nat
    PROVE  IF B!DecodeBuffer(n) = n THEN n <= size ELSE B!DecodeBuffer(n) = size
BY DEF B!DecodeBuffer

\* The factors times a size are sizes, and no smaller than the factors.
LEMMA Multiples ==
    ASSUME NEW n \in Nat \ {0}, NEW f \in Nat \ {0}
    PROVE  n * f \in Nat /\ n * f >= f
OBVIOUS

\* A turn of either loop keeps the invariant.
LEMMA BufferTurn ==
    ASSUME BufferInv, kind = "buffer", kind' = kind, B!Next
    PROVE  BufferInv'
<1>1. CASE B!Compress
  <2>1. size * times \in Nat
    BY Multiples DEF BufferInv
  <2>2. stored' = B!EncodeBuffer(size * times) /\ stored' \in Nat
    BY <1>1, <2>1, EncodeBufferFits DEF B!Compress, BufferInv
  <2>3. CASE stored' = 0
    <3>1. times # B!BlockExtra + 1
      <4>1. ASSUME times = 13 PROVE size + 12 <= size * times
        BY <4>1 DEF BufferInv
      <4> QED BY <2>1, <2>2, <2>3, <4>1, EncodeBufferFits DEF BufferInv, B!BlockExtra
    <3> QED BY <1>1, <2>3, <3>1 DEF B!Compress, BufferInv, B!RoundTrip, B!BlockExtra
  <2>4. CASE stored' # 0
    BY <1>1, <2>2, <2>4 DEF B!Compress, BufferInv, B!RoundTrip
  <2> QED BY <2>3, <2>4
<1>2. CASE B!Decompress
  <2> DEFINE n == stored * times
  <2>1. n \in Nat /\ n >= times
    BY <1>2, Multiples DEF B!Decompress, BufferInv, B!RoundTrip
  <2>2. IF len' = n THEN n <= size ELSE len' = size
    BY <1>2, <2>1, DecodeBufferFills DEF B!Decompress, BufferInv
  <2>3. CASE len' = n
    <3>1. stage' = "decompress" /\ times' = times + 1 /\ UNCHANGED <<size, payload, stored>>
      BY <1>2, <2>3 DEF B!Decompress
    <3>2. times' <= size + 5
      BY <2>1, <2>2, <2>3, <3>1 DEF BufferInv
    <3> QED BY <1>2, <3>1, <3>2 DEF B!Decompress, BufferInv, B!RoundTrip
  <2>4. CASE len' # n
    BY <1>2, <2>2, <2>4 DEF B!Decompress, BufferInv, B!RoundTrip
  <2> QED BY <2>3, <2>4
<1> QED BY <1>1, <1>2 DEF B!Next

\* What is loaded is as long as what was saved; the 13th buffer of Compress
\* is the last, and Decompress tries no more buffers than the text has bytes,
\* for texts and payloads of any size.
THEOREM SizesRoundTrip == CommandSpec => []RoundTrip
<1>1. CommandInit => BufferInv
  <2>1. ASSUME CommandInit, kind = "buffer" PROVE B!Init
    BY <2>1 DEF CommandInit
  <2>2. B!Init => BufferInv
    BY CommandsAssumption DEF B!Init, BufferInv, B!CompressionAssumption, B!RoundTrip, B!BlockExtra
  <2> QED BY <2>1, <2>2 DEF BufferInv
<1>2. BufferInv /\ [CommandStep \/ ElsewhereStep]_commandVars => BufferInv'
  <2> SUFFICES ASSUME BufferInv, [CommandStep \/ ElsewhereStep]_commandVars PROVE BufferInv'
    OBVIOUS
  <2>1. CASE BufferStep
    BY <2>1, BufferTurn DEF BufferStep
  <2>2. CASE UNCHANGED <<kind, buffer>>
    BY <2>2 DEF BufferInv, buffer, B!RoundTrip
  <2> QED BY <2>1, <2>2 DEF CommandStep, ContainerStep, ZSetStep, RequestStep, DbListStep,
          ElsewhereStep, commandVars
<1>3. BufferInv => RoundTrip
  BY DEF BufferInv, RoundTrip
<1> QED BY <1>1, <1>2, <1>3, PTL DEF CommandSpec

(***************************************************************************)
(* Requests.                                                               *)
(***************************************************************************)
\* What the Exec of command c reads is there.
Enough(c) ==
    c.name # "none" /\ c.valid /\ R!KindOf(c.name) # Absent =>
      /\ R!Reads(c.name, Len(c.values)) \subseteq 1..Len(c.values)
      /\ R!NeedInts(c.name) \subseteq 1..Len(c.values)

\* ReadsInBounds with what makes it inductive: a command that is queued and
\* valid has the values its Exec will read.
RequestInv == ReadsInBounds /\ Enough(cmd)

\* A command word belongs to one kind of command.
LEMMA NameKinds ==
    /\ \A name \in R!StrNames : R!KindOf(name) = "STR"
    /\ \A name \in R!ListNames : R!KindOf(name) = "LIST"
    /\ \A name \in R!HashNames : R!KindOf(name) = "HASH"
    /\ \A name \in R!SetNames : R!KindOf(name) = "SET"
    /\ \A name \in R!ZSetNames : R!KindOf(name) = "ZSET"
    /\ \A name \in R!ServerNames \cup R!CliNames \cup R!DbNames : R!KindOf(name) = Absent
BY DEF R!KindOf, R!StrNames, R!ListNames, R!HashNames, R!SetNames, R!ZSetNames,
       R!ServerNames, R!CliNames, R!DbNames

\* The parser a command word is given to.
LEMMA Dispatch ==
    ASSUME NEW args
    PROVE  /\ \A name \in R!StrNames :
                R!RequestToCommandExec(name, args) = R!JsonToStrCommand(name, args)
           /\ \A name \in R!ListNames :
                R!RequestToCommandExec(name, args) = R!JsonToListCommand(name, args)
           /\ \A name \in R!HashNames :
                R!RequestToCommandExec(name, args) = R!JsonToHashCommand(name, args)
           /\ \A name \in R!SetNames :
                R!RequestToCommandExec(name, args) = R!JsonToSetCommand(name, args)
           /\ \A name \in R!ZSetNames :
                R!RequestToCommandExec(name, args) = R!JsonToZSetCommand(name, args)
           /\ \A name \in R!ServerNames :
                R!RequestToCommandExec(name, args) = R!JsonToServerCommand(name, args)
           /\ \A name \in R!CliNames :
                R!RequestToCommandExec(name, args) = R!JsonToCliCommand(name, args)
           /\ \A name \in R!DbNames :
                R!RequestToCommandExec(name, args) = R!JsonToDbCommand(name, args)
BY DEF R!RequestToCommandExec, R!StrNames, R!ListNames, R!HashNames, R!SetNames, R!ZSetNames,
       R!ServerNames, R!CliNames, R!DbNames

\* The values of a command that must be numbers.
LEMMA Ints ==
    /\ \A name \in {"INCRBY", "DECRBY", "LREM", "LSET", "ZINCRBY", "ZDECRBY"} :
         R!NeedInts(name) = {1}
    /\ \A name \in {"HINCRBY", "HDECRBY"} : R!NeedInts(name) = {2}
    /\ \A name \in {"LTRIM", "ZCOUNT", "ZRANGE", "ZRANGEBYSCORE"} : R!NeedInts(name) = {1, 2}
    /\ \A name : name \notin {"INCRBY", "DECRBY", "LREM", "LSET", "ZINCRBY", "ZDECRBY",
                              "HINCRBY", "HDECRBY", "LTRIM", "ZCOUNT", "ZRANGE",
                              "ZRANGEBYSCORE"} => R!NeedInts(name) = {}
<1>1. \A name \in {"INCRBY", "DECRBY", "LREM", "LSET", "ZINCRBY", "ZDECRBY"} :
        R!NeedInts(name) = {1}
  BY DEF R!NeedInts
<1>2. \A name \in {"HINCRBY", "HDECRBY"} : R!NeedInts(name) = {2}
  BY DEF R!NeedInts
<1>3. \A name \in {"LTRIM", "ZCOUNT", "ZRANGE", "ZRANGEBYSCORE"} : R!NeedInts(name) = {1, 2}
  BY DEF R!NeedInts
<1>4. \A name : name \notin {"INCRBY", "DECRBY", "LREM", "LSET", "ZINCRBY", "ZDECRBY",
                             "HINCRBY", "HDECRBY", "LTRIM", "ZCOUNT", "ZRANGE",
                             "ZRANGEBYSCORE"} => R!NeedInts(name) = {}
  BY DEF R!NeedInts
<1> QED BY <1>1, <1>2, <1>3, <1>4

\* What the Exec of a command reads depends on the type it is for.
LEMMA ReadsOf ==
    ASSUME NEW name, NEW n
    PROVE  /\ R!KindOf(name) = "STR" => R!Reads(name, n) = R!StrReads(name, n)
           /\ R!KindOf(name) = "LIST" => R!Reads(name, n) = R!ListReads(name, n)
           /\ R!KindOf(name) = "HASH" => R!Reads(name, n) = R!HashReads(name, n)
           /\ R!KindOf(name) = "SET" => R!Reads(name, n) = R!SetReads(name, n)
           /\ R!KindOf(name) = "ZSET" => R!Reads(name, n) = R!ZSetReads(name, n)
<1>1. R!KindOf(name) = "STR" => R!Reads(name, n) = R!StrReads(name, n)
  BY DEF R!Reads
<1>2. R!KindOf(name) = "LIST" => R!Reads(name, n) = R!ListReads(name, n)
  BY DEF R!Reads
<1>3. R!KindOf(name) = "HASH" => R!Reads(name, n) = R!HashReads(name, n)
  BY DEF R!Reads
<1>4. R!KindOf(name) = "SET" => R!Reads(name, n) = R!SetReads(name, n)
  BY DEF R!Reads
<1>5. R!KindOf(name) = "ZSET" => R!Reads(name, n) = R!ZSetReads(name, n)
  BY DEF R!Reads
<1> QED BY <1>1, <1>2, <1>3, <1>4, <1>5

\* The tokens of a request are a sequence.
LEMMA ArgsAreSeq == R!Args \subseteq Seq(Tokens)
BY CommandsAssumption DEF R!Args

\* The fields of a command.
LEMMA CommandFields ==
    ASSUME NEW name, NEW valid, NEW args, NEW values
    PROVE  /\ R!Command(name, valid, args, values).name = name
           /\ R!Command(name, valid, args, values).valid = valid
           /\ R!Command(name, valid, args, values).values = values
BY DEF R!Command

\* A parser that keeps the tokens after the key keeps all of them.
LEMMA ValuesKept ==
    ASSUME NEW name, NEW valid, NEW args \in Seq(Tokens),
           R!WithValues(name, valid, args).valid
    PROVE  /\ R!WithValues(name, valid, args).name = name
           /\ valid
           /\ Len(R!WithValues(name, valid, args).values) = Len(args) - 1
<1>1. R!Base(args) /\ valid
  BY CommandFields, Zenon DEF R!WithValues
<1>2. R!WithValues(name, valid, args).values = Tail(args)
  <2> DEFINE ok == R!Base(args) /\ valid
             rest == Tail(args)
  <2>1. R!WithValues(name, valid, args) = R!Command(name, ok, args, rest)
    BY <1>1 DEF R!WithValues
  <2> HIDE DEF ok, rest
  <2>2. R!Command(name, ok, args, rest).values = rest
    BY CommandFields
  <2> QED BY <2>1, <2>2 DEF rest
<1>3. Len(args) >= 1
  BY <1>1 DEF R!Base, R!Size
<1>4. Len(Tail(args)) = Len(args) - 1
  BY <1>3
<1> QED BY <1>1, <1>2, <1>4, CommandFields DEF R!WithValues

\* A request of even size has an even number of values.
LEMMA EvenValues ==
    ASSUME NEW l \in Nat, (l + 1) % 2 = 0
    PROVE  (l - 1) % 2 = 0
OBVIOUS

\* A loop over an even number of values two at a time stays inside them.
LEMMA PairsInside ==
    ASSUME NEW n \in Nat, n % 2 = 0
    PROVE  R!Pairs(n) \subseteq 1..n
BY DEF R!Pairs

\* What a parser lets through is enough for the Exec of its command.
LEMMA ParsedIsEnough ==
    ASSUME NEW name \in R!Names, NEW args \in R!Args
    PROVE  Enough(R!RequestToCommandExec(name, args))
<1> DEFINE c == R!RequestToCommandExec(name, args)
           n == Len(c.values)
<1> HIDE DEF c
<1> SUFFICES Enough(c)
  BY DEF c
<1>0. args \in Seq(Tokens) /\ Len(args) \in Nat
  BY ArgsAreSeq
<1>1. CASE name \in R!StrNames
  <2>1. c = R!JsonToStrCommand(name, args) /\ R!KindOf(name) = "STR"
    BY <1>1, Dispatch, NameKinds DEF c
  <2>2. CASE name \in {"GET", "LEN"}
    <3>1. c.name = name
      BY <2>1, <2>2, CommandFields DEF R!JsonToStrCommand, R!Bare
    <3>2. R!Reads(name, n) = {} /\ R!NeedInts(name) = {}
      BY <2>1, <2>2, ReadsOf, Ints DEF R!StrReads
    <3> QED BY <3>1, <3>2 DEF Enough
  <2>3. CASE name \notin {"GET", "LEN"}
    <3>1. c.name = name /\ (c.valid => c.values = <<args[2]>>)
      <4> DEFINE ok == R!Base(args) /\ R!Size(args) >= 3
                 values == IF ok THEN <<args[2]>> ELSE <<>>
                 command == R!Command(name, ok, args, values)
      <4>1. c = command
        BY <2>1, <2>3 DEF R!JsonToStrCommand
      <4>2. ok => values = <<args[2]>>
        OBVIOUS
      <4> HIDE DEF ok, values
      <4>3. command.name = name /\ command.valid = ok /\ command.values = values
        BY CommandFields
      <4> HIDE DEF command
      <4> QED BY <4>1, <4>2, <4>3
    <3>2. R!Reads(name, n) = {1}
      BY <2>1, <2>3, ReadsOf DEF R!StrReads
    <3>3. R!NeedInts(name) \subseteq {1}
      BY <1>1, Ints DEF R!StrNames
    <3>4. ASSUME c.valid PROVE {1} \subseteq 1..n
      <4>1. n = 1
        BY <3>1, <3>4
      <4> QED BY <4>1
    <3> QED BY <3>1, <3>2, <3>3, <3>4, Zenon DEF Enough
  <2> QED BY <2>2, <2>3
<1>2. CASE name \in R!ListNames
  <2>1. c = R!JsonToListCommand(name, args) /\ R!KindOf(name) = "LIST"
    BY <1>2, Dispatch, NameKinds DEF c
  <2>2. CASE name \in {"LPOPF", "LPOPB", "LLEN"}
    <3>1. c.name = name
      BY <2>1, <2>2, CommandFields DEF R!JsonToListCommand, R!Bare
    <3>2. R!Reads(name, n) = {}
      BY <2>1, <2>2, ReadsOf DEF R!ListReads
    <3>3. R!NeedInts(name) = {}
      BY <2>2, Ints
    <3> QED BY <3>1, <3>2, <3>3 DEF Enough
  <2>3. CASE name \notin {"LPOPF", "LPOPB", "LLEN"}
    <3> DEFINE ok == /\ R!Size(args) >= 3
                     /\ name \in {"LREM", "LSET", "LTRIM"} => R!Size(args) >= 4
    <3>1. c = R!WithValues(name, ok, args)
      BY <2>1, <2>3 DEF R!JsonToListCommand
    <3>2. c.name = name
      BY <3>1, CommandFields DEF R!WithValues
    <3>3. ASSUME c.valid PROVE n = Len(args) - 1 /\ ok
      BY <1>0, <3>1, <3>3, ValuesKept, Zenon
    <3>4. ASSUME c.valid
          PROVE n \in Nat /\ n >= 1 /\ (name \in {"LREM", "LSET", "LTRIM"} => n >= 2)
      BY <1>0, <3>3, <3>4 DEF R!Size
    <3>5. CASE name \in {"LREM", "LSET", "LTRIM"}
      <4>1. R!Reads(name, n) = {1, 2}
        BY <2>1, <3>5, ReadsOf DEF R!ListReads
      <4>2. R!NeedInts(name) \subseteq {1, 2}
        BY <3>5, Ints
      <4> QED BY <3>2, <3>4, <3>5, <4>1, <4>2 DEF Enough
    <3>6. CASE name \notin {"LREM", "LSET", "LTRIM"}
      <4>1. R!Reads(name, n) = 1..n
        BY <1>2, <2>1, <2>3, <3>6, ReadsOf DEF R!ListReads, R!ListNames
      <4>2. R!NeedInts(name) = {}
        BY <1>2, <3>6, Ints DEF R!ListNames
      <4> QED BY <3>2, <4>1, <4>2 DEF Enough
    <3> QED BY <3>5, <3>6
  <2> QED BY <2>2, <2>3
<1>3. CASE name \in R!HashNames
  <2>1. c = R!JsonToHashCommand(name, args) /\ R!KindOf(name) = "HASH"
    BY <1>3, Dispatch, NameKinds DEF c
  <2>2. CASE name \in {"HLEN", "HGETALL"}
    <3>1. c.name = name
      BY <2>1, <2>2, CommandFields DEF R!JsonToHashCommand, R!Bare
    <3>2. R!Reads(name, n) = {}
      BY <2>1, <2>2, ReadsOf DEF R!HashReads
    <3>3. R!NeedInts(name) = {}
      BY <2>2, Ints
    <3> QED BY <3>1, <3>2, <3>3 DEF Enough
  <2>3. CASE name \notin {"HLEN", "HGETALL"}
    <3> DEFINE ok == /\ R!Size(args) >= 3
                     /\ name \in {"HSET", "HINCRBY", "HDECRBY"} => R!Size(args) % 2 = 0
    <3>1. c = R!WithValues(name, ok, args)
      BY <2>1, <2>3 DEF R!JsonToHashCommand
    <3>2. c.name = name
      BY <3>1, CommandFields DEF R!WithValues
    <3>3. ASSUME c.valid PROVE n = Len(args) - 1 /\ ok
      BY <1>0, <3>1, <3>3, ValuesKept, Zenon
    <3>4. ASSUME c.valid
          PROVE /\ n \in Nat
                /\ name \in {"HSET", "HINCRBY", "HDECRBY"} => n % 2 = 0 /\ n >= 2
      <4> DEFINE l == Len(args)
      <4>1. l \in Nat /\ n = l - 1 /\ l >= 2
        BY <1>0, <3>3, <3>4 DEF R!Size
      <4>2. name \in {"HSET", "HINCRBY", "HDECRBY"} => (l + 1) % 2 = 0
        BY <3>3, <3>4 DEF R!Size
      <4> HIDE DEF l, n
      <4>3. (l + 1) % 2 = 0 => (l - 1) % 2 = 0
        BY <4>1, EvenValues
      <4>4. (l - 1) % 2 = 0 => l >= 3
        BY <4>1
      <4> QED BY <4>1, <4>2, <4>3, <4>4
    <3>5. ASSUME c.valid, name = "HSET" PROVE R!Reads(name, n) \subseteq 1..n
      <4>1. R!Reads(name, n) = R!Pairs(n)
        BY <2>1, <3>5, ReadsOf DEF R!HashReads
      <4> QED BY <3>4, <3>5, <4>1, PairsInside, Zenon
    <3>6. CASE name = "HSET"
      <4>1. R!NeedInts(name) = {}
        BY <3>6, Ints
      <4> QED BY <3>2, <3>5, <3>6, <4>1 DEF Enough
    <3>7. CASE name \in {"HINCRBY", "HDECRBY"}
      <4>1. R!Reads(name, n) = {1, 2}
        BY <2>1, <3>7, ReadsOf DEF R!HashReads
      <4>2. R!NeedInts(name) \subseteq {1, 2}
        BY <3>7, Ints
      <4>3. ASSUME c.valid PROVE {1, 2} \subseteq 1..n
        <5>1. n \in Nat /\ n >= 2
          BY <3>4, <3>7, <4>3, Zenon
        <5> HIDE DEF n
        <5> QED BY <5>1
      <4> QED BY <3>2, <4>1, <4>2, <4>3, Zenon DEF Enough
    <3>8. CASE name \in {"HGET", "HEXIST", "HDEL"}
      <4>1. R!Reads(name, n) = 1..n
        BY <2>1, <3>8, ReadsOf DEF R!HashReads
      <4>2. R!NeedInts(name) = {}
        BY <3>8, Ints
      <4> QED BY <3>2, <4>1, <4>2 DEF Enough
    <3> QED BY <1>3, <2>3, <3>6, <3>7, <3>8 DEF R!HashNames
  <2> QED BY <2>2, <2>3
<1>4. CASE name \in R!SetNames
  <2>1. c = R!JsonToSetCommand(name, args) /\ R!KindOf(name) = "SET"
    BY <1>4, Dispatch, NameKinds DEF c
  <2>0. R!NeedInts(name) = {}
    BY <1>4, Ints DEF R!SetNames
  <2>2. CASE name \in {"SCARD", "SRANDMEMBER", "SMEMBERS", "SPOP"}
    <3>1. c.name = name
      BY <2>1, <2>2, CommandFields DEF R!JsonToSetCommand, R!Bare
    <3>2. R!Reads(name, n) = {}
      BY <2>1, <2>2, ReadsOf DEF R!SetReads
    <3> QED BY <2>0, <3>1, <3>2 DEF Enough
  <2>3. CASE name \notin {"SCARD", "SRANDMEMBER", "SMEMBERS", "SPOP"}
    <3>1. c = R!WithValues(name, R!Size(args) >= 3, args)
      BY <2>1, <2>3 DEF R!JsonToSetCommand
    <3>2. c.name = name
      BY <3>1, CommandFields DEF R!WithValues
    <3> DEFINE ok == R!Size(args) >= 3
    <3>3. ASSUME c.valid PROVE n = Len(args) - 1 /\ ok
      <4>1. R!WithValues(name, ok, args).valid
        BY <3>1, <3>3
      <4> HIDE DEF ok
      <4>2. ok /\ Len(R!WithValues(name, ok, args).values) = Len(args) - 1
        BY <1>0, <4>1, ValuesKept
      <4> QED BY <3>1, <4>2 DEF ok
    <3>4. ASSUME c.valid PROVE n \in Nat /\ n >= 1
      BY <1>0, <3>3, <3>4 DEF R!Size
    <3>5. R!Reads(name, n) \in {{1}, 1..n}
      BY <1>4, <2>1, <2>3, ReadsOf DEF R!SetReads, R!SetNames
    <3> QED BY <2>0, <3>2, <3>4, <3>5 DEF Enough
  <2> QED BY <2>2, <2>3
<1>5. CASE name \in R!ZSetNames
  <2>1. c = R!JsonToZSetCommand(name, args) /\ R!KindOf(name) = "ZSET"
    BY <1>5, Dispatch, NameKinds DEF c
  <2>2. CASE name = "ZCARD"
    <3>1. c.name = name
      BY <2>1, <2>2, CommandFields DEF R!JsonToZSetCommand, R!Bare
    <3>2. R!Reads(name, n) = {}
      BY <2>1, <2>2, ReadsOf DEF R!ZSetReads
    <3>3. R!NeedInts(name) = {}
      BY <2>2, Ints
    <3> QED BY <3>1, <3>2, <3>3 DEF Enough
  <2>3. CASE name # "ZCARD"
    <3> DEFINE ok == /\ R!Size(args) >= 3
                     /\ R!Size(args) % 2 = 0 \/ name \in {"ZSCORE", "ZRANK"}
    <3>1. c = R!WithValues(name, ok, args)
      BY <2>1, <2>3 DEF R!JsonToZSetCommand
    <3>2. c.name = name
      BY <3>1, CommandFields DEF R!WithValues
    <3>3. ASSUME c.valid PROVE n = Len(args) - 1 /\ ok
      BY <1>0, <3>1, <3>3, ValuesKept, Zenon
    <3>4. ASSUME c.valid
          PROVE /\ n \in Nat /\ n >= 1
                /\ name \notin {"ZSCORE", "ZRANK"} => n % 2 = 0 /\ n >= 2
      <4> DEFINE l == Len(args)
      <4>1. l \in Nat /\ n = l - 1 /\ l >= 2
        BY <1>0, <3>3, <3>4 DEF R!Size
      <4>2. name \notin {"ZSCORE", "ZRANK"} => (l + 1) % 2 = 0
        BY <3>3, <3>4 DEF R!Size
      <4> HIDE DEF l, n
      <4>3. (l + 1) % 2 = 0 => (l - 1) % 2 = 0
        BY <4>1, EvenValues
      <4>4. (l - 1) % 2 = 0 => l >= 3
        BY <4>1
      <4> QED BY <4>1, <4>2, <4>3, <4>4
    <3>5. ASSUME c.valid, name \in {"ZADD", "ZREM"} PROVE R!Reads(name, n) \subseteq 1..n
      <4>1. R!Reads(name, n) = R!Pairs(n)
        BY <2>1, <3>5, ReadsOf DEF R!ZSetReads
      <4> QED BY <3>4, <3>5, <4>1, PairsInside, Zenon
    <3>6. CASE name \in {"ZADD", "ZREM"}
      <4>1. R!NeedInts(name) = {}
        BY <3>6, Ints
      <4> QED BY <3>2, <3>5, <3>6, <4>1 DEF Enough
    <3>7. CASE name \in {"ZSCORE", "ZRANK"}
      <4>1. R!Reads(name, n) = {1}
        BY <2>1, <3>7, ReadsOf DEF R!ZSetReads
      <4>2. R!NeedInts(name) = {}
        BY <3>7, Ints
      <4> QED BY <3>2, <3>4, <4>1, <4>2 DEF Enough
    <3>8. CASE name \notin {"ZSCORE", "ZRANK", "ZADD", "ZREM"}
      <4>1. R!Reads(name, n) = {1, 2}
        BY <2>1, <2>3, <3>8, ReadsOf DEF R!ZSetReads
      <4>2. R!NeedInts(name) \subseteq {1, 2}
        BY <1>5, Ints DEF R!ZSetNames
      <4>3. ASSUME c.valid PROVE {1, 2} \subseteq 1..n
        <5>1. n \in Nat /\ n >= 2
          BY <3>4, <3>8, <4>3, Zenon
        <5> HIDE DEF n
        <5> QED BY <5>1
      <4> QED BY <3>2, <4>1, <4>2, <4>3, Zenon DEF Enough
    <3> QED BY <3>6, <3>7, <3>8
  <2> QED BY <2>2, <2>3
<1>6. CASE name \in R!ServerNames \cup R!CliNames \cup R!DbNames
  <2>1. /\ R!JsonToServerCommand(name, args).name = name
        /\ R!JsonToCliCommand(name, args).name = name
    BY DEF R!JsonToServerCommand, R!JsonToCliCommand, R!Command
  <2>2. R!JsonToDbCommand(name, args).name = name
    BY DEF R!JsonToDbCommand, R!Bare, R!Command
  <2>3. c \in {R!JsonToServerCommand(name, args), R!JsonToCliCommand(name, args),
               R!JsonToDbCommand(name, args)}
    BY <1>6, Dispatch DEF c
  <2> QED BY <1>6, <2>1, <2>2, <2>3, NameKinds DEF Enough
<1> QED BY <1>1, <1>2, <1>3, <1>4, <1>5, <1>6 DEF R!Names

\* Every parser returns a command of the word it was given.
LEMMA ParsedCommand ==
    ASSUME NEW name \in R!Names, NEW args
    PROVE  \E valid, values :
             R!RequestToCommandExec(name, args) = R!Command(name, valid, args, values)
<1>1. /\ \E valid, values : R!JsonToStrCommand(name, args) = R!Command(name, valid, args, values)
      /\ \E valid, values : R!JsonToListCommand(name, args) = R!Command(name, valid, args, values)
      /\ \E valid, values : R!JsonToHashCommand(name, args) = R!Command(name, valid, args, values)
  BY Zenon DEF R!JsonToStrCommand, R!JsonToListCommand, R!JsonToHashCommand, R!Bare, R!WithValues
<1>2. /\ \E valid, values : R!JsonToSetCommand(name, args) = R!Command(name, valid, args, values)
      /\ \E valid, values : R!JsonToZSetCommand(name, args) = R!Command(name, valid, args, values)
  BY Zenon DEF R!JsonToSetCommand, R!JsonToZSetCommand, R!Bare, R!WithValues
<1>3. /\ \E valid, values : R!JsonToServerCommand(name, args) = R!Command(name, valid, args, values)
      /\ \E valid, values : R!JsonToCliCommand(name, args) = R!Command(name, valid, args, values)
      /\ \E valid, values : R!JsonToDbCommand(name, args) = R!Command(name, valid, args, values)
  BY Zenon DEF R!JsonToServerCommand, R!JsonToCliCommand, R!JsonToDbCommand, R!Bare
<1>4. R!RequestToCommandExec(name, args) \in
        {R!JsonToStrCommand(name, args), R!JsonToListCommand(name, args),
         R!JsonToHashCommand(name, args), R!JsonToSetCommand(name, args),
         R!JsonToZSetCommand(name, args), R!JsonToServerCommand(name, args),
         R!JsonToCliCommand(name, args), R!JsonToDbCommand(name, args)}
  BY Dispatch DEF R!Names
<1>5. CASE R!RequestToCommandExec(name, args) \in
        {R!JsonToStrCommand(name, args), R!JsonToListCommand(name, args),
         R!JsonToHashCommand(name, args)}
  BY <1>1, <1>5
<1>6. CASE R!RequestToCommandExec(name, args) \in
        {R!JsonToSetCommand(name, args), R!JsonToZSetCommand(name, args)}
  BY <1>2, <1>6
<1>7. CASE R!RequestToCommandExec(name, args) \in
        {R!JsonToServerCommand(name, args), R!JsonToCliCommand(name, args),
         R!JsonToDbCommand(name, args)}
  BY <1>3, <1>7
<1> QED BY <1>4, <1>5, <1>6, <1>7

\* The key of a command is not looked at here.
LEMMA KeyedCommand ==
    ASSUME NEW name \in R!Names, NEW args \in R!Args, NEW key
    PROVE  Enough([R!RequestToCommandExec(name, args) EXCEPT !.key = key])
<1> DEFINE c == R!RequestToCommandExec(name, args)
           d == [c EXCEPT !.key = key]
<1>1. PICK valid, values : c = R!Command(name, valid, args, values)
  BY ParsedCommand
<1>2. d.name = c.name /\ d.valid = c.valid /\ d.values = c.values
  <2> HIDE DEF c
  <2> QED BY <1>1 DEF R!Command
<1>3. Enough(c)
  BY ParsedIsEnough
<1> HIDE DEF c, d
<1>4. Enough(d)
  BY <1>2, <1>3, Zenon DEF Enough
<1> QED BY <1>4 DEF c, d

\* The fields of what an Exec leaves behind.
Result == {"reply", "reads", "size", "connected"}

\* Changing the reply of a result leaves the other fields.
LEMMA WithReply ==
    ASSUME NEW r, DOMAIN r = Result, NEW x
    PROVE  /\ DOMAIN [r EXCEPT !.reply = x] = Result
           /\ [r EXCEPT !.reply = x].reply = x
           /\ [r EXCEPT !.reply = x].reads = r.reads
           /\ [r EXCEPT !.reply = x].size = r.size
BY DEF Result

\* Changing what was read leaves the other fields.
LEMMA WithReads ==
    ASSUME NEW r, DOMAIN r = Result, NEW x
    PROVE  /\ DOMAIN [r EXCEPT !.reads = x] = Result
           /\ [r EXCEPT !.reads = x].reads = x
           /\ [r EXCEPT !.reads = x].reply = r.reply
           /\ [r EXCEPT !.reads = x].size = r.size
BY DEF Result

\* Changing the number of values leaves the other fields.
LEMMA WithSize ==
    ASSUME NEW r, DOMAIN r = Result, NEW x
    PROVE  /\ DOMAIN [r EXCEPT !.size = x] = Result
           /\ [r EXCEPT !.size = x].size = x
           /\ [r EXCEPT !.size = x].reply = r.reply
           /\ [r EXCEPT !.size = x].reads = r.reads
BY DEF Result

\* Connecting leaves the other fields.
LEMMA WithConnected ==
    ASSUME NEW r, DOMAIN r = Result, NEW x
    PROVE  /\ DOMAIN [r EXCEPT !.connected = x] = Result
           /\ [r EXCEPT !.connected = x].connected = x
           /\ [r EXCEPT !.connected = x].reply = r.reply
           /\ [r EXCEPT !.connected = x].reads = r.reads
           /\ [r EXCEPT !.connected = x].size = r.size
BY DEF Result

\* The three plain results.
LEMMA Results ==
    /\ DOMAIN R!Nothing = Result /\ R!Nothing.reply = "" /\ R!Nothing.reads = {}
    /\ DOMAIN R!Ok = Result /\ R!Ok.reply = "ok" /\ R!Ok.reads = {}
    /\ DOMAIN R!Error = Result /\ R!Error.reply = "error" /\ R!Error.reads = {}
<1>1. DOMAIN R!Nothing = Result /\ R!Nothing.reply = "" /\ R!Nothing.reads = {}
  BY DEF R!Nothing, Result
<1>2. DOMAIN R!Ok = Result /\ R!Ok.reply = "ok" /\ R!Ok.reads = {}
  BY <1>1, WithReply, Zenon DEF R!Ok
<1>3. DOMAIN R!Error = Result /\ R!Error.reply = "error" /\ R!Error.reads = {}
  BY <1>1, WithReply, Zenon DEF R!Error
<1> QED BY <1>1, <1>2, <1>3, Zenon

\* Nothing is to be read for no command.
LEMMA NoCommandEnough == Enough(R!NoCommand)
BY DEF Enough, R!NoCommand

\* A step of a request keeps the invariant.
LEMMA RequestTurn ==
    ASSUME RequestInv, R!Next
    PROVE  RequestInv'
<1> SUFFICES Enough(cmd') /\ out'.reads \subseteq 1..out'.size
  BY DEF RequestInv, ReadsInBounds, R!ReadsInBounds, Enough
<1>0. Enough(cmd) /\ out.reads \subseteq 1..out.size
  BY DEF RequestInv, ReadsInBounds, R!ReadsInBounds
<1>1. CASE R!Receive
  <2>1. PICK k \in Keys, name \in R!Names, args \in R!Args :
          cmd' = [R!RequestToCommandExec(name, args) EXCEPT !.key =
                    IF name \in R!ServerNames \cup R!CliNames THEN Absent ELSE k]
    BY <1>1 DEF R!Receive
  <2>2. Enough(cmd')
    BY <2>1, KeyedCommand
  <2> QED BY <1>0, <1>1, <2>2 DEF R!Receive
<1>2. ASSUME NEW k \in Keys, R!Expire(k) PROVE Enough(cmd') /\ out'.reads \subseteq 1..out'.size
  BY <1>0, <1>2 DEF R!Expire
<1>3. ASSUME NEW k \in Keys, R!ExecObject(k)
      PROVE  Enough(cmd') /\ out'.reads \subseteq 1..out'.size
  <2> DEFINE n == Len(cmd.values)
             read == [R!Ok EXCEPT !.reads = R!Reads(cmd.name, n)]
             did == [R!Ok EXCEPT !.reads = R!Reads(cmd.name, n), !.size = n]
  <2>1. /\ R!Reads(cmd.name, n) \subseteq 1..n
        /\ R!NeedInts(cmd.name) \subseteq 1..n
    BY <1>0, <1>3 DEF R!ExecObject, Enough
  <2>2. DOMAIN did = Result /\ did.reads = R!Reads(cmd.name, n) /\ did.size = n
    <3>2. DOMAIN read = Result /\ read.reads = R!Reads(cmd.name, n)
      BY Results, WithReads, Zenon
    <3>3. did = [read EXCEPT !.size = n]
      OBVIOUS
    <3> HIDE DEF read, did
    <3> QED BY <3>2, <3>3, WithSize
  <2>3. /\ cmd' = R!NoCommand
        /\ \/ out' = R!Error
           \/ out' = did
           \/ out' = [did EXCEPT !.reply = "error"]
           \/ out' = [did EXCEPT !.reply = "error", !.reads = R!NeedInts(cmd.name)]
    BY <1>3, Zenon DEF R!ExecObject, R!Done
  <2> HIDE DEF n, did
  <2>4. out'.reads \subseteq 1..out'.size
    <3> DEFINE failed == [did EXCEPT !.reply = "error"]
               needed == R!NeedInts(cmd.name)
    <3>1. /\ DOMAIN failed = Result /\ failed.reads = did.reads /\ failed.size = did.size
      BY <2>2, WithReply
    <3>2. [did EXCEPT !.reply = "error", !.reads = needed] = [failed EXCEPT !.reads = needed]
      OBVIOUS
    <3> HIDE DEF failed, needed
    <3>4. /\ [failed EXCEPT !.reads = needed].reads = needed
          /\ [failed EXCEPT !.reads = needed].size = n
      BY <2>2, <3>1, WithReads
    <3>5. \/ out' = R!Error \/ out' = did \/ out' = failed
          \/ out' = [failed EXCEPT !.reads = needed]
      BY <2>3, <3>2 DEF failed, needed
    <3>6. needed \subseteq 1..n
      BY <2>1 DEF needed
    <3> QED BY <2>1, <2>2, <3>1, <3>4, <3>5, <3>6, Results, Zenon
  <2> QED BY <2>3, <2>4, NoCommandEnough
<1>4. ASSUME cmd' = R!NoCommand, out' \in {R!Nothing, R!Ok, R!Error}
      PROVE  Enough(cmd') /\ out'.reads \subseteq 1..out'.size
  <2>1. out'.reads = {}
    BY <1>4, Results, Zenon
  <2> QED BY <1>4, <2>1, NoCommandEnough
<1>5. ASSUME NEW k \in Keys, R!ExecDb(k) PROVE Enough(cmd') /\ out'.reads \subseteq 1..out'.size
  BY <1>4, <1>5 DEF R!ExecDb, R!Done
<1>6. CASE R!ExecCli
  BY <1>4, <1>6 DEF R!ExecCli, R!Done
<1>7. CASE R!ExecInvalid
  BY <1>4, <1>7 DEF R!ExecInvalid, R!Done
<1>8. CASE R!ExecServer
  <2> DEFINE forks == cmd.name = "FORK" /\ cmd.named
             base == IF cmd.name = "FORK" THEN R!Ok ELSE R!Error
  <2>1. /\ cmd' = R!NoCommand
        /\ \/ out' = [base EXCEPT !.connected = forks]
           \/ out' = [R!Error EXCEPT !.connected = TRUE]
    BY <1>8 DEF R!ExecServer, R!Done
  <2>2. DOMAIN base = Result /\ base.reads = {}
    BY Results, Zenon
  <2> HIDE DEF forks, base
  <2>3. [base EXCEPT !.connected = forks].reads = {}
    BY <2>2, WithConnected
  <2>4. [R!Error EXCEPT !.connected = TRUE].reads = {}
    BY Results, WithConnected, Zenon
  <2>5. out'.reads = {}
    BY <2>1, <2>3, <2>4, Zenon
  <2> QED BY <2>1, <2>5, NoCommandEnough
<1>9. CASE R!ExecGone
  BY <1>4, <1>9 DEF R!ExecGone, R!Done
<1>10. CASE R!Reply
  BY <1>0, <1>10, Results, Zenon DEF R!Reply
<1> QED BY <1>1, <1>2, <1>3, <1>5, <1>6, <1>7, <1>8, <1>9, <1>10 DEF R!Next, R!Exec

\* No Exec reads past the end of values_, whatever words, keys and tokens a
\* request has and however long it is: what a parser lets through is enough
\* for the Exec that the command thread runs later.
THEOREM ReadsStayInBounds == CommandSpec => []ReadsInBounds
<1>1. CommandInit => RequestInv
  <2> SUFFICES ASSUME CommandInit PROVE RequestInv
    OBVIOUS
  <2>1. cmd = R!NoCommand /\ out = R!Nothing
    BY Zenon DEF CommandInit, R!Init
  <2>2. out.reads = {}
    BY <2>1, Results, Zenon
  <2> QED BY <2>1, <2>2, NoCommandEnough DEF RequestInv, ReadsInBounds, R!ReadsInBounds
<1>2. RequestInv /\ [CommandStep \/ ElsewhereStep]_commandVars => RequestInv'
  <2> SUFFICES ASSUME RequestInv, [CommandStep \/ ElsewhereStep]_commandVars PROVE RequestInv'
    OBVIOUS
  <2>1. CASE RequestStep
    BY <2>1, RequestTurn DEF RequestStep
  <2>2. CASE UNCHANGED request
    BY <2>2 DEF RequestInv, request, ReadsInBounds, R!ReadsInBounds, Enough
  <2> QED BY <2>1, <2>2 DEF CommandStep, BufferStep, ContainerStep, ZSetStep, DbListStep,
          ElsewhereStep, commandVars
<1>3. RequestInv => ReadsInBounds
  BY DEF RequestInv
<1> QED BY <1>1, <1>2, <1>3, PTL DEF CommandSpec

\* The keys have types.
KindsInv == kinds = [k \in Keys |-> kinds[k]]

\* Writing back the type of a key changes nothing.
LEMMA SameKinds ==
    ASSUME KindsInv, NEW k \in Keys
    PROVE  [kinds EXCEPT ![k] = kinds[k]] = kinds
BY DEF KindsInv

\* A command that makes its object neither fails on it nor wants a number.
LEMMA CreatorsSucceed ==
    ASSUME NEW name \in R!Creators
    PROVE  name \notin R!MayFail /\ R!NeedInts(name) = {}
BY Ints DEF R!Creators, R!MayFail

\* An Exec on an object that answers an error leaves its type.
LEMMA ObjectError ==
    ASSUME KindsInv, NEW k \in Keys, R!ExecObject(k), out'.reply = "error"
    PROVE  kinds' = kinds
<1> DEFINE n == Len(cmd.values)
           did == [R!Ok EXCEPT !.reads = R!Reads(cmd.name, n), !.size = n]
<1>1. did.reply = "ok"
  <2> DEFINE read == [R!Ok EXCEPT !.reads = R!Reads(cmd.name, n)]
  <2>1. DOMAIN read = Result /\ read.reply = "ok"
    BY Results, WithReads, Zenon
  <2>2. did = [read EXCEPT !.size = n]
    OBVIOUS
  <2> HIDE DEF read, did
  <2> QED BY <2>1, <2>2, WithSize
<1>2. \/ ~R!Usable(cmd, R!Found(cmd, k))
      \/ cmd.name \in R!MayFail
      \/ R!NeedInts(cmd.name) # {}
  <2>1. \/ ~R!Usable(cmd, R!Found(cmd, k))
        \/ out' = did
        \/ cmd.name \in R!MayFail
        \/ \E i \in R!NeedInts(cmd.name) : ~R!IsInt(i)
    BY Zenon DEF R!ExecObject, R!Done
  <2> HIDE DEF did
  <2> QED BY <1>1, <2>1
<1>3. R!Found(cmd, k) = kinds[k]
  <2>1. CASE cmd.name \in R!Creators
    BY <1>2, <2>1, CreatorsSucceed DEF R!Found, R!Usable
  <2>2. CASE cmd.name \notin R!Creators
    BY <2>2 DEF R!Found
  <2> QED BY <2>1, <2>2
<1>4. kinds' = [kinds EXCEPT ![k] = R!Found(cmd, k)]
  BY DEF R!ExecObject
<1> QED BY <1>3, <1>4, SameKinds

\* An Exec that answers an error leaves every type.
LEMMA RequestError ==
    ASSUME KindsInv, R!Next, cmd.name # "none", cmd' = R!NoCommand, out'.reply = "error"
    PROVE  kinds' = kinds
<1>0. R!NoCommand.name = "none"
  BY DEF R!NoCommand
<1>1. CASE R!Receive
  BY <1>0, <1>1 DEF R!Receive
<1>2. ASSUME NEW k \in Keys, R!Expire(k) PROVE kinds' = kinds
  BY <1>0, <1>2 DEF R!Expire
<1>3. ASSUME NEW k \in Keys, R!ExecDb(k) PROVE kinds' = kinds
  BY <1>3, Results, Zenon DEF R!ExecDb, R!Done
<1>4. CASE R!ExecCli \/ R!ExecInvalid \/ R!ExecServer \/ R!ExecGone \/ R!Reply
  BY <1>4 DEF R!ExecCli, R!ExecInvalid, R!ExecServer, R!ExecGone, R!Reply
<1> QED BY <1>1, <1>2, <1>3, <1>4, ObjectError DEF R!Next, R!Exec

\* A step of a request keeps a type for every key.
LEMMA KindsTurn ==
    ASSUME KindsInv, R!Next
    PROVE  KindsInv'
<1>1. \/ UNCHANGED kinds
      \/ \E k \in Keys : \E x : kinds' = [kinds EXCEPT ![k] = x]
  <2>1. CASE \E k \in Keys : R!ExecObject(k)
    BY <2>1, Zenon DEF R!ExecObject
  <2>2. CASE \E k \in Keys : R!ExecDb(k) \/ R!Expire(k)
    BY <2>2 DEF R!ExecDb, R!Expire
  <2>3. CASE R!Receive \/ R!ExecCli \/ R!ExecInvalid \/ R!ExecServer \/ R!ExecGone \/ R!Reply
    BY <2>3 DEF R!Receive, R!ExecCli, R!ExecInvalid, R!ExecServer, R!ExecGone, R!Reply
  <2> QED BY <2>1, <2>2, <2>3 DEF R!Next, R!Exec
<1> QED BY <1>1 DEF KindsInv

\* A command that is answered with the error " " leaves every key as it was,
\* for any number of keys and any tokens.
THEOREM ErrorsChangeNothing == CommandSpec => ErrorChangesNothing
<1>1. CommandInit => KindsInv
  BY Zenon DEF CommandInit, R!Init, KindsInv
<1>2. KindsInv /\ [CommandStep \/ ElsewhereStep]_commandVars => KindsInv'
  <2> SUFFICES ASSUME KindsInv, [CommandStep \/ ElsewhereStep]_commandVars PROVE KindsInv'
    OBVIOUS
  <2>1. CASE RequestStep
    BY <2>1, KindsTurn DEF RequestStep
  <2>2. CASE UNCHANGED request
    BY <2>2 DEF request, KindsInv
  <2> QED BY <2>1, <2>2 DEF CommandStep, BufferStep, ContainerStep, ZSetStep, DbListStep,
          ElsewhereStep, commandVars
<1>3. KindsInv /\ [CommandStep \/ ElsewhereStep]_commandVars
      => [cmd.name # "none" /\ out'.reply = "error" /\ cmd' = R!NoCommand => kinds' = kinds]_<<alive, kinds, cmd, out>>
  <2> SUFFICES ASSUME KindsInv, [CommandStep \/ ElsewhereStep]_commandVars,
                      cmd.name # "none", out'.reply = "error", cmd' = R!NoCommand
               PROVE  kinds' = kinds
    OBVIOUS
  <2>1. CASE RequestStep
    BY <2>1, RequestError DEF RequestStep
  <2>2. CASE UNCHANGED request
    BY <2>2 DEF request
  <2> QED BY <2>1, <2>2 DEF CommandStep, BufferStep, ContainerStep, ZSetStep, DbListStep,
          ElsewhereStep, commandVars
<1> QED BY <1>1, <1>2, <1>3, PTL DEF CommandSpec, ErrorChangesNothing, R!ErrorChangesNothing, R!vars

(***************************************************************************)
(* Lists.                                                                  *)
(***************************************************************************)
\* The elements of the list, of any number.
ListInv == list \in Seq(Values)

\* Multiples of n differ by at least n.
LEMMA Apart ==
    ASSUME NEW n \in Nat \ {0}, NEW p \in Int, NEW q \in Int, p < q
    PROVE  n * p + n <= n * q
<1> DEFINE d == q - p
<1>1. d \in Nat \ {0}
  OBVIOUS
<1>2. n * q = n * p + n * d
  OBVIOUS
<1>3. n * d >= n
  <2> HIDE DEF d
  <2> QED BY <1>1, Multiples
<1> HIDE DEF d
<1> QED BY <1>1, <1>2, <1>3

\* A quotient with its remainder.
LEMMA Division ==
    ASSUME NEW n \in Nat \ {0}, NEW i \in Int
    PROVE  /\ i \div n \in Int /\ i % n \in 0..n - 1
           /\ i = n * (i \div n) + (i % n)
OBVIOUS

\* There is one quotient with a remainder below n.
LEMMA OneRemainder ==
    ASSUME NEW n \in Nat \ {0}, NEW p \in Int, NEW q \in Int,
           NEW r \in 0..n - 1, NEW t \in 0..n - 1, n * p + r = n * q + t
    PROVE  r = t
<1> DEFINE a == n * p
           b == n * q
<1>1. a \in Int /\ b \in Int /\ a + r = b + t
  OBVIOUS
<1>2. CASE p < q
  <2>1. a + n <= b
    BY <1>2, Apart
  <2> HIDE DEF a, b
  <2> QED BY <1>1, <2>1
<1>3. CASE q < p
  <2>1. b + n <= a
    BY <1>3, Apart
  <2> HIDE DEF a, b
  <2> QED BY <1>1, <2>1
<1>4. CASE p = q
  <2>1. a = b
    BY <1>4
  <2> HIDE DEF a, b
  <2> QED BY <1>1, <2>1
<1> QED BY <1>2, <1>3, <1>4

\* legalRange gives the index modulo the length, and the length itself for
\* the negative multiples of it.
LEMMA LegalRangeWraps ==
    ASSUME NEW n \in Nat \ {0}, NEW i \in Int
    PROVE  /\ i >= 0 \/ i % n # 0 => C!LegalRange(i, n) = i % n
           /\ ~(i >= 0 \/ i % n # 0) => C!LegalRange(i, n) = n
<1>1. CASE i >= 0
  BY <1>1 DEF C!LegalRange
<1>2. CASE i < 0
  <2> DEFINE q == (-i) \div n
             r == (-i) % n
             m == i % n
             k == i \div n
  <2>1. q \in Int /\ r \in 0..n - 1 /\ -i = n * q + r
    BY Division
  <2>2. k \in Int /\ m \in 0..n - 1 /\ i = n * k + m
    BY Division
  <2>3. C!LegalRange(i, n) = i + (q + 1) * n
    BY <1>2 DEF C!LegalRange
  <2> HIDE DEF q, r, m, k
  <2>4. C!LegalRange(i, n) = n - r
    BY <2>1, <2>3
  <2>5. CASE r = 0
    <3>1. n * (-q) + 0 = n * k + m
      BY <2>1, <2>2, <2>5
    <3>2. m = 0
      BY <2>1, <2>2, <3>1, OneRemainder
    <3> QED BY <1>2, <2>4, <2>5, <3>2 DEF m
  <2>6. CASE r # 0
    <3>1. n * (-q - 1) + (n - r) = n * k + m
      BY <2>1, <2>2
    <3>2. n - r \in 0..n - 1 /\ -q - 1 \in Int
      BY <2>1, <2>6
    <3> DEFINE t == n - r
               p == -q - 1
    <3>3. t \in 0..n - 1 /\ p \in Int /\ n * p + t = n * k + m
      BY <3>1, <3>2
    <3> HIDE DEF t, p
    <3>4. t = m
      BY <2>2, <3>3, OneRemainder
    <3>5. m # 0
      BY <2>1, <2>6, <3>4 DEF t
    <3> QED BY <1>2, <2>4, <3>4, <3>5 DEF m, t
  <2> QED BY <2>5, <2>6
<1> QED BY <1>1, <1>2

\* An index of legalRange is at most the length.
LEMMA LegalRangeBounds ==
    ASSUME NEW n \in Nat \ {0}, NEW i \in Int
    PROVE  C!LegalRange(i, n) \in 0..n
<1>1. i % n \in 0..n - 1
  BY Division
<1> QED BY <1>1, LegalRangeWraps

\* What LTRIM leaves is a sequence.
LEMMA Trimmed ==
    ASSUME NEW S, NEW s \in Seq(S), NEW b \in 0..Len(s), NEW e \in 0..Len(s)
    PROVE  SubSeq(s, 1, b) \o SubSeq(s, e + 2, Len(s)) \in Seq(S)
<1>1. SubSeq(s, 1, b) \in Seq(S)
  OBVIOUS
<1>2. SubSeq(s, e + 2, Len(s)) \in Seq(S)
  OBVIOUS
<1> QED BY <1>1, <1>2

\* A step of the list or the sets keeps the list one of values.
LEMMA ListTurn ==
    ASSUME ListInv, C!Next
    PROVE  ListInv'
<1> SUFFICES list' \in Seq(Values)
  BY DEF ListInv
<1>0. list \in Seq(Values) /\ Len(list) \in Nat /\ (list # <<>> => Len(list) \in Nat \ {0})
  BY DEF ListInv
<1>1. ASSUME NEW v \in Values, C!PushFront(v) \/ C!PushBack(v) PROVE list' \in Seq(Values)
  <2>1. <<v>> \in Seq(Values) /\ <<v>> \o list \in Seq(Values) /\ Append(list, v) \in Seq(Values)
    BY <1>0
  <2> QED BY <1>1, <2>1, Zenon DEF C!PushFront, C!PushBack
<1>2. CASE C!PopFront \/ C!PopBack
  <2>1. list # <<>> => Tail(list) \in Seq(Values) /\ SubSeq(list, 1, Len(list) - 1) \in Seq(Values)
    BY <1>0
  <2> QED BY <1>0, <1>2, <2>1 DEF C!PopFront, C!PopBack
<1>3. ASSUME NEW i \in Indices, NEW v \in Values, C!Set(i, v) PROVE list' \in Seq(Values)
  <2> DEFINE at == C!LegalRange(i, Len(list))
  <2>1. CASE list = <<>>
    BY <1>0, <1>3, <2>1 DEF C!Set
  <2>2. CASE list # <<>>
    <3>1. at \in 0..Len(list)
      BY <1>0, <2>2, LegalRangeBounds, CommandsAssumption
    <3>2. list' = IF at < Len(list) THEN [list EXCEPT ![at + 1] = v] ELSE list
      BY <1>3, <2>2 DEF C!Set
    <3> HIDE DEF at
    <3> QED BY <1>0, <3>1, <3>2
  <2> QED BY <2>1, <2>2
<1>4. ASSUME NEW i \in Indices, NEW j \in Indices, C!Trim(i, j) PROVE list' \in Seq(Values)
  <2> DEFINE begin == C!LegalRange(i, Len(list))
             stop == C!LegalRange(j, Len(list))
  <2>1. CASE list' = list
    BY <1>0, <2>1
  <2>2. CASE list' # list
    <3>1. list # <<>> /\ list' = SubSeq(list, 1, begin) \o SubSeq(list, stop + 2, Len(list))
      BY <1>4, <2>2, Zenon DEF C!Trim
    <3>2. begin \in 0..Len(list) /\ stop \in 0..Len(list)
      BY <1>0, <3>1, LegalRangeBounds, CommandsAssumption
    <3> HIDE DEF begin, stop
    <3> QED BY <1>0, <3>1, <3>2, Trimmed
  <2> QED BY <2>1, <2>2
<1>5. ASSUME UNCHANGED list PROVE list' \in Seq(Values)
  BY <1>0, <1>5
<1>6. ASSUME NEW i \in Indices, C!Index(i) \/ \E v \in Values : C!Rem(i, v)
      PROVE  UNCHANGED list
  BY <1>6, Zenon DEF C!Index, C!Rem
<1>7. ASSUME NEW s \in Sets, C!Pop(s) \/ \E v \in Values : C!Add(s, v) \/ C!SetRem(s, v)
      PROVE  UNCHANGED list
  BY <1>7, Zenon DEF C!Pop, C!Add, C!SetRem
<1> QED BY <1>1, <1>2, <1>3, <1>4, <1>5, <1>6, <1>7, Zenon DEF C!Next

\* LINDEX counts modulo the length, from either end, for lists of any length
\* and any index but the negative multiples of the length.
THEOREM IndicesWrapAround == CommandSpec => IndicesWrap
<1>1. CommandInit => ListInv
  <2>1. CommandInit => list = <<>>
    BY Zenon DEF CommandInit, C!Init
  <2>2. <<>> \in Seq(Values)
    OBVIOUS
  <2> QED BY <2>1, <2>2 DEF ListInv
<1>2. ListInv /\ [CommandStep \/ ElsewhereStep]_commandVars => ListInv'
  <2> SUFFICES ASSUME ListInv, [CommandStep \/ ElsewhereStep]_commandVars PROVE ListInv'
    OBVIOUS
  <2>1. CASE ContainerStep
    BY <2>1, ListTurn DEF ContainerStep
  <2>2. CASE UNCHANGED container
    BY <2>2 DEF container, ListInv
  <2> QED BY <2>1, <2>2 DEF CommandStep, BufferStep, ZSetStep, RequestStep, DbListStep,
          ElsewhereStep, commandVars
<1>3. ListInv
      => [\A i \in Indices :
            /\ list # <<>> /\ ~(i < 0 /\ i % Len(list) = 0)
            /\ C!Index(i)
            => ret' = list[(i % Len(list)) + 1]]_<<list, sets, ret, alive>>
  <2> SUFFICES ASSUME ListInv, NEW i \in Indices,
                      list # <<>>, ~(i < 0 /\ i % Len(list) = 0), C!Index(i)
               PROVE  ret' = list[(i % Len(list)) + 1]
    OBVIOUS
  <2> DEFINE n == Len(list)
  <2>1. n \in Nat \ {0} /\ i \in Int
    BY CommandsAssumption DEF ListInv
  <2>2. i % n \in 0..n - 1 /\ C!LegalRange(i, n) = i % n
    <3>1. i % n \in 0..n - 1
      BY <2>1, Division, Zenon
    <3>2. i >= 0 \/ i % n # 0
      BY <2>1
    <3> HIDE DEF n
    <3> QED BY <2>1, <3>1, <3>2, LegalRangeWraps
  <2>3. C!LegalRange(i, n) < n => ret' = list[C!LegalRange(i, n) + 1]
    BY DEF C!Index
  <2> HIDE DEF n
  <2>4. i % n < n
    BY <2>1, <2>2
  <2> QED BY <2>2, <2>3, <2>4 DEF n
<1> QED BY <1>1, <1>2, <1>3, PTL DEF CommandSpec, IndicesWrap, C!IndicesWrap, C!vars

(***************************************************************************)
(* Sorted sets.                                                            *)
(***************************************************************************)
\* A node: a member and its score.
Scored == [mem : Members, score : Int]

\* Nodes in the order of their scores, and one for each member.
InOrder(r) == \A i, j \in 1..Len(r) : i < j => r[i].score <= r[j].score
OneEach(r) == \A i, j \in 1..Len(r) : r[i].mem = r[j].mem => i = j

\* Mirrored, by positions: what makes it inductive.
Mirrors(q, members, r) ==
    /\ q \in Seq(Scored) /\ r \in Seq(Scored) /\ members \subseteq Members
    /\ OneEach(q) /\ OneEach(r)
    /\ {e.mem : e \in Z!Nodes(q)} = members
    /\ Z!Nodes(r) = Z!Nodes(q)
    /\ InOrder(r)

\* The inductive invariant of the sorted set.
ZSetInv == Mirrors(sequence, memberMap, rank) /\ fault = FALSE

\* What a sequence of nodes holds.
LEMMA ScoredType ==
    ASSUME NEW r \in Seq(Scored)
    PROVE  /\ Len(r) \in Nat /\ DOMAIN r = 1..Len(r)
           /\ \A i \in 1..Len(r) : /\ r[i] \in Scored
                                   /\ r[i].mem \in Members /\ r[i].score \in Int
<1>1. Len(r) \in Nat /\ DOMAIN r = 1..Len(r) /\ \A i \in 1..Len(r) : r[i] \in Scored
  OBVIOUS
<1>2. \A e \in Scored : e.mem \in Members /\ e.score \in Int
  BY DEF Scored
<1> QED BY <1>1, <1>2

\* The nodes of a sequence are its elements.
LEMMA NodesIs ==
    ASSUME NEW r \in Seq(Scored), NEW x
    PROVE  x \in Z!Nodes(r) <=> \E i \in 1..Len(r) : x = r[i]
<1>1. DOMAIN r = 1..Len(r)
  OBVIOUS
<1> QED BY <1>1, Zenon DEF Z!Nodes

\* Their members.
LEMMA MembersIs ==
    ASSUME NEW r \in Seq(Scored)
    PROVE  {e.mem : e \in Z!Nodes(r)} = {r[i].mem : i \in 1..Len(r)}
<1>1. DOMAIN r = 1..Len(r)
  OBVIOUS
<1>2. Z!Nodes(r) = {r[i] : i \in 1..Len(r)}
  BY <1>1, Zenon DEF Z!Nodes
<1> QED BY <1>2, Zenon

\* upper_bound finds the first entry beyond s, in order or not.
LEMMA UpperBoundIs ==
    ASSUME NEW r \in Seq(Scored), NEW s \in Int
    PROVE  /\ Z!UpperBound(r, s) \in 1..Len(r) + 1
           /\ \A j \in 1..Z!UpperBound(r, s) - 1 : r[j].score <= s
           /\ Z!UpperBound(r, s) <= Len(r) => r[Z!UpperBound(r, s)].score > s
<1> DEFINE First(i) == /\ \A j \in 1..i - 1 : r[j].score <= s
                       /\ i <= Len(r) => r[i].score > s
           N == {n \in 0..Len(r) : \/ \A j \in 1..n : r[j].score <= s
                                   \/ \E i \in 1..n : First(i)}
<1>1. Len(r) \in Nat /\ \A i \in 1..Len(r) : r[i].score \in Int
  BY ScoredType
<1>2. 0 \in N
  BY <1>1
<1>3. ASSUME NEW n \in 0..Len(r), n \in N, n < Len(r) PROVE n + 1 \in N
  <2>1. n + 1 \in 1..Len(r) /\ \A j \in 1..n + 1 : j \in 1..n \/ j = n + 1
    BY <1>1, <1>3
  <2>2. CASE \E i \in 1..n : First(i)
    <3>1. PICK i \in 1..n : First(i)
      BY <2>2
    <3>2. i \in 1..n + 1
      BY <2>1
    <3> HIDE DEF First
    <3>3. \E k \in 1..n + 1 : First(k)
      BY <3>1, <3>2
    <3> QED BY <2>1, <3>3
  <2>3. CASE \A j \in 1..n : r[j].score <= s
    <3>1. CASE r[n + 1].score <= s
      BY <2>1, <2>3, <3>1
    <3>2. CASE r[n + 1].score > s
      <4>1. First(n + 1) /\ n + 1 \in 1..n + 1
        BY <2>1, <2>3, <3>2
      <4> HIDE DEF First
      <4>2. \E k \in 1..n + 1 : First(k)
        BY <4>1
      <4> QED BY <2>1, <4>2
    <3> QED BY <1>1, <2>1, <3>1, <3>2
  <2> QED BY <1>3, <2>2, <2>3
<1>4. Len(r) \in N
  <2> HIDE DEF N
  <2>1. 0..Len(r) \subseteq N
    BY <1>1, <1>2, <1>3, InductUpTo, Zenon
  <2> QED BY <1>1, <2>1
<1>5. \E i \in 1..Len(r) + 1 : First(i)
  <2>1. CASE \A j \in 1..Len(r) : r[j].score <= s
    <3>1. First(Len(r) + 1) /\ Len(r) + 1 \in 1..Len(r) + 1
      BY <1>1, <2>1
    <3> QED BY <3>1, Zenon
  <2>2. ASSUME NEW i \in 1..Len(r), First(i) PROVE \E k \in 1..Len(r) + 1 : First(k)
    <3>1. i \in 1..Len(r) + 1
      BY <1>1
    <3> QED BY <2>2, <3>1, Zenon
  <2> QED BY <1>4, <2>1, <2>2
<1>6. Z!UpperBound(r, s) = CHOOSE i \in 1..Len(r) + 1 : First(i)
  BY DEF Z!UpperBound
<1>7. Z!UpperBound(r, s) \in 1..Len(r) + 1 /\ First(Z!UpperBound(r, s))
  <2> HIDE DEF First
  <2> QED BY <1>5, <1>6
<1> QED BY <1>7

\* q is r with the entry e at place it, the scores before it no greater and
\* those after it greater.
Inserts(q, r, e, it) ==
    /\ \A j \in 1..it - 1 : r[j].score <= e.score
    /\ it <= Len(r) => r[it].score > e.score
    /\ q \in Seq(Scored)
    /\ Len(q) = Len(r) + 1
    /\ q[it] = e
    /\ \A i \in 1..it - 1 : q[i] = r[i]
    /\ \A i \in it..Len(r) : q[i + 1] = r[i]

\* Where the entries of a map are after an insert.
LEMMA InsertAt ==
    ASSUME NEW r \in Seq(Scored), NEW s \in Int, NEW m \in Members
    PROVE  \E it \in 1..Len(r) + 1 :
             Inserts(Z!Insert(r, s, m), r, [mem |-> m, score |-> s], it)
<1> DEFINE it == Z!UpperBound(r, s)
           q == Z!Insert(r, s, m)
<1>1. /\ it \in 1..Len(r) + 1
      /\ \A j \in 1..it - 1 : r[j].score <= s
      /\ it <= Len(r) => r[it].score > s
  BY UpperBoundIs, Zenon
<1>2. q = [i \in 1..Len(r) + 1 |->
             CASE i < it -> r[i] [] i = it -> [mem |-> m, score |-> s] [] i > it -> r[i - 1]]
  BY DEF Z!Insert
<1> HIDE DEF it, q
<1>3. [mem |-> m, score |-> s] \in Scored /\ Len(r) \in Nat
  BY DEF Scored
<1>4. ASSUME NEW i \in 1..Len(r) + 1
      PROVE  /\ q[i] \in Scored
             /\ i < it => q[i] = r[i]
             /\ i = it => q[i] = [mem |-> m, score |-> s]
             /\ i > it => q[i] = r[i - 1]
  <2>1. q[i] = CASE i < it -> r[i] [] i = it -> [mem |-> m, score |-> s] [] i > it -> r[i - 1]
    BY <1>2, Zenon
  <2>2. i < it \/ i = it \/ i > it
    BY <1>1, <1>3
  <2>3. CASE i < it
    BY <1>1, <1>3, <2>1, <2>3
  <2>4. CASE i = it
    BY <1>1, <1>3, <2>1, <2>4
  <2>5. CASE i > it
    BY <1>1, <1>3, <2>1, <2>5
  <2> QED BY <1>1, <1>3, <2>2, <2>3, <2>4, <2>5
<1>5. q \in [1..Len(r) + 1 -> Scored]
  BY <1>2, <1>4, Zenon
<1>6. q \in Seq(Scored) /\ Len(q) = Len(r) + 1
  BY <1>3, <1>5
<1>7. \A i \in 1..it - 1 : q[i] = r[i]
  BY <1>1, <1>3, <1>4
<1>8. \A i \in it..Len(r) : q[i + 1] = r[i]
  BY <1>1, <1>3, <1>4
<1>9. q[it] = [mem |-> m, score |-> s]
  BY <1>1, <1>4
<1>10. Inserts(q, r, [mem |-> m, score |-> s], it)
  BY <1>1, <1>6, <1>7, <1>8, <1>9 DEF Inserts
<1> QED BY <1>1, <1>10, Zenon DEF q

\* An insert adds one entry and keeps the order.
LEMMA InsertIs ==
    ASSUME NEW r \in Seq(Scored), NEW s \in Int, NEW m \in Members
    PROVE  /\ Z!Insert(r, s, m) \in Seq(Scored)
           /\ Z!Nodes(Z!Insert(r, s, m)) = Z!Nodes(r) \cup {[mem |-> m, score |-> s]}
           /\ InOrder(r) => InOrder(Z!Insert(r, s, m))
           /\ OneEach(r) /\ (\A i \in 1..Len(r) : r[i].mem # m) => OneEach(Z!Insert(r, s, m))
<1> DEFINE q == Z!Insert(r, s, m)
           e == [mem |-> m, score |-> s]
<1>0. PICK it \in 1..Len(r) + 1 : Inserts(q, r, e, it)
  BY InsertAt, Zenon
<1>2. e.mem = m /\ e.score = s
  OBVIOUS
<1> HIDE DEF q, e
<1>1. /\ \A j \in 1..it - 1 : r[j].score <= s
      /\ it <= Len(r) => r[it].score > s
      /\ q \in Seq(Scored) /\ Len(q) = Len(r) + 1 /\ q[it] = e
      /\ \A i \in 1..it - 1 : q[i] = r[i]
      /\ \A i \in it..Len(r) : q[i + 1] = r[i]
  BY <1>0, <1>2, Zenon DEF Inserts
<1>3. Len(r) \in Nat /\ \A i \in 1..Len(r) : r[i].score \in Int
  BY ScoredType
<1>4. ASSUME NEW i \in 1..Len(q)
      PROVE  \/ i < it /\ i \in 1..Len(r) /\ q[i] = r[i]
             \/ i = it /\ q[i] = e
             \/ i > it /\ i - 1 \in it..Len(r) /\ q[i] = r[i - 1]
  <2>1. CASE i < it
    BY <1>1, <1>3, <2>1
  <2>2. CASE i = it
    BY <1>1, <2>2
  <2>3. CASE i > it
    <3>1. i - 1 \in it..Len(r) /\ (i - 1) + 1 = i
      BY <1>1, <1>3, <2>3
    <3> QED BY <1>1, <2>3, <3>1
  <2> QED BY <1>1, <1>3, <2>1, <2>2, <2>3
<1>5. Z!Nodes(q) = Z!Nodes(r) \cup {e}
  <2>1. ASSUME NEW x \in Z!Nodes(q) PROVE x \in Z!Nodes(r) \cup {e}
    <3>1. PICK i \in 1..Len(q) : x = q[i]
      BY <1>1, <2>1, NodesIs
    <3>2. x = e \/ \E k \in 1..Len(r) : x = r[k]
      BY <1>1, <1>3, <1>4, <3>1
    <3> QED BY <3>2, NodesIs
  <2>2. ASSUME NEW x \in Z!Nodes(r) PROVE x \in Z!Nodes(q)
    <3>1. PICK i \in 1..Len(r) : x = r[i]
      BY <2>2, NodesIs
    <3>2. CASE i < it
      <4>1. i \in 1..it - 1 /\ i \in 1..Len(q) /\ x = q[i]
        BY <1>1, <1>3, <3>1, <3>2
      <4> QED BY <1>1, <4>1, NodesIs
    <3>3. CASE i >= it
      <4>1. i \in it..Len(r) /\ i + 1 \in 1..Len(q)
        BY <1>1, <1>3, <3>3
      <4>2. x = q[i + 1]
        BY <1>1, <3>1, <4>1
      <4> QED BY <1>1, <4>1, <4>2, NodesIs, Zenon
    <3> QED BY <1>1, <1>3, <3>2, <3>3
  <2>3. e \in Z!Nodes(q)
    <3>1. it \in 1..Len(q)
      BY <1>1
    <3> QED BY <1>1, <3>1, NodesIs
  <2> QED BY <2>1, <2>2, <2>3
<1>6. ASSUME InOrder(r) PROVE InOrder(q)
  <2> SUFFICES ASSUME NEW i \in 1..Len(q), NEW j \in 1..Len(q), i < j
               PROVE  q[i].score <= q[j].score
    BY DEF InOrder
  <2>1. \A k \in it..Len(r) : s < r[k].score
    <3> SUFFICES ASSUME NEW k \in it..Len(r) PROVE s < r[k].score
      OBVIOUS
    <3>1. it \in 1..Len(r) /\ k \in 1..Len(r) /\ s < r[it].score
      BY <1>1, <1>3
    <3>2. k = it \/ r[it].score <= r[k].score
      BY <1>3, <1>6, <3>1 DEF InOrder
    <3> QED BY <1>3, <3>1, <3>2
  <2>2. CASE i < it
    <3>1. i \in 1..Len(r) /\ q[i] = r[i] /\ r[i].score <= s
      BY <1>1, <1>3, <1>4, <2>2
    <3>2. CASE j < it
      <4>1. j \in 1..Len(r) /\ q[j] = r[j]
        BY <1>1, <1>3, <1>4, <3>2
      <4> QED BY <1>6, <3>1, <4>1 DEF InOrder
    <3>3. CASE j = it
      BY <1>1, <1>2, <3>1, <3>3
    <3>4. CASE j > it
      <4>1. j - 1 \in 1..Len(r) /\ q[j] = r[j - 1] /\ s < r[j - 1].score
        BY <1>1, <1>3, <1>4, <2>1, <3>4
      <4> QED BY <1>3, <3>1, <4>1
    <3> QED BY <1>1, <1>3, <3>2, <3>3, <3>4
  <2>3. CASE i >= it
    <3>1. j > it /\ j - 1 \in it..Len(r) /\ j - 1 \in 1..Len(r) /\ q[j] = r[j - 1]
      BY <1>1, <1>3, <1>4, <2>3
    <3>2. CASE i = it
      BY <1>1, <1>2, <1>3, <2>1, <3>1, <3>2
    <3>3. CASE i > it
      <4>1. i - 1 \in 1..Len(r) /\ q[i] = r[i - 1] /\ i - 1 < j - 1
        BY <1>1, <1>3, <1>4, <3>3
      <4> QED BY <1>6, <3>1, <4>1 DEF InOrder
    <3> QED BY <1>1, <1>3, <2>3, <3>2, <3>3
  <2> QED BY <1>1, <1>3, <2>2, <2>3
<1>7. ASSUME OneEach(r), \A i \in 1..Len(r) : r[i].mem # m PROVE OneEach(q)
  <2> SUFFICES ASSUME NEW i \in 1..Len(q), NEW j \in 1..Len(q), q[i].mem = q[j].mem
               PROVE  i = j
    BY DEF OneEach
  <2>1. ASSUME NEW k \in 1..Len(q), k # it
        PROVE  LET n == IF k < it THEN k ELSE k - 1 IN n \in 1..Len(r) /\ q[k] = r[n]
    BY <1>1, <1>3, <1>4, <2>1
  <2>2. \A k \in 1..Len(q) : k # it => q[k].mem # m
    BY <1>7, <2>1
  <2>3. q[it].mem = m /\ it \in 1..Len(q)
    BY <1>1, <1>2
  <2>4. CASE i = it \/ j = it
    BY <2>2, <2>3, <2>4
  <2>5. CASE i # it /\ j # it
    <3> DEFINE a == IF i < it THEN i ELSE i - 1
               b == IF j < it THEN j ELSE j - 1
    <3>1. a \in 1..Len(r) /\ b \in 1..Len(r) /\ q[i] = r[a] /\ q[j] = r[b]
      BY <2>1, <2>5
    <3>2. a = b
      <4> HIDE DEF a, b
      <4> QED BY <1>7, <3>1 DEF OneEach
    <3> QED BY <1>1, <2>5, <3>2
  <2> QED BY <2>4, <2>5
<1> QED BY <1>1, <1>5, <1>6, <1>7 DEF q, e

\* An erase takes one entry out and keeps the order of the others.
LEMMA EraseIs ==
    ASSUME NEW r \in Seq(Scored), OneEach(r), NEW it \in 1..Len(r)
    PROVE  /\ Z!Erase(r, it) \in Seq(Scored)
           /\ OneEach(Z!Erase(r, it))
           /\ Z!Nodes(Z!Erase(r, it)) = Z!Nodes(r) \ {r[it]}
           /\ InOrder(r) => InOrder(Z!Erase(r, it))
<1> DEFINE q == Z!Erase(r, it)
           from(i) == IF i < it THEN i ELSE i + 1
<1>1. Len(r) \in Nat /\ Len(r) - 1 \in Nat /\ \A i \in 1..Len(r) : r[i] \in Scored
  BY ScoredType
<1>2. q = [i \in 1..Len(r) - 1 |-> IF i < it THEN r[i] ELSE r[i + 1]]
  BY DEF Z!Erase
<1> HIDE DEF q
<1>3. ASSUME NEW i \in 1..Len(r) - 1
      PROVE from(i) \in 1..Len(r) /\ from(i) # it /\ q[i] = r[from(i)]
  BY <1>1, <1>2
<1>4. \A i, j \in 1..Len(r) - 1 : i < j => from(i) < from(j)
  BY <1>1
<1>5. \A k \in 1..Len(r) : k # it => \E i \in 1..Len(r) - 1 : from(i) = k
  <2> SUFFICES ASSUME NEW k \in 1..Len(r), k # it PROVE \E i \in 1..Len(r) - 1 : from(i) = k
    OBVIOUS
  <2>1. CASE k < it
    <3>1. k \in 1..Len(r) - 1 /\ from(k) = k
      BY <1>1, <2>1
    <3> QED BY <3>1, Zenon
  <2>2. CASE k > it
    <3>1. k - 1 \in 1..Len(r) - 1 /\ from(k - 1) = k
      BY <1>1, <2>2
    <3> QED BY <3>1, Zenon
  <2> QED BY <1>1, <2>1, <2>2
<1> HIDE DEF from
<1>6. q \in Seq(Scored) /\ Len(q) = Len(r) - 1
  <2>1. q \in [1..Len(r) - 1 -> Scored]
    BY <1>1, <1>2, <1>3
  <2> QED BY <1>1, <2>1
<1>7. OneEach(q)
  <2> SUFFICES ASSUME NEW i \in 1..Len(q), NEW j \in 1..Len(q), q[i].mem = q[j].mem
               PROVE  i = j
    BY DEF OneEach
  <2>1. from(i) = from(j)
    BY <1>3, <1>6 DEF OneEach
  <2>2. from(i) \in Int /\ from(j) \in Int
    BY <1>3, <1>6
  <2> QED BY <1>4, <1>6, <2>1, <2>2
<1>8. Z!Nodes(q) = Z!Nodes(r) \ {r[it]}
  <2>1. ASSUME NEW x \in Z!Nodes(q) PROVE x \in Z!Nodes(r) /\ x # r[it]
    <3>1. PICK i \in 1..Len(r) - 1 : x = q[i]
      BY <1>6, <2>1, NodesIs
    <3>2. from(i) \in 1..Len(r) /\ from(i) # it /\ x = r[from(i)]
      BY <1>3, <3>1
    <3>3. x # r[it]
      BY <3>2 DEF OneEach
    <3> QED BY <3>2, <3>3, NodesIs
  <2>2. ASSUME NEW x \in Z!Nodes(r), x # r[it] PROVE x \in Z!Nodes(q)
    <3>1. PICK k \in 1..Len(r) : x = r[k]
      BY <2>2, NodesIs
    <3>2. PICK i \in 1..Len(r) - 1 : from(i) = k
      BY <1>5, <2>2, <3>1
    <3>3. x = q[i]
      BY <1>3, <3>1, <3>2
    <3> QED BY <1>6, <3>3, NodesIs
  <2> QED BY <2>1, <2>2
<1>9. ASSUME InOrder(r) PROVE InOrder(q)
  <2> SUFFICES ASSUME NEW i \in 1..Len(q), NEW j \in 1..Len(q), i < j
               PROVE  q[i].score <= q[j].score
    BY DEF InOrder
  <2>1. from(i) < from(j)
    BY <1>4, <1>6
  <2>2. from(i) \in 1..Len(r) /\ from(j) \in 1..Len(r) /\ q[i] = r[from(i)] /\ q[j] = r[from(j)]
    BY <1>3, <1>6
  <2> QED BY <1>9, <2>1, <2>2 DEF InOrder
<1> QED BY <1>6, <1>7, <1>8, <1>9 DEF q

\* Where the node of member m is in q, and its score.
NodeIn(q, m) == CHOOSE i \in DOMAIN q : q[i].mem = m
ScoreIn(q, m) == q[NodeIn(q, m)].score

\* The node of a member is found where it is.
LEMMA NodeInIs ==
    ASSUME NEW q \in Seq(Scored), OneEach(q), NEW i \in 1..Len(q)
    PROVE  NodeIn(q, q[i].mem) = i /\ ScoreIn(q, q[i].mem) = q[i].score
<1>1. DOMAIN q = 1..Len(q)
  BY ScoredType
<1>2. NodeIn(q, q[i].mem) \in 1..Len(q) /\ q[NodeIn(q, q[i].mem)].mem = q[i].mem
  BY <1>1 DEF NodeIn
<1>3. NodeIn(q, q[i].mem) = i
  BY <1>2 DEF OneEach
<1> QED BY <1>3 DEF ScoreIn

\* A member of the map has one node.
LEMMA NodeOfMember ==
    ASSUME NEW q, NEW members, NEW r, Mirrors(q, members, r), NEW m \in members
    PROVE  /\ NodeIn(q, m) \in 1..Len(q) /\ m \in Members
           /\ q[NodeIn(q, m)] = [mem |-> m, score |-> ScoreIn(q, m)]
           /\ ScoreIn(q, m) \in Int
<1>1. PICK e \in Z!Nodes(q) : e.mem = m
  BY DEF Mirrors
<1>2. PICK i \in 1..Len(q) : e = q[i]
  BY <1>1, NodesIs DEF Mirrors
<1>3. NodeIn(q, m) = i /\ ScoreIn(q, m) = e.score /\ q[i] = e
  BY <1>1, <1>2, NodeInIs DEF Mirrors
<1>4. q[i] \in Scored
  BY ScoredType DEF Mirrors
<1>5. e.mem \in Members /\ e.score \in Int /\ e = [mem |-> e.mem, score |-> e.score]
  BY <1>2, <1>4 DEF Scored
<1> QED BY <1>1, <1>2, <1>3, <1>5

\* The instance looks members up in sequence_list_.
LEMMA ScoreIs ==
    ASSUME NEW m
    PROVE  /\ Z!NodeOf(m) = NodeIn(sequence, m) /\ Z!Score(m) = ScoreIn(sequence, m)
           /\ Z!Score(m)' = ScoreIn(sequence', m)
BY DEF Z!NodeOf, Z!Score, NodeIn, ScoreIn

\* A scan from a place no member of the same score is before finds the member.
LEMMA ScanIs ==
    ASSUME Mirrors(sequence, memberMap, rank), NEW m \in memberMap, NEW from \in 1..Len(rank) + 1,
           \A j \in 1..from - 1 : rank[j].score < ScoreIn(sequence, m)
    PROVE  /\ Z!Scan(from, m) \in 1..Len(rank)
           /\ rank[Z!Scan(from, m)] = [mem |-> m, score |-> ScoreIn(sequence, m)]
<1> DEFINE e == [mem |-> m, score |-> ScoreIn(sequence, m)]
           found == {i \in from..Len(rank) : rank[i].mem = m}
<1>1. e \in Z!Nodes(sequence) /\ e.mem = m /\ e.score = ScoreIn(sequence, m) /\ e.score \in Int
  <2>1. /\ NodeIn(sequence, m) \in 1..Len(sequence)
        /\ sequence[NodeIn(sequence, m)] = e
        /\ ScoreIn(sequence, m) \in Int
    BY NodeOfMember
  <2>2. sequence \in Seq(Scored)
    BY DEF Mirrors
  <2>3. e \in Z!Nodes(sequence)
    <3> HIDE DEF e
    <3> QED BY <2>1, <2>2, NodesIs
  <2> QED BY <2>1, <2>3
<1> HIDE DEF e
<1>2. rank \in Seq(Scored) /\ Len(rank) \in Nat
  BY ScoredType DEF Mirrors
<1>3. PICK k \in 1..Len(rank) : rank[k] = e
  BY <1>1, <1>2, NodesIs DEF Mirrors
<1>4. k \in from..Len(rank)
  <2>1. k \notin 1..from - 1
    BY <1>1, <1>3
  <2> QED BY <1>2, <1>3, <2>1
<1>5. found = {k}
  <2>1. \A i \in from..Len(rank) : i \in 1..Len(rank)
    BY <1>2
  <2> QED BY <1>1, <1>3, <1>4, <2>1 DEF Mirrors, OneEach
<1>6. Z!Scan(from, m) = IF found = {} THEN 0 ELSE CHOOSE i \in found : \A j \in found : i <= j
  BY DEF Z!Scan
<1>7. Z!Scan(from, m) = k
  <2> HIDE DEF found
  <2>1. k <= k
    BY <1>3
  <2>2. \E i \in found : \A j \in found : i <= j
    BY <1>5, <2>1
  <2> QED BY <1>5, <1>6, <2>2
<1> QED BY <1>3, <1>7 DEF e

\* A node gives its member's score.
LEMMA ScoreOfNode ==
    ASSUME NEW q \in Seq(Scored), OneEach(q), NEW e \in Z!Nodes(q)
    PROVE  ScoreIn(q, e.mem) = e.score
<1>1. PICK i \in 1..Len(q) : e = q[i]
  BY NodesIs
<1> QED BY <1>1, NodeInIs

\* A score is the same wherever the node is.
LEMMA SameScore ==
    ASSUME NEW q \in Seq(Scored), NEW members, NEW r, Mirrors(q, members, r), NEW m \in members,
           NEW p \in Seq(Scored), OneEach(p), [mem |-> m, score |-> ScoreIn(q, m)] \in Z!Nodes(p)
    PROVE  ScoreIn(p, m) = ScoreIn(q, m)
<1> DEFINE e == [mem |-> m, score |-> ScoreIn(q, m)]
<1>1. e.mem = m /\ e.score = ScoreIn(q, m) /\ e \in Z!Nodes(p)
  OBVIOUS
<1> HIDE DEF e
<1> QED BY <1>1, ScoreOfNode

\* A node appended.
LEMMA AppendIs ==
    ASSUME NEW q \in Seq(Scored), OneEach(q), NEW e \in Scored,
           \A x \in Z!Nodes(q) : x.mem # e.mem
    PROVE  /\ Append(q, e) \in Seq(Scored) /\ OneEach(Append(q, e))
           /\ Z!Nodes(Append(q, e)) = Z!Nodes(q) \cup {e}
<1> DEFINE p == Append(q, e)
<1>1. /\ Len(q) \in Nat /\ p \in Seq(Scored) /\ Len(p) = Len(q) + 1
      /\ p[Len(q) + 1] = e /\ \A i \in 1..Len(q) : p[i] = q[i]
  OBVIOUS
<1> HIDE DEF p
<1>2. \A i \in 1..Len(p) : i \in 1..Len(q) \/ i = Len(q) + 1
  BY <1>1
<1>3. \A i \in 1..Len(q) : i \in 1..Len(p) /\ q[i].mem # e.mem
  <2>1. \A i \in 1..Len(q) : q[i] \in Z!Nodes(q)
    BY NodesIs
  <2> QED BY <1>1, <2>1
<1>4. OneEach(p)
  BY <1>1, <1>2, <1>3 DEF OneEach
<1>5. Z!Nodes(p) = Z!Nodes(q) \cup {e}
  <2>1. ASSUME NEW x PROVE x \in Z!Nodes(p) <=> x \in Z!Nodes(q) \cup {e}
    <3>1. x \in Z!Nodes(p) <=> \E i \in 1..Len(p) : x = p[i]
      BY <1>1, NodesIs
    <3>2. x \in Z!Nodes(q) <=> \E i \in 1..Len(q) : x = q[i]
      BY NodesIs
    <3>3. Len(q) + 1 \in 1..Len(p)
      BY <1>1
    <3> QED BY <1>1, <1>2, <1>3, <3>1, <3>2, <3>3
  <2> QED BY <2>1
<1> QED BY <1>1, <1>4, <1>5 DEF p

\* The members of a set of nodes that gains one.
LEMMA MembersWith ==
    ASSUME NEW N, NEW e
    PROVE  {x.mem : x \in N \cup {e}} = {x.mem : x \in N} \cup {e.mem}
OBVIOUS

\* A member and its score come to all three structures.
LEMMA Added ==
    ASSUME NEW q, NEW members, NEW r, Mirrors(q, members, r),
           NEW m \in Members, m \notin members, NEW s \in Int
    PROVE  /\ Mirrors(Append(q, [mem |-> m, score |-> s]), members \cup {m}, Z!Insert(r, s, m))
           /\ \A k \in members :
                ScoreIn(Append(q, [mem |-> m, score |-> s]), k) = ScoreIn(q, k)
           /\ ScoreIn(Append(q, [mem |-> m, score |-> s]), m) = s
<1> DEFINE e == [mem |-> m, score |-> s]
           p == Append(q, e)
           t == Z!Insert(r, s, m)
<1>1. e \in Scored /\ e.mem = m /\ e.score = s
  BY DEF Scored
<1>2. /\ q \in Seq(Scored) /\ r \in Seq(Scored) /\ members \subseteq Members
      /\ OneEach(q) /\ OneEach(r) /\ {x.mem : x \in Z!Nodes(q)} = members
      /\ Z!Nodes(r) = Z!Nodes(q) /\ InOrder(r)
  BY DEF Mirrors
<1>3. \A x \in Z!Nodes(q) : x.mem # m
  BY <1>2
<1>4. t \in Seq(Scored) /\ Z!Nodes(t) = Z!Nodes(r) \cup {e} /\ InOrder(t) /\ OneEach(t)
  <2>1. \A i \in 1..Len(r) : r[i].mem # m
    <3>1. \A i \in 1..Len(r) : r[i] \in Z!Nodes(r)
      BY <1>2, NodesIs
    <3> QED BY <1>2, <1>3, <3>1
  <2> QED BY <1>2, <2>1, InsertIs
<1> HIDE DEF e, t
<1>5. p \in Seq(Scored) /\ OneEach(p) /\ Z!Nodes(p) = Z!Nodes(q) \cup {e}
  BY <1>1, <1>2, <1>3, AppendIs
<1> HIDE DEF p
<1>6. {x.mem : x \in Z!Nodes(p)} = members \cup {m}
  BY <1>1, <1>2, <1>5, MembersWith
<1>7. Mirrors(p, members \cup {m}, t)
  BY <1>2, <1>4, <1>5, <1>6 DEF Mirrors
<1>8. ASSUME NEW k \in members PROVE ScoreIn(p, k) = ScoreIn(q, k)
  <2>1. [mem |-> k, score |-> ScoreIn(q, k)] \in Z!Nodes(q)
    BY <1>2, NodeOfMember, NodesIs
  <2> QED BY <1>2, <1>5, <2>1, SameScore
<1>9. ScoreIn(p, m) = s
  BY <1>1, <1>5, ScoreOfNode
<1> QED BY <1>7, <1>8, <1>9 DEF p, e, t

\* A member leaves all three.
LEMMA Removed ==
    ASSUME NEW q, NEW members, NEW r, Mirrors(q, members, r), NEW m \in members,
           NEW it \in 1..Len(r), r[it] = [mem |-> m, score |-> ScoreIn(q, m)]
    PROVE  /\ Mirrors(Z!Erase(q, NodeIn(q, m)), members \ {m}, Z!Erase(r, it))
           /\ \A k \in members \ {m} : ScoreIn(Z!Erase(q, NodeIn(q, m)), k) = ScoreIn(q, k)
<1> DEFINE e == [mem |-> m, score |-> ScoreIn(q, m)]
           p == Z!Erase(q, NodeIn(q, m))
           t == Z!Erase(r, it)
<1>1. NodeIn(q, m) \in 1..Len(q) /\ q[NodeIn(q, m)] = e
  BY NodeOfMember
<1>2. /\ q \in Seq(Scored) /\ r \in Seq(Scored) /\ members \subseteq Members
      /\ OneEach(q) /\ OneEach(r) /\ {x.mem : x \in Z!Nodes(q)} = members
      /\ Z!Nodes(r) = Z!Nodes(q) /\ InOrder(r)
  BY DEF Mirrors
<1>3. e.mem = m /\ e.score = ScoreIn(q, m)
  OBVIOUS
<1>4. r[it] = e
  OBVIOUS
<1> HIDE DEF e
<1>5. p \in Seq(Scored) /\ OneEach(p) /\ Z!Nodes(p) = Z!Nodes(q) \ {e}
  BY <1>1, <1>2, EraseIs, Zenon
<1>6. t \in Seq(Scored) /\ OneEach(t) /\ InOrder(t) /\ Z!Nodes(t) = Z!Nodes(r) \ {e}
  BY <1>2, <1>4, EraseIs
<1> HIDE DEF p, t
<1>7. \A x \in Z!Nodes(q) : x.mem = m => x = e
  <2> SUFFICES ASSUME NEW x \in Z!Nodes(q), x.mem = m PROVE x = e
    OBVIOUS
  <2>1. PICK i \in 1..Len(q) : x = q[i]
    BY <1>2, NodesIs
  <2>2. i = NodeIn(q, m)
    BY <1>1, <1>2, <1>3, <2>1 DEF OneEach
  <2> QED BY <1>1, <2>1, <2>2
<1>8. {x.mem : x \in Z!Nodes(p)} = members \ {m}
  BY <1>2, <1>3, <1>5, <1>7
<1>9. Mirrors(p, members \ {m}, t)
  BY <1>2, <1>5, <1>6, <1>8 DEF Mirrors
<1>10. ASSUME NEW k \in members \ {m} PROVE ScoreIn(p, k) = ScoreIn(q, k)
  <2>1. [mem |-> k, score |-> ScoreIn(q, k)] \in Z!Nodes(q)
    BY <1>2, NodeOfMember, NodesIs
  <2>2. [mem |-> k, score |-> ScoreIn(q, k)].mem = k
    OBVIOUS
  <2>3. [mem |-> k, score |-> ScoreIn(q, k)] \in Z!Nodes(p)
    BY <1>3, <1>5, <2>1, <2>2
  <2> QED BY <1>2, <1>5, <2>3, SameScore
<1> QED BY <1>9, <1>10 DEF p, t

\* A member's node gets another score where it is.
Rescored(q, m, s) == [q EXCEPT ![NodeIn(q, m)].score = s]

\* Then its entry moves.
LEMMA Moved ==
    ASSUME NEW q, NEW members, NEW r, Mirrors(q, members, r), NEW m \in members,
           NEW it \in 1..Len(r), r[it] = [mem |-> m, score |-> ScoreIn(q, m)],
           NEW s \in Int
    PROVE  /\ Mirrors(Rescored(q, m, s), members, Z!Insert(Z!Erase(r, it), s, m))
           /\ \A k \in members :
                ScoreIn(Rescored(q, m, s), k) = IF k = m THEN s ELSE ScoreIn(q, k)
<1> DEFINE p == Rescored(q, m, s)
           at == NodeIn(q, m)
           old == [mem |-> m, score |-> ScoreIn(q, m)]
           e == [mem |-> m, score |-> s]
           t == Z!Erase(r, it)
           u == Z!Insert(t, s, m)
<1>1. at \in 1..Len(q) /\ q[at] = old /\ m \in Members
  BY NodeOfMember
<1>2. /\ q \in Seq(Scored) /\ r \in Seq(Scored) /\ members \subseteq Members
      /\ OneEach(q) /\ OneEach(r) /\ {x.mem : x \in Z!Nodes(q)} = members
      /\ Z!Nodes(r) = Z!Nodes(q) /\ InOrder(r)
  BY DEF Mirrors
<1>3. old.mem = m /\ e.mem = m /\ e.score = s /\ e \in Scored /\ [old EXCEPT !.score = s] = e
  BY <1>1 DEF Scored
<1>4. r[it] = old
  OBVIOUS
<1>5. /\ p \in Seq(Scored) /\ Len(p) = Len(q) /\ p[at] = e
      /\ \A i \in 1..Len(q) : i # at => p[i] = q[i]
  <2>1. p = [q EXCEPT ![at] = [q[at] EXCEPT !.score = s]]
    BY DEF Rescored
  <2>2. p = [q EXCEPT ![at] = e]
    BY <1>1, <1>3, <2>1, Zenon
  <2> HIDE DEF p, at, e
  <2>3. Len(q) \in Nat /\ q \in [1..Len(q) -> Scored]
    BY <1>2
  <2>4. p \in [1..Len(q) -> Scored]
    BY <1>3, <2>2, <2>3, Zenon
  <2>5. p \in Seq(Scored) /\ Len(p) = Len(q)
    BY <2>3, <2>4
  <2>6. p[at] = e /\ \A i \in 1..Len(q) : i # at => p[i] = q[i]
    BY <1>1, <2>2, <2>3, Zenon
  <2> QED BY <2>5, <2>6
<1> HIDE DEF p, at, old, e
<1>6. \A i \in 1..Len(q) : p[i].mem = q[i].mem
  BY <1>1, <1>3, <1>5
<1>7. OneEach(p)
  BY <1>2, <1>5, <1>6 DEF OneEach
<1>8. Z!Nodes(p) = (Z!Nodes(q) \ {old}) \cup {e}
  <2>1. ASSUME NEW x \in Z!Nodes(p) PROVE x \in (Z!Nodes(q) \ {old}) \cup {e}
    <3>0. \E i \in 1..Len(p) : x = p[i]
      BY <1>5, <2>1, NodesIs, Zenon
    <3>1. PICK i \in 1..Len(q) : x = p[i]
      BY <1>5, <3>0, Zenon
    <3>2. CASE i = at
      BY <1>5, <3>1, <3>2
    <3>3. CASE i # at
      <4>1. x = q[i] /\ x # old
        BY <1>1, <1>2, <1>5, <3>1, <3>3 DEF OneEach
      <4> QED BY <1>2, <4>1, NodesIs
    <3> QED BY <3>2, <3>3
  <2>2. ASSUME NEW x \in Z!Nodes(q), x # old PROVE x \in Z!Nodes(p)
    <3>1. PICK i \in 1..Len(q) : x = q[i]
      BY <1>2, <2>2, NodesIs
    <3>2. x = p[i] /\ i \in 1..Len(p)
      BY <1>1, <1>5, <2>2, <3>1
    <3> QED BY <1>5, <3>2, NodesIs
  <2>3. e \in Z!Nodes(p)
    BY <1>1, <1>5, NodesIs
  <2> QED BY <2>1, <2>2, <2>3
<1>9. {x.mem : x \in Z!Nodes(p)} = members
  <2>1. {p[i].mem : i \in 1..Len(q)} = {q[i].mem : i \in 1..Len(q)}
    BY <1>6, Zenon
  <2>2. {x.mem : x \in Z!Nodes(p)} = {p[i].mem : i \in 1..Len(p)}
    BY <1>5, MembersIs, ZenonT(30)
  <2>3. {x.mem : x \in Z!Nodes(q)} = {q[i].mem : i \in 1..Len(q)}
    BY <1>2, MembersIs, Zenon
  <2> QED BY <1>2, <1>5, <2>1, <2>2, <2>3, Zenon
<1>10. t \in Seq(Scored) /\ OneEach(t) /\ InOrder(t) /\ Z!Nodes(t) = Z!Nodes(r) \ {old}
  BY <1>2, <1>4, EraseIs
<1> HIDE DEF t
<1>11. \A i \in 1..Len(t) : t[i].mem # m
  <2> SUFFICES ASSUME NEW i \in 1..Len(t), t[i].mem = m PROVE FALSE
    OBVIOUS
  <2>1. t[i] \in Z!Nodes(q) /\ t[i] # old
    BY <1>2, <1>10, NodesIs
  <2>2. PICK k \in 1..Len(q) : t[i] = q[k]
    BY <1>2, <2>1, NodesIs
  <2>3. k = at
    BY <1>1, <1>2, <1>3, <2>2 DEF OneEach
  <2> QED BY <1>1, <2>1, <2>2, <2>3
<1>12. u \in Seq(Scored) /\ OneEach(u) /\ InOrder(u) /\ Z!Nodes(u) = Z!Nodes(t) \cup {e}
  BY <1>1, <1>10, <1>11, InsertIs DEF e
<1> HIDE DEF u
<1>13. Mirrors(p, members, u)
  BY <1>2, <1>5, <1>7, <1>8, <1>9, <1>10, <1>12 DEF Mirrors
<1>14. ASSUME NEW k \in members PROVE ScoreIn(p, k) = IF k = m THEN s ELSE ScoreIn(q, k)
  <2>1. CASE k = m
    <3>1. e \in Z!Nodes(p)
      BY <1>8
    <3> QED BY <1>3, <1>5, <1>7, <2>1, <3>1, ScoreOfNode
  <2>2. CASE k # m
    <3>1. [mem |-> k, score |-> ScoreIn(q, k)] \in Z!Nodes(q)
      BY <1>2, NodeOfMember, NodesIs
    <3>2. [mem |-> k, score |-> ScoreIn(q, k)].mem = k
      OBVIOUS
    <3>3. [mem |-> k, score |-> ScoreIn(q, k)] \in Z!Nodes(p)
      BY <1>3, <1>8, <2>2, <3>1, <3>2
    <3> QED BY <1>2, <1>5, <1>7, <2>2, <3>3, SameScore
  <2> QED BY <2>1, <2>2
<1> QED BY <1>13, <1>14 DEF p, u, t

\* What the definition of Rebuilt asks of the function it defines.
AddedOf(q, f) ==
    [n \in 0..Len(q) |-> IF n = 0 THEN <<>> ELSE Z!Insert(f[n - 1], q[n].score, q[n].mem)]

\* The first n nodes of q, in order.
Arranged(q, n, r) ==
    /\ r \in Seq(Scored) /\ OneEach(r) /\ InOrder(r)
    /\ Z!Nodes(r) = {q[i] : i \in 1..n}

\* Nodes that are added to a new set one by one are in it, in order.
LEMMA RebuiltIs ==
    ASSUME NEW q \in Seq(Scored), OneEach(q)
    PROVE  /\ Z!Rebuilt(q) \in Seq(Scored) /\ OneEach(Z!Rebuilt(q)) /\ InOrder(Z!Rebuilt(q))
           /\ Z!Nodes(Z!Rebuilt(q)) = Z!Nodes(q)
<1> DEFINE step == [i \in 1..Len(q) |-> [r \in Seq(Scored) |-> Z!Insert(r, q[i].score, q[i].mem)]]
           f == CHOOSE g : g = AddedOf(q, g)
<1>1. /\ Len(q) \in Nat /\ <<>> \in Seq(Scored) /\ DOMAIN q = 1..Len(q)
      /\ \A i \in 1..Len(q) : /\ q[i] \in Scored /\ q[i].mem \in Members /\ q[i].score \in Int
                              /\ q[i] = [mem |-> q[i].mem, score |-> q[i].score]
  <2>1. \A e \in Scored : e = [mem |-> e.mem, score |-> e.score]
    BY DEF Scored
  <2> QED BY <2>1, ScoredType
<1>2. step \in [1..Len(q) -> [Seq(Scored) -> Seq(Scored)]]
  BY <1>1, InsertIs
<1>3. PICK g : IsLoop(Len(q), Seq(Scored), <<>>, step, g)
  <2> HIDE DEF step
  <2> QED BY <1>1, <1>2, LoopExists, Zenon
<1>4. g \in [0..Len(q) -> Seq(Scored)] /\ g[0] = <<>>
  BY <1>3 DEF IsLoop
<1> HIDE DEF step
<1>5. \A i \in 1..Len(q) : g[i] = Z!Insert(g[i - 1], q[i].score, q[i].mem)
  <2> SUFFICES ASSUME NEW i \in 1..Len(q)
               PROVE g[i] = Z!Insert(g[i - 1], q[i].score, q[i].mem)
    OBVIOUS
  <2>1. g[i] = step[i][g[i - 1]]
    BY <1>3 DEF IsLoop
  <2>2. g[i - 1] \in Seq(Scored)
    <3>1. i - 1 \in 0..Len(q)
      BY <1>1
    <3> QED BY <1>4, <3>1
  <2> QED BY <2>1, <2>2 DEF step
<1>6. g = AddedOf(q, g)
  <2>1. ASSUME NEW i \in 0..Len(q) PROVE g[i] = AddedOf(q, g)[i]
    <3>1. i = 0 \/ i \in 1..Len(q)
      BY <1>1
    <3> QED BY <1>4, <1>5, <3>1 DEF AddedOf
  <2>2. g = [i \in 0..Len(q) |-> g[i]]
    BY <1>4
  <2>3. AddedOf(q, g) = [i \in 0..Len(q) |-> AddedOf(q, g)[i]]
    BY Zenon DEF AddedOf
  <2> QED BY <2>1, <2>2, <2>3, Zenon
<1>7. Z!Rebuilt(q) = f[Len(q)]
  BY DEF Z!Rebuilt, AddedOf
<1>8. f = AddedOf(q, f)
  BY <1>6
<1> HIDE DEF f
<1>9. f[0] = <<>>
  <2>1. 0 \in 0..Len(q)
    BY <1>1
  <2>2. AddedOf(q, f)[0] = <<>>
    BY <2>1, Zenon DEF AddedOf
  <2> QED BY <1>8, <2>2, Zenon
<1>10. ASSUME NEW i \in 1..Len(q) PROVE f[i] = Z!Insert(f[i - 1], q[i].score, q[i].mem)
  <2>1. i \in 0..Len(q) /\ i # 0
    BY <1>1
  <2>2. AddedOf(q, f)[i] = Z!Insert(f[i - 1], q[i].score, q[i].mem)
    BY <2>1, Zenon DEF AddedOf
  <2> QED BY <1>8, <2>2, Zenon
<1> DEFINE N == {n \in 0..Len(q) : Arranged(q, n, f[n])}
<1>11. 0 \in N
  <2>1. OneEach(<<>>) /\ InOrder(<<>>) /\ Z!Nodes(<<>>) = {}
    BY DEF OneEach, InOrder, Z!Nodes
  <2>2. {q[i] : i \in 1..0} = {}
    OBVIOUS
  <2>3. Arranged(q, 0, f[0])
    BY <1>1, <1>9, <2>1, <2>2, Zenon DEF Arranged
  <2>4. 0 \in 0..Len(q)
    BY <1>1
  <2> QED BY <2>3, <2>4, Zenon
<1>12. ASSUME NEW n \in 0..Len(q), n \in N, n < Len(q) PROVE n + 1 \in N
  <2>1. n + 1 \in 1..Len(q) /\ (n + 1) - 1 = n /\ n + 1 \in 0..Len(q)
    BY <1>1, <1>12
  <2>2. PICK e : e = q[n + 1]
    OBVIOUS
  <2>3. /\ e \in Scored /\ e.mem \in Members /\ e.score \in Int
        /\ e = [mem |-> e.mem, score |-> e.score]
    BY <1>1, <2>1, <2>2
  <2>4. PICK r \in Seq(Scored) : r = f[n] /\ Arranged(q, n, r)
    BY <1>12 DEF Arranged
  <2>5. f[n + 1] = Z!Insert(r, e.score, e.mem)
    BY <1>10, <2>1, <2>2, <2>4
  <2>6. \A i \in 1..Len(r) : r[i].mem # e.mem
    <3> SUFFICES ASSUME NEW i \in 1..Len(r), r[i].mem = e.mem PROVE FALSE
      OBVIOUS
    <3>1. r[i] \in {q[k] : k \in 1..n}
      BY <2>4, NodesIs, Zenon DEF Arranged
    <3>2. PICK k \in 1..n : r[i] = q[k]
      BY <3>1
    <3>3. k \in 1..Len(q) /\ k # n + 1
      BY <1>1, <1>12
    <3> QED BY <2>1, <2>2, <3>2, <3>3 DEF OneEach
  <2>7. /\ f[n + 1] \in Seq(Scored) /\ OneEach(f[n + 1]) /\ InOrder(f[n + 1])
        /\ Z!Nodes(f[n + 1]) = Z!Nodes(r) \cup {e}
    BY <2>3, <2>4, <2>5, <2>6, InsertIs, Zenon DEF Arranged
  <2>8. 1..n + 1 = 1..n \cup {n + 1}
    BY <1>1, <1>12
  <2>9. {q[i] : i \in 1..n + 1} = {q[i] : i \in 1..n} \cup {e}
    BY <2>2, <2>8, Zenon
  <2>10. Arranged(q, n + 1, f[n + 1])
    BY <2>4, <2>7, <2>9, Zenon DEF Arranged
  <2> QED BY <2>1, <2>10
<1>13. Len(q) \in N
  <2> HIDE DEF N
  <2>1. 0..Len(q) \subseteq N
    BY <1>1, <1>11, <1>12, InductUpTo, Zenon
  <2> QED BY <1>1, <2>1
<1>14. Arranged(q, Len(q), f[Len(q)])
  BY <1>13
<1>15. Z!Nodes(q) = {q[i] : i \in 1..Len(q)}
  BY <1>1, Zenon DEF Z!Nodes
<1> QED BY <1>7, <1>14, <1>15 DEF Arranged

\* A set that is loaded mirrors its own list.
LEMMA Reloaded ==
    ASSUME NEW q \in Seq(Scored), OneEach(q)
    PROVE  Mirrors(q, {e.mem : e \in Z!Nodes(q)}, Z!Rebuilt(q))
<1>1. {e.mem : e \in Z!Nodes(q)} \subseteq Members
  BY MembersIs, ScoredType
<1> QED BY <1>1, RebuiltIs DEF Mirrors

\* The scores a rewrite of the log leaves.
Abs(s) == IF s < 0 THEN -s ELSE s

\* They are those of the same members, each without its sign.
LEMMA Unsigned ==
    ASSUME NEW q \in Seq(Scored), OneEach(q), NEW p,
           p = [i \in DOMAIN q |-> [q[i] EXCEPT !.score = Abs(q[i].score)]]
    PROVE  /\ p \in Seq(Scored) /\ OneEach(p)
           /\ {e.mem : e \in Z!Nodes(p)} = {e.mem : e \in Z!Nodes(q)}
           /\ \A i \in 1..Len(q) : ScoreIn(p, q[i].mem) = Abs(ScoreIn(q, q[i].mem))
<1>1. /\ Len(q) \in Nat /\ DOMAIN q = 1..Len(q)
      /\ \A i \in 1..Len(q) : q[i] \in Scored /\ q[i].mem \in Members /\ q[i].score \in Int
  BY ScoredType
<1>2. ASSUME NEW e \in Scored, NEW s \in Int
      PROVE  LET d == [e EXCEPT !.score = s] IN d \in Scored /\ d.mem = e.mem /\ d.score = s
  BY Zenon DEF Scored
<1>3. ASSUME NEW i \in 1..Len(q)
      PROVE  p[i] \in Scored /\ p[i].mem = q[i].mem /\ p[i].score = Abs(q[i].score)
  <2>1. p[i] = [q[i] EXCEPT !.score = Abs(q[i].score)]
    BY <1>1, Zenon
  <2>2. PICK s \in Int : s = Abs(q[i].score)
    <3>1. Abs(q[i].score) \in Int
      BY <1>1 DEF Abs
    <3> QED BY <3>1, Zenon
  <2> QED BY <1>1, <1>2, <2>1, <2>2, Zenon
<1>4. p \in Seq(Scored) /\ Len(p) = Len(q)
  <2>1. p \in [1..Len(q) -> Scored]
    <3>1. p = [i \in 1..Len(q) |-> p[i]]
      BY <1>1, Zenon
    <3> QED BY <1>3, <3>1, Zenon
  <2> QED BY <1>1, <2>1
<1>5. OneEach(p)
  BY <1>3, <1>4 DEF OneEach
<1>6. {e.mem : e \in Z!Nodes(p)} = {e.mem : e \in Z!Nodes(q)}
  <2>1. {p[i].mem : i \in 1..Len(q)} = {q[i].mem : i \in 1..Len(q)}
    BY <1>3, Zenon
  <2>2. {e.mem : e \in Z!Nodes(p)} = {p[i].mem : i \in 1..Len(p)}
    BY <1>4, MembersIs, Zenon
  <2>3. {e.mem : e \in Z!Nodes(q)} = {q[i].mem : i \in 1..Len(q)}
    BY MembersIs, Zenon
  <2> QED BY <1>4, <2>1, <2>2, <2>3, Zenon
<1>7. ASSUME NEW i \in 1..Len(q) PROVE ScoreIn(p, q[i].mem) = Abs(ScoreIn(q, q[i].mem))
  <2>1. ScoreIn(q, q[i].mem) = q[i].score
    BY NodeInIs
  <2>2. ScoreIn(p, p[i].mem) = p[i].score
    BY <1>4, <1>5, NodeInIs, Zenon
  <2> QED BY <1>3, <2>1, <2>2
<1> QED BY <1>4, <1>5, <1>6, <1>7, Zenon

\* What a step of a sorted set does to the set of members with scores.
ScoredStep == [Z!Scored!Next]_[m \in memberMap |-> Z!Score(m)]

\* The steps SortedSet allows, in terms of the members and their scores.
LEMMA ScoredSame ==
    ASSUME memberMap' = memberMap,
           \A k \in memberMap : ScoreIn(sequence', k) = ScoreIn(sequence, k)
    PROVE  ScoredStep
<1>1. [m \in memberMap |-> Z!Score(m)]' = [m \in memberMap |-> Z!Score(m)]
  BY ScoreIs
<1> QED BY <1>1 DEF ScoredStep

\* A new member is an Insert of the abstract sorted set.
LEMMA ScoredInsert ==
    ASSUME NEW m \in Members, m \notin memberMap, memberMap' = memberMap \cup {m}, NEW s \in Scores,
           \A k \in memberMap : ScoreIn(sequence', k) = ScoreIn(sequence, k),
           ScoreIn(sequence', m) = s
    PROVE  ScoredStep
<1> DEFINE sc == [k \in memberMap |-> ScoreIn(sequence, k)]
<1>1. Z!Scored!Insert(m, s)
  <2>1. [k \in memberMap |-> Z!Score(k)] = sc
    BY ScoreIs
  <2>2. [k \in memberMap |-> Z!Score(k)]' = [k \in memberMap' |-> ScoreIn(sequence', k)]
    BY ScoreIs
  <2>3. [k \in memberMap' |-> ScoreIn(sequence', k)]
          = [k \in DOMAIN sc \cup {m} |-> IF k = m THEN s ELSE sc[k]]
    OBVIOUS
  <2>4. m \notin DOMAIN sc
    OBVIOUS
  <2> HIDE DEF sc
  <2> QED BY <2>1, <2>2, <2>3, <2>4 DEF Z!Scored!Insert
<1> QED BY <1>1 DEF ScoredStep, Z!Scored!Next

\* A member that goes is a Remove.
LEMMA ScoredRemove ==
    ASSUME NEW m \in Members, m \in memberMap, memberMap' = memberMap \ {m},
           \A k \in memberMap \ {m} : ScoreIn(sequence', k) = ScoreIn(sequence, k)
    PROVE  ScoredStep
<1> DEFINE sc == [k \in memberMap |-> ScoreIn(sequence, k)]
<1>1. Z!Scored!Remove(m)
  <2>1. [k \in memberMap |-> Z!Score(k)] = sc
    BY ScoreIs
  <2>2. [k \in memberMap |-> Z!Score(k)]' = [k \in memberMap' |-> ScoreIn(sequence', k)]
    BY ScoreIs
  <2>3. [k \in memberMap' |-> ScoreIn(sequence', k)] = [k \in DOMAIN sc \ {m} |-> sc[k]]
    OBVIOUS
  <2>4. m \in DOMAIN sc
    OBVIOUS
  <2> HIDE DEF sc
  <2> QED BY <2>1, <2>2, <2>3, <2>4 DEF Z!Scored!Remove
<1> QED BY <1>1 DEF ScoredStep, Z!Scored!Next

\* A member with another score is a Change.
LEMMA ScoredChange ==
    ASSUME NEW m \in Members, m \in memberMap, memberMap' = memberMap, NEW s \in Scores,
           \A k \in memberMap :
             ScoreIn(sequence', k) = IF k = m THEN s ELSE ScoreIn(sequence, k)
    PROVE  ScoredStep
<1> DEFINE sc == [k \in memberMap |-> ScoreIn(sequence, k)]
<1>1. Z!Scored!Change(m, s)
  <2>1. [k \in memberMap |-> Z!Score(k)] = sc
    BY ScoreIs
  <2>2. [k \in memberMap |-> Z!Score(k)]' = [k \in memberMap' |-> ScoreIn(sequence', k)]
    BY ScoreIs
  <2>3. [k \in memberMap' |-> ScoreIn(sequence', k)] = [sc EXCEPT ![m] = s]
    BY Zenon
  <2>4. m \in DOMAIN sc
    OBVIOUS
  <2> HIDE DEF sc
  <2> QED BY <2>1, <2>2, <2>3, <2>4 DEF Z!Scored!Change
<1> QED BY <1>1 DEF ScoredStep, Z!Scored!Next

\* Scores that lose their signs are an Unsign.
LEMMA ScoredUnsign ==
    ASSUME memberMap' = memberMap,
           \A k \in memberMap : ScoreIn(sequence', k) = Abs(ScoreIn(sequence, k))
    PROVE  ScoredStep
<1> DEFINE sc == [k \in memberMap |-> ScoreIn(sequence, k)]
<1>1. Z!Scored!Unsign
  <2>1. [k \in memberMap |-> Z!Score(k)] = sc
    BY ScoreIs
  <2>2. [k \in memberMap |-> Z!Score(k)]' = [k \in memberMap' |-> ScoreIn(sequence', k)]
    BY ScoreIs
  <2>3. [k \in memberMap' |-> ScoreIn(sequence', k)]
          = [k \in DOMAIN sc |-> IF sc[k] < 0 THEN -sc[k] ELSE sc[k]]
    BY DEF Abs
  <2> HIDE DEF sc
  <2> QED BY <2>1, <2>2, <2>3 DEF Z!Scored!Unsign
<1> QED BY <1>1 DEF ScoredStep, Z!Scored!Next

\* ZADD.
LEMMA AddTurn ==
    ASSUME ZSetInv, NEW s \in Scores, NEW m \in Members, Z!Add(s, m)
    PROVE  ZSetInv' /\ ScoredStep
<1>1. CASE m \in memberMap
  <2>1. UNCHANGED <<sequence, memberMap, rank, fault>>
    BY <1>1 DEF Z!Add
  <2> QED BY <2>1, ScoredSame DEF ZSetInv
<1>2. CASE m \notin memberMap
  <2>1. /\ memberMap' = memberMap \cup {m} /\ rank' = Z!Insert(rank, s, m)
        /\ sequence' = Append(sequence, [mem |-> m, score |-> s]) /\ fault' = fault
    BY <1>2, Zenon DEF Z!Add
  <2>2. s \in Int /\ Mirrors(sequence, memberMap, rank)
    BY CommandsAssumption DEF ZSetInv
  <2>3. /\ Mirrors(sequence', memberMap', rank') /\ ScoreIn(sequence', m) = s
        /\ \A k \in memberMap : ScoreIn(sequence', k) = ScoreIn(sequence, k)
    BY <1>2, <2>1, <2>2, Added
  <2> QED BY <1>2, <2>1, <2>3, ScoredInsert DEF ZSetInv
<1> QED BY <1>1, <1>2

\* ZREM.
LEMMA RemTurn ==
    ASSUME ZSetInv, NEW s \in Scores, NEW m \in Members, Z!Rem(s, m)
    PROVE  ZSetInv' /\ ScoredStep
<1>1. CASE m \notin memberMap \/ Z!Score(m) # s
  <2>1. UNCHANGED <<sequence, memberMap, rank, fault>>
    BY <1>1 DEF Z!Rem
  <2> QED BY <2>1, ScoredSame DEF ZSetInv
<1>2. CASE m \in memberMap /\ Z!Score(m) = s
  <2> DEFINE from == Z!UpperBound(rank, s - 1)
             it == Z!Scan(from, m)
  <2>1. /\ memberMap' = memberMap \ {m} /\ rank' = IF it = 0 THEN rank ELSE Z!Erase(rank, it)
        /\ sequence' = Z!Erase(sequence, NodeIn(sequence, m)) /\ fault' = (fault \/ it = 0)
    BY <1>2, ScoreIs DEF Z!Rem
  <2>2. /\ s \in Int /\ s - 1 \in Int /\ Mirrors(sequence, memberMap, rank) /\ rank \in Seq(Scored)
        /\ ScoreIn(sequence, m) = s
    BY <1>2, ScoreIs, CommandsAssumption DEF ZSetInv, Mirrors
  <2>3. from \in 1..Len(rank) + 1 /\ \A j \in 1..from - 1 : rank[j].score <= s - 1
    BY <2>2, UpperBoundIs
  <2> HIDE DEF from
  <2>4. ASSUME NEW j \in 1..from - 1
        PROVE  rank[j].score < s
    <3>1. j \in 1..Len(rank) /\ rank[j].score <= s - 1
      BY <2>2, <2>3
    <3>2. rank[j].score \in Int
      BY <2>2, <3>1, ScoredType
    <3> QED BY <2>2, <3>1, <3>2
  <2>5. it \in 1..Len(rank) /\ rank[it] = [mem |-> m, score |-> s]
    BY <1>2, <2>2, <2>3, <2>4, ScanIs
  <2> HIDE DEF it
  <2>6. rank' = Z!Erase(rank, it) /\ fault' = FALSE
    <3>1. it # 0
      BY <2>2, <2>5
    <3> QED BY <2>1, <3>1, Zenon DEF ZSetInv
  <2>7. /\ Mirrors(sequence', memberMap', rank')
        /\ \A k \in memberMap \ {m} : ScoreIn(sequence', k) = ScoreIn(sequence, k)
    <3>1. rank[it] = [mem |-> m, score |-> ScoreIn(sequence, m)]
      BY <2>2, <2>5
    <3>2. /\ Mirrors(Z!Erase(sequence, NodeIn(sequence, m)), memberMap \ {m}, Z!Erase(rank, it))
          /\ \A k \in memberMap \ {m} :
               ScoreIn(Z!Erase(sequence, NodeIn(sequence, m)), k) = ScoreIn(sequence, k)
      BY <1>2, <2>2, <2>5, <3>1, Removed
    <3> QED BY <2>1, <2>6, <3>2
  <2> QED BY <1>2, <2>1, <2>6, <2>7, ScoredRemove DEF ZSetInv
<1> QED BY <1>1, <1>2

\* ZINCRBY and ZDECRBY.
LEMMA MoveTurn ==
    ASSUME ZSetInv, NEW d \in Int, NEW m \in memberMap, Z!Move(d, m)
    PROVE  ZSetInv' /\ ScoredStep
<1> DEFINE s == ScoreIn(sequence, m)
           from == Z!UpperBound(rank, s - 1)
           it == Z!Scan(from, m)
<1>1. /\ s + d \in Scores /\ memberMap' = memberMap
      /\ rank' = Z!Insert(IF it = 0 THEN rank ELSE Z!Erase(rank, it), s + d, m)
      /\ sequence' = [sequence EXCEPT ![NodeIn(sequence, m)].score = s + d]
      /\ fault' = (fault \/ it = 0)
  BY ScoreIs, Zenon DEF Z!Move, Z!LowerBound
<1>2. /\ Mirrors(sequence, memberMap, rank) /\ rank \in Seq(Scored) /\ m \in Members
  BY DEF ZSetInv, Mirrors
<1>3. s \in Int /\ s - 1 \in Int /\ s + d \in Int
  <2>1. s \in Int
    BY <1>2, NodeOfMember, Zenon
  <2> QED BY <2>1
<1>4. from \in 1..Len(rank) + 1 /\ \A j \in 1..from - 1 : rank[j].score <= s - 1
  BY <1>2, <1>3, UpperBoundIs, Zenon
<1> HIDE DEF from
<1>5. \A j \in 1..from - 1 : rank[j].score < s
  <2> HIDE DEF s
  <2> QED BY <1>2, <1>3, <1>4, ScoredType
<1>6. it \in 1..Len(rank) /\ rank[it] = [mem |-> m, score |-> s]
  BY <1>2, <1>4, <1>5, ScanIs
<1> HIDE DEF it
<1>7. rank' = Z!Insert(Z!Erase(rank, it), s + d, m) /\ fault' = FALSE
  <2>1. it # 0
    BY <1>6
  <2> QED BY <1>1, <2>1, Zenon DEF ZSetInv
<1> DEFINE sum == s + d
<1>8. /\ Mirrors(sequence', memberMap, rank')
      /\ \A k \in memberMap : ScoreIn(sequence', k) = IF k = m THEN sum ELSE ScoreIn(sequence, k)
  <2>1. sum \in Int /\ rank' = Z!Insert(Z!Erase(rank, it), sum, m)
        /\ sequence' = Rescored(sequence, m, sum)
    BY <1>1, <1>3, <1>7 DEF Rescored
  <2> HIDE DEF sum
  <2>2. /\ Mirrors(Rescored(sequence, m, sum), memberMap, Z!Insert(Z!Erase(rank, it), sum, m))
        /\ \A k \in memberMap :
             ScoreIn(Rescored(sequence, m, sum), k) = IF k = m THEN sum ELSE ScoreIn(sequence, k)
    BY <1>2, <1>6, <2>1, Moved
  <2> QED BY <2>1, <2>2
<1>9. sum \in Scores
  BY <1>1
<1> HIDE DEF sum
<1> QED BY <1>1, <1>2, <1>7, <1>8, <1>9, ScoredChange, Zenon DEF ZSetInv

\* A save and its load.
LEMMA ReloadTurn ==
    ASSUME ZSetInv, Z!Reload
    PROVE  ZSetInv' /\ ScoredStep
<1>1. rank' = Z!Rebuilt(sequence) /\ UNCHANGED <<sequence, memberMap, fault>>
  BY DEF Z!Reload
<1>2. /\ sequence \in Seq(Scored) /\ OneEach(sequence)
      /\ {e.mem : e \in Z!Nodes(sequence)} = memberMap
  BY DEF ZSetInv, Mirrors
<1>3. Mirrors(sequence, memberMap, rank')
  BY <1>1, <1>2, Reloaded
<1> QED BY <1>1, <1>3, ScoredSame DEF ZSetInv

\* A rewrite of the log and its replay.
LEMMA RewriteTurn ==
    ASSUME ZSetInv, Z!Rewrite
    PROVE  ZSetInv' /\ ScoredStep
<1>1. /\ sequence' = [i \in DOMAIN sequence |->
                        [sequence[i] EXCEPT !.score = Abs(sequence[i].score)]]
      /\ rank' = Z!Rebuilt(sequence') /\ UNCHANGED <<memberMap, fault>>
  BY DEF Z!Rewrite, Abs
<1>2. /\ sequence \in Seq(Scored) /\ OneEach(sequence) /\ Mirrors(sequence, memberMap, rank)
      /\ {e.mem : e \in Z!Nodes(sequence)} = memberMap
  BY DEF ZSetInv, Mirrors
<1>3. /\ sequence' \in Seq(Scored) /\ OneEach(sequence')
      /\ {e.mem : e \in Z!Nodes(sequence')} = memberMap
      /\ \A i \in 1..Len(sequence) :
           ScoreIn(sequence', sequence[i].mem) = Abs(ScoreIn(sequence, sequence[i].mem))
  BY <1>1, <1>2, Unsigned, Zenon
<1>4. Mirrors(sequence', memberMap, rank')
  BY <1>1, <1>3, Reloaded, Zenon
<1>5. ASSUME NEW k \in memberMap PROVE ScoreIn(sequence', k) = Abs(ScoreIn(sequence, k))
  <2>1. NodeIn(sequence, k) \in 1..Len(sequence) /\ sequence[NodeIn(sequence, k)].mem = k
    <3>1. /\ NodeIn(sequence, k) \in 1..Len(sequence)
          /\ sequence[NodeIn(sequence, k)] = [mem |-> k, score |-> ScoreIn(sequence, k)]
      BY <1>2, NodeOfMember, Zenon
    <3> QED BY <3>1
  <2> QED BY <1>3, <2>1
<1> QED BY <1>1, <1>4, <1>5, ScoredUnsign DEF ZSetInv

\* A sorted set is mirrored at first, and a step keeps it so and is one
\* SortedSet allows.
LEMMA ZSetTurn ==
    /\ CommandInit => ZSetInv /\ Z!Scored!Init
    /\ ZSetInv /\ [CommandStep \/ ElsewhereStep]_commandVars => ZSetInv' /\ ScoredStep
<1>1. ASSUME CommandInit PROVE ZSetInv /\ Z!Scored!Init
  <2>1. sequence = <<>> /\ memberMap = {} /\ rank = <<>> /\ fault = FALSE
    BY <1>1, Zenon DEF CommandInit, Z!Init
  <2>2. <<>> \in Seq(Scored) /\ OneEach(<<>>) /\ InOrder(<<>>) /\ Z!Nodes(<<>>) = {}
    BY DEF OneEach, InOrder, Z!Nodes
  <2>3. ZSetInv
    BY <2>1, <2>2 DEF ZSetInv, Mirrors
  <2> QED BY <2>1, <2>3 DEF Z!Scored!Init
<1>2. ASSUME ZSetInv, [CommandStep \/ ElsewhereStep]_commandVars PROVE ZSetInv' /\ ScoredStep
  <2>1. ASSUME Z!Next PROVE ZSetInv' /\ ScoredStep
    <3>1. ASSUME NEW m \in Members, NEW d \in Int, m \in memberMap => Z!Move(d, m),
                 m \notin memberMap => UNCHANGED <<sequence, memberMap, rank, fault>>
          PROVE  ZSetInv' /\ ScoredStep
      <4>1. CASE m \in memberMap
        BY <1>2, <3>1, <4>1, MoveTurn
      <4>2. CASE m \notin memberMap
        BY <1>2, <3>1, <4>2, ScoredSame DEF ZSetInv
      <4> QED BY <4>1, <4>2
    <3>2. ASSUME NEW d \in Deltas, NEW m \in Members, Z!IncrBy(d, m) \/ Z!DecrBy(d, m)
          PROVE  ZSetInv' /\ ScoredStep
      <4>1. d \in Int /\ -1 \in Int
        BY CommandsAssumption
      <4> QED BY <3>1, <3>2, <4>1, Zenon DEF Z!IncrBy, Z!DecrBy
    <3> QED BY <1>2, <2>1, <3>2, AddTurn, RemTurn, ReloadTurn, RewriteTurn, Zenon DEF Z!Next
  <2>2. CASE UNCHANGED zset
    <3>1. UNCHANGED <<sequence, memberMap, rank, fault>>
      BY <2>2 DEF zset
    <3> QED BY <1>2, <3>1, ScoredSame DEF ZSetInv
  <2>3. Z!Next \/ UNCHANGED zset
    BY <1>2, Zenon DEF CommandStep, BufferStep, ContainerStep, ZSetStep, RequestStep, DbListStep,
          ElsewhereStep, commandVars
  <2> QED BY <2>1, <2>2, <2>3
<1> QED BY <1>1, <1>2

\* The sorted set is mirrored throughout.
LEMMA ZSetAlways == CommandSpec => []ZSetInv
BY ZSetTurn, PTL DEF CommandSpec

\* Facts about finite sets, which only what follows counts with.
INSTANCE FiniteSetTheorems

\* ZSet counts as the library does.
LEMMA ZSetCardinality ==
    ASSUME NEW S
    PROVE  Z!Cardinality(S) = Cardinality(S)
BY DEF Z!Cardinality, Cardinality

\* As many nodes as members.
LEMMA CountNodes ==
    ASSUME NEW q \in Seq(Scored), OneEach(q), NEW S, {q[i].mem : i \in 1..Len(q)} = S
    PROVE  IsFiniteSet(S) /\ Cardinality(S) = Len(q)
<1> DEFINE f == [i \in 1..Len(q) |-> q[i].mem]
<1>1. Len(q) \in Nat
  OBVIOUS
<1>2. f \in Bijection(1..Len(q), S)
  BY DEF OneEach, Bijection, Injection, Surjection, IsInjective
<1>3. IsFiniteSet(1..Len(q)) /\ Cardinality(1..Len(q)) = Len(q)
  <2>1. Cardinality(1..Len(q)) = IF 1 > Len(q) THEN 0 ELSE Len(q) - 1 + 1
    BY <1>1, FS_Interval
  <2> QED BY <1>1, <2>1, FS_Interval
<1>4. ExistsBijection(1..Len(q), S)
  BY <1>2 DEF ExistsBijection
<1> HIDE DEF f
<1> QED BY <1>3, <1>4, FS_Bijection

\* sequence_list_, member_map_ and rank_map_ hold the same members and scores
\* and rank_map_ is in order, for any members and scores and however many.
THEOREM StructuresMirrored == CommandSpec => []Mirrored
<1>1. ZSetInv => Mirrored
  <2> SUFFICES ASSUME ZSetInv PROVE Mirrored
    OBVIOUS
  <2>1. /\ sequence \in Seq(Scored) /\ rank \in Seq(Scored) /\ OneEach(sequence) /\ OneEach(rank)
        /\ {e.mem : e \in Z!Nodes(sequence)} = memberMap
        /\ Z!Nodes(rank) = Z!Nodes(sequence) /\ InOrder(rank)
    BY DEF ZSetInv, Mirrors
  <2>2. {sequence[i].mem : i \in 1..Len(sequence)} = memberMap
    BY <2>1, MembersIs, Zenon
  <2>3. {rank[i].mem : i \in 1..Len(rank)} = memberMap
    BY <2>1, MembersIs, Zenon
  <2>4. Len(sequence) = Cardinality(memberMap) /\ Len(rank) = Cardinality(memberMap)
    BY <2>1, <2>2, <2>3, CountNodes
  <2>5. \A i, j \in DOMAIN rank : i < j => rank[i].score <= rank[j].score
    BY <2>1, ScoredType DEF InOrder
  <2> QED BY <2>1, <2>4, <2>5, ZSetCardinality DEF Mirrored, Z!Mirrored
<1> QED BY <1>1, ZSetAlways, PTL

\* The loops of ZSet::Rem and ZSet::IncrBy, which look for nothing but the
\* member, never leave rank_map_, whatever was added, moved, removed, loaded
\* or rewritten before.
THEOREM ScansEndInside == CommandSpec => []ScanFinds
<1>1. ZSetInv => ScanFinds
  BY DEF ZSetInv, ScanFinds, Z!ScanFinds
<1> QED BY <1>1, ZSetAlways, PTL

\* The three structures implement one set of members with scores.
THEOREM ZSetImplementsSortedSet == CommandSpec => RefinesSortedSet
<1>1. CommandInit => ZSetInv /\ Z!Scored!Init
  BY ZSetTurn
<1>2. ZSetInv /\ [CommandStep \/ ElsewhereStep]_commandVars =>
        ZSetInv' /\ [Z!Scored!Next]_[m \in memberMap |-> Z!Score(m)]
  BY ZSetTurn DEF ScoredStep
<1> QED BY <1>1, <1>2, PTL DEF CommandSpec, RefinesSortedSet, Z!RefinesSortedSet, Z!Scored!Spec

(***************************************************************************)
(* Databases.                                                              *)
(***************************************************************************)
DbRecord == [number : Nat, full : BOOLEAN, made : BOOLEAN]

\* The databases that were loaded, l of them, come first; the numbers below l
\* are taken, and so is the number of every database made since, once.
Numbered(dbs, taken, l) ==
    /\ \A i \in 1..Len(dbs) : dbs[i].made <=> i > l
    /\ 0..l - 1 \subseteq taken
    /\ \A i \in 1..Len(dbs) : dbs[i].made => dbs[i].number \in taken /\ dbs[i].number >= l
    /\ \A i, j \in 1..Len(dbs) :
         dbs[i].made /\ dbs[j].made /\ i # j => dbs[i].number # dbs[j].number

\* FreshNumbers and Selectable follow from this, and a step keeps it.
DbInv ==
    /\ databases \in Seq(DbRecord)
    /\ numHash \in SUBSET Nat /\ IsFiniteSet(numHash)
    /\ numberSource \in Nat
    /\ saved \in Seq(Nat)
    /\ \E l \in 0..Len(databases) : Numbered(databases, numHash, l)

\* Databases counts as the library does.
LEMMA SameCardinality ==
    ASSUME NEW S
    PROVE  D!Cardinality(S) = Cardinality(S)
BY DEF D!Cardinality, Cardinality

\* The search for a number ends at one that is not taken.
LEMMA FreeFromIsFree ==
    ASSUME numHash \in SUBSET Nat, IsFiniteSet(numHash), NEW n \in Nat
    PROVE  D!FreeFrom(n) \in Nat /\ D!FreeFrom(n) \notin numHash
<1> DEFINE size1 == Cardinality(numHash)
           Free(m) == m \notin numHash /\ n..m - 1 \subseteq numHash
<1>1. size1 \in Nat
  BY FS_CardinalityType
<1>2. \E m \in n..n + size1 : Free(m)
  <2> SUFFICES ASSUME \A m \in n..n + size1 : ~Free(m) PROVE FALSE
    OBVIOUS
  <2> DEFINE S == {k \in 0..size1 + 1 : n..n + k - 1 \subseteq numHash}
  <2> HIDE DEF size1
  <2>1. 0 \in S
    BY <1>1
  <2>2. ASSUME NEW k \in 0..size1 + 1, k \in S, k < size1 + 1 PROVE k + 1 \in S
    <3>1. n + k \in n..n + size1 /\ n..(n + k) - 1 \subseteq numHash
      BY <1>1, <2>2
    <3>2. n + k \in numHash
      BY <3>1
    <3>3. n..n + (k + 1) - 1 \subseteq numHash
      BY <1>1, <2>2, <3>1, <3>2
    <3> QED BY <1>1, <2>2, <3>3
  <2>3. 0..size1 + 1 \subseteq S
    <3> HIDE DEF S
    <3> QED BY <1>1, <2>1, <2>2, InductUpTo
  <2>4. n..n + size1 \subseteq numHash
    <3>1. size1 + 1 \in 0..size1 + 1 /\ n + (size1 + 1) - 1 = n + size1
      BY <1>1
    <3>2. n..n + (size1 + 1) - 1 \subseteq numHash
      BY <2>3, <3>1, Zenon
    <3> QED BY <3>1, <3>2
  <2>5. Cardinality(n..n + size1) <= size1
    BY <2>4, FS_Subset, Zenon DEF size1
  <2>6. Cardinality(n..n + size1) = size1 + 1
    BY <1>1, FS_Interval
  <2> QED BY <1>1, <2>5, <2>6
<1>3. D!FreeFrom(n) = CHOOSE m \in n..n + size1 : Free(m)
  BY SameCardinality DEF D!FreeFrom
<1>4. D!FreeFrom(n) \in n..n + size1 /\ Free(D!FreeFrom(n))
  <2> HIDE DEF size1, Free
  <2> QED BY <1>2, <1>3, Zenon
<1> HIDE DEF size1
<1> QED BY <1>1, <1>4

\* A database with a number that is not taken is added at the end.
LEMMA NumberedAppend ==
    ASSUME NEW dbs \in Seq(DbRecord), NEW taken \in SUBSET Nat, NEW l \in 0..Len(dbs),
           Numbered(dbs, taken, l), NEW m \in Nat, m \notin taken
    PROVE  /\ Append(dbs, D!Db(m)) \in Seq(DbRecord)
           /\ l \in 0..Len(Append(dbs, D!Db(m)))
           /\ Numbered(Append(dbs, D!Db(m)), taken \cup {m}, l)
<1> DEFINE db == D!Db(m)
           more == Append(dbs, db)
           n == Len(dbs)
<1>1. db \in DbRecord /\ db.number = m /\ db.made = TRUE
  BY DEF D!Db, DbRecord
<1> HIDE DEF db
<1>2. /\ more \in Seq(DbRecord) /\ n \in Nat /\ Len(more) = n + 1
      /\ more[n + 1] = db /\ \A i \in 1..n : more[i] = dbs[i]
  BY <1>1
<1>3. m >= l
  BY DEF Numbered
<1> HIDE DEF more
<1>4. \A i \in 1..n + 1 : more[i].made <=> i > l
  BY <1>1, <1>2 DEF Numbered
<1>5. 0..l - 1 \subseteq taken \cup {m}
  BY DEF Numbered
<1>6. \A i \in 1..n + 1 :
        more[i].made => more[i].number \in taken \cup {m} /\ more[i].number >= l
  BY <1>1, <1>2, <1>3 DEF Numbered
<1>7. \A i, j \in 1..n + 1 :
        more[i].made /\ more[j].made /\ i # j => more[i].number # more[j].number
  <2> SUFFICES ASSUME NEW i \in 1..n + 1, NEW j \in 1..n + 1,
                      more[i].made, more[j].made, i # j
               PROVE  more[i].number # more[j].number
    OBVIOUS
  <2>1. CASE i \in 1..n /\ j \in 1..n
    BY <1>2, <2>1 DEF Numbered
  <2>2. CASE i = n + 1 /\ j \in 1..n
    BY <1>1, <1>2, <2>2 DEF Numbered
  <2>3. CASE i \in 1..n /\ j = n + 1
    BY <1>1, <1>2, <2>3 DEF Numbered
  <2> QED BY <1>2, <2>1, <2>2, <2>3
<1>8. Numbered(more, taken \cup {m}, l)
  BY <1>2, <1>4, <1>5, <1>6, <1>7 DEF Numbered
<1>9. l \in 0..Len(more)
  BY <1>2
<1> QED BY <1>2, <1>8, <1>9 DEF more, db

\* Whether a database holds anything does not matter.
LEMMA NumberedSame ==
    ASSUME NEW dbs, NEW more, NEW taken, NEW l, Numbered(dbs, taken, l), Len(more) = Len(dbs),
           \A i \in 1..Len(dbs) : more[i].number = dbs[i].number /\ more[i].made = dbs[i].made
    PROVE  Numbered(more, taken, l)
BY DEF Numbered

\* Filling or emptying a database keeps the list.
LEMMA Filled ==
    ASSUME NEW dbs \in Seq(DbRecord), NEW k, NEW b \in BOOLEAN
    PROVE  LET more == [dbs EXCEPT ![k].full = b]
           IN /\ more \in Seq(DbRecord) /\ Len(more) = Len(dbs)
              /\ \A i \in 1..Len(dbs) :
                   more[i].number = dbs[i].number /\ more[i].made = dbs[i].made
<1> DEFINE more == [dbs EXCEPT ![k].full = b]
           n == Len(dbs)
<1>0. n \in Nat /\ DOMAIN dbs = 1..n
  OBVIOUS
<1>1. DOMAIN more = 1..n
  BY <1>0
<1>2. ASSUME NEW i \in 1..n
      PROVE  /\ more[i] \in DbRecord
             /\ more[i].number = dbs[i].number /\ more[i].made = dbs[i].made
  <2>1. dbs[i] \in DbRecord
    OBVIOUS
  <2>2. CASE i = k
    <3>1. more[i] = [dbs[i] EXCEPT !.full = b]
      BY <2>2
    <3> QED BY <2>1, <3>1 DEF DbRecord
  <2>3. CASE i # k
    <3>1. more[i] = dbs[i]
      BY <2>3
    <3> QED BY <2>1, <3>1
  <2> QED BY <2>2, <2>3
<1>3. more = [i \in 1..n |-> more[i]]
  BY <1>0, Zenon
<1> HIDE DEF more
<1>4. more \in Seq(DbRecord) /\ Len(more) = n
  BY <1>0, <1>2, <1>3
<1> QED BY <1>2, <1>4 DEF more

\* Databases picks as Subsequences does.
LEMMA SamePick ==
    ASSUME NEW s, NEW I
    PROVE  D!Pick(s, I) = Pick(s, I)
BY DEF D!Pick, D!Picked, Pick, Picked

\* The numbers in the dump file.
LEMMA SavedNumbers ==
    ASSUME databases \in Seq(DbRecord), D!Save
    PROVE  saved' \in Seq(Nat)
<1> DEFINE I == {i \in DOMAIN databases : databases[i].full}
           full == D!Pick(databases, I)
<1>1. full \in Seq(DbRecord)
  BY SamePick, PickElements
<1>2. saved' = [i \in DOMAIN full |-> full[i].number]
  BY DEF D!Save
<1> HIDE DEF full
<1>3. DOMAIN full = 1..Len(full) /\ Len(full) \in Nat
  BY <1>1
<1>4. ASSUME NEW i \in 1..Len(full) PROVE full[i].number \in Nat
  <2>1. full[i] \in DbRecord
    BY <1>1
  <2> QED BY <2>1 DEF DbRecord
<1> QED BY <1>2, <1>3, <1>4

\* Db::Db() and Db::Db(int) keep the invariant.
LEMMA DbMade ==
    ASSUME DbInv, NEW n \in Nat, databases' = Append(databases, D!Db(D!FreeFrom(n))),
           numHash' = numHash \cup {D!FreeFrom(n)}, numberSource' \in Nat, UNCHANGED saved
    PROVE  DbInv'
<1> DEFINE m == D!FreeFrom(n)
<1>1. m \in Nat /\ m \notin numHash
  BY FreeFromIsFree, Zenon DEF DbInv
<1>2. databases' = Append(databases, D!Db(m)) /\ numHash' = numHash \cup {m}
  OBVIOUS
<1> HIDE DEF m
<1>3. numHash' \in SUBSET Nat /\ IsFiniteSet(numHash')
  <2>1. numHash \in SUBSET Nat /\ IsFiniteSet(numHash)
    BY DEF DbInv
  <2>2. IsFiniteSet(numHash \cup {m})
    BY <2>1, FS_AddElement
  <2> QED BY <1>1, <1>2, <2>1, <2>2, Zenon
<1>4. PICK l \in 0..Len(databases) : Numbered(databases, numHash, l)
  BY DEF DbInv
<1>5. /\ databases' \in Seq(DbRecord) /\ l \in 0..Len(databases')
      /\ Numbered(databases', numHash', l)
  <2>1. databases \in Seq(DbRecord) /\ numHash \in SUBSET Nat
    BY DEF DbInv
  <2>2. /\ Append(databases, D!Db(m)) \in Seq(DbRecord)
        /\ l \in 0..Len(Append(databases, D!Db(m)))
        /\ Numbered(Append(databases, D!Db(m)), numHash \cup {m}, l)
    BY <1>1, <1>4, <2>1, NumberedAppend
  <2> QED BY <1>2, <2>2, Zenon
<1>6. saved' \in Seq(Nat)
  BY DEF DbInv
<1> QED BY <1>3, <1>5, <1>6, Zenon DEF DbInv

\* A step that fills or empties a database keeps the invariant.
LEMMA DbFilled ==
    ASSUME DbInv, NEW k, NEW b \in BOOLEAN, databases' = [databases EXCEPT ![k].full = b],
           UNCHANGED <<numHash, numberSource, saved>>
    PROVE  DbInv'
<1>1. PICK l \in 0..Len(databases) : Numbered(databases, numHash, l)
  BY DEF DbInv
<1>2. /\ databases' \in Seq(DbRecord) /\ Len(databases') = Len(databases)
      /\ \A i \in 1..Len(databases) : /\ databases'[i].number = databases[i].number
                                      /\ databases'[i].made = databases[i].made
  <2>1. databases \in Seq(DbRecord)
    BY DEF DbInv
  <2> QED BY <2>1, Filled
<1>3. Numbered(databases', numHash, l)
  BY <1>1, <1>2, NumberedSame, Zenon
<1> QED BY <1>1, <1>2, <1>3 DEF DbInv

\* One database that is made first has the number 0.
LEMMA FirstDb ==
    /\ <<D!Db(0)>> \in Seq(DbRecord) /\ Len(<<D!Db(0)>>) = 1
    /\ Numbered(<<D!Db(0)>>, {0}, 0)
<1> DEFINE db == D!Db(0)
<1>1. db \in DbRecord /\ db.number = 0 /\ db.made = TRUE
  BY DEF D!Db, DbRecord
<1> HIDE DEF db
<1>2. <<db>> \in Seq(DbRecord) /\ Len(<<db>>) = 1 /\ <<db>>[1] = db
  BY <1>1
<1>3. 0..0 - 1 = {}
  OBVIOUS
<1>4. 1..1 = {1}
  OBVIOUS
<1>5. Numbered(<<db>>, {0}, 0)
  BY <1>1, <1>2, <1>3, <1>4 DEF Numbered
<1> QED BY <1>2, <1>5 DEF db

\* A restart keeps the invariant: what is loaded comes first.
LEMMA DbRestarted ==
    ASSUME DbInv, D!Restart
    PROVE  DbInv'
<1>0. saved \in Seq(Nat) /\ saved' = <<>> /\ numHash' = 0..Len(databases') - 1
  BY DEF DbInv, D!Restart
<1>1. saved' \in Seq(Nat)
  BY <1>0
<1>2. CASE saved = <<>>
  <2>1. databases' = <<D!Db(0)>>
    BY <1>2 DEF D!Restart
  <2>2. Len(databases') = 1 /\ databases' \in Seq(DbRecord) /\ Numbered(databases', {0}, 0)
    BY <2>1, FirstDb
  <2>3. numHash' = {0} /\ numberSource' = 0
    BY <1>0, <2>2 DEF D!Restart
  <2>4. IsFiniteSet({0})
    BY FS_Singleton
  <2> QED BY <1>1, <2>2, <2>3, <2>4 DEF DbInv
<1>3. CASE saved # <<>>
  <2> DEFINE n == Len(saved)
             Loaded(x) == [number |-> x, full |-> TRUE, made |-> FALSE]
  <2>1. n \in Nat \ {0} /\ DOMAIN saved = 1..n /\ \A i \in 1..n : saved[i] \in Nat
    BY <1>0, <1>3
  <2>2. databases' = [i \in 1..n |-> Loaded(saved[i])]
    BY <1>3, <2>1 DEF D!Restart
  <2>3. \A x \in Nat : Loaded(x) \in DbRecord /\ Loaded(x).made = FALSE
    BY DEF DbRecord
  <2> HIDE DEF n, Loaded
  <2>4. databases' \in Seq(DbRecord) /\ Len(databases') = n
    BY <2>1, <2>2, <2>3
  <2>5. \A i \in 1..n : databases'[i].made = FALSE
    BY <2>1, <2>2, <2>3
  <2>6. numHash' = 0..n - 1 /\ numberSource' = n - 1
    BY <1>0, <2>4 DEF D!Restart
  <2>7. IsFiniteSet(0..n - 1)
    BY <2>1, FS_Interval
  <2>8. Numbered(databases', numHash', n)
    BY <2>1, <2>4, <2>5, <2>6 DEF Numbered
  <2>9. n \in 0..Len(databases') /\ numberSource' \in Nat /\ numHash' \in SUBSET Nat
    BY <2>1, <2>4, <2>6
  <2> QED BY <1>1, <2>4, <2>6, <2>7, <2>8, <2>9 DEF DbInv
<1> QED BY <1>2, <1>3

\* A step of the list of databases keeps the invariant.
LEMMA DbTurn ==
    ASSUME DbInv, D!Next
    PROVE  DbInv'
<1>1. ASSUME UNCHANGED <<databases, numHash, numberSource, saved>> PROVE DbInv'
  BY <1>1 DEF DbInv
<1>2. ASSUME NEW c \in Clients, D!Arrive(c) PROVE DbInv'
  BY <1>1, <1>2 DEF D!Arrive
<1>3. ASSUME NEW c \in Clients, D!Create(c) PROVE DbInv'
  <2>1. numberSource \in Nat /\ numberSource' \in Nat
    BY <1>3, FreeFromIsFree DEF DbInv, D!Create, D!NewDb
  <2> QED BY <1>3, <2>1, DbMade DEF D!Create, D!NewDb
<1>4. ASSUME NEW c \in Clients, D!Write(c) PROVE DbInv'
  BY <1>4, DbFilled, Zenon DEF D!Write
<1>5. ASSUME NEW c \in Clients, NEW n \in Numbers, D!Select(c, n) PROVE DbInv'
  BY <1>1, <1>5 DEF D!Select
<1>6. ASSUME NEW c \in Clients, NEW n \in Numbers, D!SuSelect(c, n) PROVE DbInv'
  <2>1. CASE UNCHANGED <<databases, numHash>>
    BY <1>1, <1>6, <2>1 DEF D!SuSelect
  <2>2. CASE D!SuGetDB(n)
    <3>1. n \in Nat /\ numberSource' \in Nat /\ UNCHANGED saved
      BY <1>6, CommandsAssumption DEF D!SuSelect, DbInv
    <3> QED BY <2>2, <3>1, DbMade DEF D!SuGetDB
  <2> QED BY <1>6, <2>1, <2>2 DEF D!SuSelect
<1>7. ASSUME NEW i \in DOMAIN databases, D!Del(i) PROVE DbInv'
  BY <1>7, DbFilled, Zenon DEF D!Del
<1>8. CASE D!Save
  <2>1. saved' \in Seq(Nat)
    BY <1>8, SavedNumbers DEF DbInv
  <2> QED BY <1>8, <2>1 DEF D!Save, DbInv
<1> QED BY <1>2, <1>3, <1>4, <1>5, <1>6, <1>7, <1>8, DbRestarted, Zenon DEF D!Next

\* The list of databases is well numbered in every state.
LEMMA DbAlways == CommandSpec => []DbInv
<1>1. CommandInit => DbInv
  <2> SUFFICES ASSUME CommandInit PROVE DbInv
    OBVIOUS
  <2>1. databases = <<D!Db(0)>> /\ numHash = {0} /\ numberSource = 0 /\ saved = <<>>
    BY Zenon DEF CommandInit, D!Init
  <2>2. <<>> \in Seq(Nat) /\ 0 \in Nat /\ {0} \in SUBSET Nat /\ 0 \in 0..1
    OBVIOUS
  <2>3. IsFiniteSet({0})
    BY FS_Singleton
  <2> QED BY <2>1, <2>2, <2>3, FirstDb DEF DbInv
<1>2. DbInv /\ [CommandStep \/ ElsewhereStep]_commandVars => DbInv'
  <2> SUFFICES ASSUME DbInv, [CommandStep \/ ElsewhereStep]_commandVars PROVE DbInv'
    OBVIOUS
  <2>1. CASE DbListStep
    BY <2>1, DbTurn DEF DbListStep
  <2>2. CASE UNCHANGED dblist
    BY <2>2 DEF dblist, DbInv
  <2> QED BY <2>1, <2>2 DEF CommandStep, BufferStep, ZSetStep, RequestStep, ContainerStep,
          ElsewhereStep, commandVars
<1> QED BY <1>1, <1>2, PTL DEF CommandSpec

\* Whatever the clients create and select, and however often the process is
\* restarted, two databases made in one life of it never have one number.
THEOREM NumbersStayFresh == CommandSpec => []FreshNumbers
<1>1. DbInv => FreshNumbers
  BY DEF DbInv, Numbered, FreshNumbers, D!FreshNumbers
<1> QED BY <1>1, DbAlways, PTL

\* Loaded numbers without a gap are all different.
LEMMA NoGapNoTwice ==
    ASSUME NEW l \in Nat, NEW f \in [1..l -> Nat], {f[i] : i \in 1..l} = 0..l - 1
    PROVE  \A i, j \in 1..l : f[i] = f[j] => i = j
<1>1. f \in Surjection(1..l, 0..l - 1)
  BY Zenon DEF Surjection
<1>2. IsFiniteSet(1..l) /\ Cardinality(1..l) = Cardinality(0..l - 1)
  BY FS_Interval
<1>3. f \in Injection(1..l, 0..l - 1)
  BY <1>1, <1>2, FS_SurjSameCardinalityImpliesInj
<1> QED BY <1>3 DEF Injection, IsInjective

\* In a list whose numbers are all different, GetDB finds every database.
LEMMA FindsAll ==
    ASSUME NEW i \in DOMAIN databases,
           \A j \in DOMAIN databases : databases[j].number = databases[i].number => j = i,
           DOMAIN databases \subseteq Nat
    PROVE  D!Find(databases[i].number) = i
<1> DEFINE found == {j \in DOMAIN databases : databases[j].number = databases[i].number}
<1>1. found = {i}
  OBVIOUS
<1>2. D!Find(databases[i].number) =
        IF found = {} THEN 0 ELSE CHOOSE j \in found : \A k \in found : j <= k
  BY DEF D!Find
<1> HIDE DEF found
<1>3. (CHOOSE j \in found : \A k \in found : j <= k) = i
  BY <1>1
<1> QED BY <1>1, <1>2, <1>3

\* The invariant makes every database selectable.
LEMMA NumberedSelectable ==
    ASSUME DbInv
    PROVE  Selectable
<1> DEFINE loaded == {i \in DOMAIN databases : ~databases[i].made}
           number == [i \in DOMAIN databases |-> databases[i].number]
<1> SUFFICES ASSUME {databases[i].number : i \in loaded} = 0..D!Cardinality(loaded) - 1,
                    NEW i \in DOMAIN databases
             PROVE  D!Find(databases[i].number) = i
  BY DEF Selectable, D!Selectable
<1>0. PICK l \in 0..Len(databases) : Numbered(databases, numHash, l)
  BY DEF DbInv
<1>1. /\ DOMAIN databases = 1..Len(databases) /\ Len(databases) \in Nat
      /\ \A j \in DOMAIN databases : databases[j] \in DbRecord
  BY DEF DbInv
<1>2. loaded = 1..l
  BY <1>0, <1>1 DEF Numbered
<1>3. D!Cardinality(loaded) = l
  <2>1. Cardinality(1..l) = l
    BY <1>0, FS_Interval
  <2> QED BY <1>2, <2>1, SameCardinality, Zenon
<1>4. {databases[j].number : j \in 1..l} = 0..l - 1
  <2> HIDE DEF loaded
  <2> QED BY <1>2, <1>3
<1>5. \A j \in DOMAIN databases : databases[j].number \in Nat
  BY <1>1 DEF DbRecord
<1> HIDE DEF loaded
<1>6. \A j, k \in 1..l : databases[j].number = databases[k].number => j = k
  <2> DEFINE f == [j \in 1..l |-> databases[j].number]
  <2>1. l \in Nat /\ f \in [1..l -> Nat] /\ {f[j] : j \in 1..l} = 0..l - 1
    BY <1>0, <1>1, <1>4, <1>5
  <2>2. \A j \in 1..l : f[j] = databases[j].number
    OBVIOUS
  <2> HIDE DEF f
  <2>3. \A j, k \in 1..l : f[j] = f[k] => j = k
    BY <2>1, NoGapNoTwice, Zenon
  <2> QED BY <2>2, <2>3
<1>7. ASSUME NEW j \in DOMAIN databases, databases[j].number = databases[i].number PROVE j = i
  <2>1. CASE i <= l /\ j <= l
    BY <1>0, <1>1, <1>6, <1>7, <2>1
  <2>2. CASE i > l /\ j > l
    BY <1>0, <1>1, <1>7, <2>2 DEF Numbered
  <2>3. ASSUME NEW p \in DOMAIN databases, NEW q \in DOMAIN databases, p <= l, q > l
        PROVE  databases[p].number # databases[q].number
    <3>1. p \in 1..l /\ databases[p].number \in 0..l - 1
      BY <1>0, <1>1, <1>4, <2>3
    <3>2. databases[q].number >= l
      BY <1>0, <1>1, <2>3 DEF Numbered
    <3> QED BY <1>0, <1>5, <3>1, <3>2
  <2> QED BY <1>0, <1>1, <1>7, <2>1, <2>2, <2>3
<1> QED BY <1>1, <1>7, FindsAll

\* Every database of a list of any length is reached by its number, as long
\* as the numbers that came from the dump file start at 0 and have no gap.
THEOREM AllSelectable == CommandSpec => []Selectable
BY DbAlways, NumberedSelectable, PTL

=============================================================================
