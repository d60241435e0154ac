------------------------------ MODULE Requests ------------------------------
(***************************************************************************)
(* From a request to its effect: RequestToCommandExec and the JsonTo...    *)
(* parsers, run by an io thread, and the Exec of the resulting command,    *)
(* run later by the command thread while expiry timers may delete keys in  *)
(* between.                                                                *)
(*                                                                         *)
(* A request is a command word, a key and further tokens.  Of a token only *)
(* what the code looks at is kept: "empty", "int" (RedisStrToInt succeeds),*)
(* "huge" (digits that do not fit an int), "addr" (it has a colon and a    *)
(* port) or "word".  Of the objects only their type is kept; Keyspace,     *)
(* ZSet and Containers have their contents.  A client that is gone makes   *)
(* a command end without effect or reply.                                  *)
(***************************************************************************)
EXTENDS Naturals, Sequences

CONSTANTS
    Keys,       \* key names
    Tokens,     \* kinds of token, a subset of those above
    MaxValues,  \* bound: tokens after the key
    Absent      \* no object

VARIABLES
    alive,   \* the process runs
    kinds,   \* GetObjectType of the object of every key, or Absent
    cmd,     \* the queued command, or NoCommand
    out      \* what the last Exec did

vars == <<alive, kinds, cmd, out>>

Kinds == {"STR", "LIST", "HASH", "SET", "ZSET"}

(***************************************************************************)
(* Dispatch: the is...Command tests of RequestToCommandExec.               *)
(***************************************************************************)
ServerNames == {"FORK", "ENDFORKING"}
CliNames == {"SELECT", "CREATE", "SHOW"}
DbNames == {"DEL", "EXPIRE", "WHEN", "REWRITE"}
StrNames == {"SET", "GET", "APPEND", "LEN", "INCRBY", "DECRBY"}
ListNames == {"LPUSHF", "LPUSHB", "LPOPF", "LPOPB", "LINDEX", "LREM", "LTRIM",
              "LLEN", "LSET"}
SetNames == {"SADD", "SCARD", "SISMEMBER", "SMEMBERS", "SRANDMEMBER", "SPOP",
             "SREM", "SINTER", "SDIFF"}
ZSetNames == {"ZADD", "ZCARD", "ZCOUNT", "ZLEXCOUNT", "ZINCRBY", "ZDECRBY",
              "ZREM", "ZRANGE", "ZRANGEBYSCORE", "ZRANGEBYLEX", "ZRANK", "ZSCORE"}
HashNames == {"HGET", "HSET", "HEXIST", "HDEL", "HLEN", "HGETALL", "HINCRBY",
              "HDECRBY"}
Names == ServerNames \cup CliNames \cup DbNames \cup StrNames \cup ListNames
         \cup SetNames \cup ZSetNames \cup HashNames

\* The type the Exec of the command casts its object to.
KindOf(name) ==
    CASE name \in StrNames  -> "STR"
      [] name \in ListNames -> "LIST"
      [] name \in HashNames -> "HASH"
      [] name \in SetNames  -> "SET"
      [] name \in ZSetNames -> "ZSET"
      [] OTHER              -> Absent

(***************************************************************************)
(* Parsers.  args holds the kinds of the tokens after the command word,    *)
(* the key's first; the request's size counts the command word too.        *)
(***************************************************************************)
Args == UNION {[1..n -> Tokens] : n \in 0..MaxValues + 1}
Size(args) == Len(args) + 1

\* JsonToBase: a key, and no token is empty.
Base(args) == Size(args) >= 2 /\ \A i \in DOMAIN args : args[i] # "empty"

\* A command: values is values_, or value_ as a sequence of at most one, and
\* named says whether JsonToBase has set command_ and obj_name_.
Command(name, valid, args, values) ==
    [name |-> name, size |-> Size(args), valid |-> valid, named |-> Base(args),
     values |-> values,
     first |-> IF name = "SELECT" /\ args # <<>> THEN args[1] ELSE "word",
     key |-> Absent]

\* Commands that need bare tokens and take no values.
Bare(name, args) == Command(name, Base(args), args, <<>>)
WithValues(name, valid, args) ==
    Command(name, Base(args) /\ valid, args,
            IF Base(args) /\ valid THEN Tail(args) ELSE <<>>)

JsonToStrCommand(name, args) ==
    IF name \in {"GET", "LEN"} THEN Bare(name, args)
    ELSE LET ok == Base(args) /\ Size(args) >= 3
         IN Command(name, ok, args, IF ok THEN <<args[2]>> ELSE <<>>)

\* Mutation: LREM, LSET and LTRIM are content with one value.
JsonToListCommandShort(name, args) ==
    IF name \in {"LPOPF", "LPOPB", "LLEN"} THEN Bare(name, args)
    ELSE WithValues(name, Size(args) >= 3, args)

JsonToListCommand(name, args) ==
    IF name \in {"LPOPF", "LPOPB", "LLEN"} THEN Bare(name, args)
    ELSE WithValues(name,
           /\ Size(args) >= 3
           /\ name \in {"LREM", "LSET", "LTRIM"} => Size(args) >= 4, args)

JsonToSetCommand(name, args) ==
    IF name \in {"SCARD", "SRANDMEMBER", "SMEMBERS", "SPOP"} THEN Bare(name, args)
    ELSE WithValues(name, Size(args) >= 3, args)

JsonToZSetCommand(name, args) ==
    IF name = "ZCARD" THEN Bare(name, args)
    ELSE WithValues(name,
           /\ Size(args) >= 3
           /\ Size(args) % 2 = 0 \/ name \in {"ZSCORE", "ZRANK"}, args)

JsonToHashCommand(name, args) ==
    IF name \in {"HLEN", "HGETALL"} THEN Bare(name, args)
    ELSE WithValues(name,
           /\ Size(args) >= 3
           /\ name \in {"HSET", "HINCRBY", "HDECRBY"} => Size(args) % 2 = 0, args)

JsonToDbCommand(name, args) ==
    CASE name = "REWRITE"           -> Command(name, TRUE, args, <<>>)
      [] name \in {"DEL", "WHEN"}   -> Bare(name, args)
      [] OTHER -> LET ok == Base(args) /\ Size(args) >= 3
                  IN Command(name, ok, args, IF ok THEN <<args[2]>> ELSE <<>>)

\* Only SELECT needs a key; the password is there if the size is 3.
JsonToCliCommand(name, args) ==
    Command(name, name = "SELECT" => Size(args) >= 2, args,
            IF Size(args) = 3 THEN <<args[2]>> ELSE <<>>)

\* FORK needs a colon in its address.
JsonToServerCommand(name, args) ==
    IF name = "ENDFORKING" THEN Command(name, TRUE, args, <<>>)
    ELSE Command(name, Base(args) /\ args[1] = "addr", args, <<>>)

RequestToCommandExec(name, args) ==
    CASE name \in ServerNames -> JsonToServerCommand(name, args)
      [] name \in CliNames    -> JsonToCliCommand(name, args)
      [] name \in DbNames     -> JsonToDbCommand(name, args)
      [] name \in StrNames    -> JsonToStrCommand(name, args)
      [] name \in ListNames   -> JsonToListCommand(name, args)
      [] name \in HashNames   -> JsonToHashCommand(name, args)
      [] name \in SetNames    -> JsonToSetCommand(name, args)
      [] name \in ZSetNames   -> JsonToZSetCommand(name, args)

(***************************************************************************)
(* Exec.  For every command with an object: which values_ it reads and     *)
(* which of them it gives to RedisStrToInt, by position from 1.            *)
(***************************************************************************)
\* A loop over values_ two at a time reads i and i + 1.
Pairs(n) == {i \in 1..n + 1 : i <= n \/ (i - 1) % 2 = 1}

StrReads(name, n) == IF name \in {"GET", "LEN"} THEN {} ELSE {1}
ListReads(name, n) ==
    CASE name \in {"LPUSHF", "LPUSHB", "LINDEX"} -> 1..n
      [] name \in {"LREM", "LTRIM", "LSET"}      -> {1, 2}
      [] OTHER                                   -> {}
HashReads(name, n) ==
    CASE name = "HSET"                      -> Pairs(n)
      [] name \in {"HGET", "HEXIST", "HDEL"} -> 1..n
      [] name \in {"HINCRBY", "HDECRBY"}    -> {1, 2}
      [] OTHER                              -> {}
SetReads(name, n) ==
    CASE name \in {"SADD", "SISMEMBER", "SREM"} -> 1..n
      [] name \in {"SINTER", "SDIFF"}           -> {1}
      [] OTHER                                  -> {}
ZSetReads(name, n) ==
    CASE name \in {"ZADD", "ZREM"}    -> Pairs(n)
      [] name \in {"ZRANK", "ZSCORE"} -> {1}
      [] name = "ZCARD"               -> {}
      [] OTHER                        -> {1, 2}
Reads(name, n) ==
    CASE KindOf(name) = "STR"  -> StrReads(name, n)
      [] KindOf(name) = "LIST" -> ListReads(name, n)
      [] KindOf(name) = "HASH" -> HashReads(name, n)
      [] KindOf(name) = "SET"  -> SetReads(name, n)
      [] KindOf(name) = "ZSET" -> ZSetReads(name, n)
      [] OTHER                 -> IF name = "EXPIRE" THEN {1} ELSE {}

\* Positions that must be an int, or the reply is the error " ".
NeedInts(name) ==
    CASE name \in {"INCRBY", "DECRBY", "LREM", "LSET", "ZINCRBY", "ZDECRBY"} -> {1}
      [] name \in {"HINCRBY", "HDECRBY"}                                -> {2}
      [] name \in {"LTRIM", "ZCOUNT", "ZRANGE", "ZRANGEBYSCORE"}        -> {1, 2}
      [] OTHER                                                          -> {}
\* Positions that are skipped unless they are an int.
SkipInts(name, n) ==
    CASE name = "LINDEX"           -> 1..n
      [] name \in {"ZADD", "ZREM"} -> {i \in 1..n : i % 2 = 1}
      [] OTHER                     -> {}

\* Commands that make a missing object, and those that may still fail on it.
Creators == {"SET", "LPUSHF", "LPUSHB", "HSET", "SADD", "ZADD"}
MayFail == {"INCRBY", "DECRBY", "LTRIM", "LSET", "HINCRBY", "HDECRBY",
            "ZINCRBY", "ZDECRBY", "SINTER", "SDIFF"}

NoCommand == [name |-> "none", key |-> Absent]
Nothing == [reply |-> "", reads |-> {}, size |-> 0, connected |-> FALSE]
Error == [Nothing EXCEPT !.reply = "error"]
Ok == [Nothing EXCEPT !.reply = "ok"]

\* RedisStrToInt runs std::stoi on digits that do not fit: an exception
\* nothing catches, which ends the process.
Throws(c) ==
    \/ \E i \in (NeedInts(c.name) \cup SkipInts(c.name, Len(c.values)))
                \cap DOMAIN c.values : c.values[i] = "huge"
    \/ c.name = "SELECT" /\ c.first = "huge"

Init ==
    /\ alive = TRUE
    /\ kinds = [k \in Keys |-> Absent]
    /\ cmd = NoCommand
    /\ out = Nothing

\* An io thread parses a request for key k and queues the command.
Receive ==
    /\ alive /\ cmd = NoCommand /\ out = Nothing
    /\ \E k \in Keys, name \in Names, args \in Args :
         cmd' = [RequestToCommandExec(name, args) EXCEPT !.key =
                   IF name \in ServerNames \cup CliNames THEN Absent ELSE k]
    /\ UNCHANGED <<alive, kinds, out>>

\* The timer thread deletes an expired key.
Expire(k) ==
    /\ alive
    /\ kinds[k] # Absent
    /\ kinds' = [kinds EXCEPT ![k] = Absent]
    /\ UNCHANGED <<alive, cmd, out>>

Done(result) == out' = result /\ cmd' = NoCommand

\* Mutation: the object is made before the command word is looked at.
FoundAlways(c, k) == IF kinds[k] = Absent THEN KindOf(c.name) ELSE kinds[k]

\* Db::Get, and Db::New... for the commands that make their object.
Found(c, k) ==
    IF kinds[k] = Absent /\ c.name \in Creators THEN KindOf(c.name) ELSE kinds[k]

\* The object is there and has the type the command is for.
Usable(c, type) == type = KindOf(c.name)

IsInt(i) == i \in DOMAIN cmd.values /\ cmd.values[i] = "int"

\* Str-, List-, Hash-, Set- and ZSetCommand::Exec.
ExecObject(k) ==
    /\ alive /\ cmd.name # "none" /\ cmd.valid
    /\ KindOf(cmd.name) # Absent
    /\ kinds' = [kinds EXCEPT ![k] = Found(cmd, k)]
    /\ LET type == Found(cmd, k)
           n == Len(cmd.values)
           did == [Ok EXCEPT !.reads = Reads(cmd.name, n), !.size = n]
       IN /\ alive' = ~(Usable(cmd, type) /\ Throws(cmd))
          /\ \/ ~Usable(cmd, type) /\ Done(Error)
             \/ /\ Usable(cmd, type)
                /\ \/ /\ \A i \in NeedInts(cmd.name) : IsInt(i)
                      /\ Done(did)
                   \/ /\ cmd.name \in MayFail
                      /\ Done([did EXCEPT !.reply = "error"])
                   \/ /\ \E i \in NeedInts(cmd.name) : ~IsInt(i)
                      /\ Done([did EXCEPT !.reply = "error",
                                          !.reads = NeedInts(cmd.name)])

\* DbCommand::Exec.  EXPIRE of a missing key is answered OK as well.
ExecDb(k) ==
    /\ alive /\ cmd.name \in DbNames /\ cmd.valid
    /\ kinds' = IF cmd.name = "DEL" THEN [kinds EXCEPT ![k] = Absent] ELSE kinds
    /\ Done(IF cmd.name = "EXPIRE" /\ cmd.values[1] \notin {"int", "huge"}
            THEN Error ELSE Ok)
    /\ UNCHANGED alive

\* CliCommand::Exec; what it does to the databases is in Databases.
ExecCli ==
    /\ alive /\ cmd.name \in CliNames /\ cmd.valid
    /\ alive' = ~Throws(cmd)
    /\ \/ Done(IF cmd.name = "SELECT" /\ cmd.first # "int" THEN Error ELSE Ok)
       \/ cmd.name = "CREATE" /\ Done(Error)
    /\ UNCHANGED kinds

\* Exec of an invalid command.
ExecInvalid ==
    /\ alive /\ cmd.name \notin ServerNames \cup {"none"} /\ ~cmd.valid
    /\ Done(Error)
    /\ UNCHANGED <<alive, kinds>>

\* ServerCommand::Exec looks at command_ only, not at valid_.  FORK may fail
\* to connect or to write; ENDFORKING answers " ".
ExecServer ==
    /\ alive /\ cmd.name \in ServerNames
    /\ LET forks == cmd.name = "FORK" /\ cmd.named
       IN \/ Done([IF cmd.name = "FORK" THEN Ok ELSE Error EXCEPT !.connected = forks])
          \/ forks /\ Done([Error EXCEPT !.connected = TRUE])
    /\ UNCHANGED <<alive, kinds>>

\* The Exec of a command whose client is gone: cli_.lock() gives nothing.
\* SELECT has converted its number by then.
ExecGone ==
    /\ alive /\ cmd.name # "none"
    /\ cmd.valid \/ cmd.name \in ServerNames
    /\ alive' = ~(cmd.name = "SELECT" /\ Throws(cmd))
    /\ Done(Nothing)
    /\ UNCHANGED kinds

\* Handler::ExecCommand hands the reply to the client.
Reply ==
    /\ alive /\ out # Nothing
    /\ out' = Nothing
    /\ UNCHANGED <<alive, kinds, cmd>>

Exec ==
    \/ \E k \in Keys : cmd.key = k /\ (ExecObject(k) \/ ExecDb(k))
    \/ ExecCli \/ ExecInvalid \/ ExecServer \/ ExecGone

Next ==
    \/ Receive
    \/ \E k \in Keys : Expire(k)
    \/ Exec \/ Reply

Spec == Init /\ [][Next]_vars

(***************************************************************************)
(* Properties.                                                             *)
(***************************************************************************)
\* No Exec reads past the end of values_, or a value_ that is not there:
\* what a parser lets through is enough for the Exec that runs later.
ReadsInBounds == out.reads \subseteq 1..out.size

\* A command that is answered with the error " " leaves every key as it was.
ErrorChangesNothing ==
    [][cmd.name # "none" /\ out'.reply = "error" /\ cmd' = NoCommand => kinds' = kinds]_vars
=============================================================================
