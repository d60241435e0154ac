------------------------------ MODULE Commands ------------------------------
(***************************************************************************)
(* From a request to its database: the request itself and its key          *)
(* (Requests), the list of databases (Databases), lists and sets           *)
(* (Containers), sorted sets (ZSet), and the compression of the texts they *)
(* keep (Compression).  They share no state but the process: a behaviour   *)
(* follows one of them, the others stay as they were created.  Objects     *)
(* adds strings and hashes.                                                *)
(***************************************************************************)
EXTENDS Integers, Sequences

CONSTANTS
    LzvnMin, LzvnLimit, Sizes, Payloads,                 \* Compression
    Values, Sets, Indices, MaxList, Garbage, Nil,        \* Containers
    Members, Scores, Deltas,                             \* ZSet
    Keys, Tokens, MaxValues, Absent,                     \* Requests
    Clients, Limit, Numbers, MaxDbs, MaxRestarts         \* Databases

VARIABLES
    kind,                                         \* what is followed
    size, payload, stage, times, stored, len,     \* Compression
    list, sets, ret,                              \* Containers
    sequence, memberMap, rank, fault,             \* ZSet
    kinds, cmd, out,                              \* Requests
    databases, cur, numHash, numberSource, saved, restarts,   \* Databases
    alive                                         \* the process runs

buffer == <<size, payload, stage, times, stored, len>>
container == <<list, sets, ret>>
zset == <<sequence, memberMap, rank, fault>>
request == <<kinds, cmd, out>>
dblist == <<databases, cur, numHash, numberSource, saved, restarts>>
commandVars == <<kind, buffer, container, zset, request, dblist, alive>>

B == INSTANCE Compression
C == INSTANCE Containers WITH MaxLen <- MaxList
Z == INSTANCE ZSet
R == INSTANCE Requests
D == INSTANCE Databases

\* Sizes, indices and numbers are integers of the ranges the code gives them.
ASSUME CommandsAssumption ==
    /\ B!CompressionAssumption
    /\ Indices \subseteq Int
    /\ Scores \subseteq Int /\ Deltas \subseteq Int
    /\ MaxValues \in Nat
    /\ Numbers \subseteq Nat

CommandInit ==
    /\ C!Init /\ Z!Init /\ R!Init /\ D!Init
    /\ IF kind = "buffer" THEN B!Init
       ELSE /\ size = 0 /\ payload = 0 /\ stage = "" /\ times = 0
            /\ stored = 0 /\ len = 0

BufferStep ==
    /\ kind = "buffer" /\ B!Next
    /\ UNCHANGED <<kind, container, zset, request, dblist, alive>>
ContainerStep ==
    /\ kind = "container" /\ C!Next
    /\ UNCHANGED <<kind, buffer, zset, request, dblist>>
ZSetStep ==
    /\ kind = "zset" /\ Z!Next
    /\ UNCHANGED <<kind, buffer, container, request, dblist, alive>>
RequestStep ==
    /\ kind = "request" /\ R!Next
    /\ UNCHANGED <<kind, buffer, container, zset, dblist>>
DbListStep ==
    /\ kind = "dblist" /\ D!Next
    /\ UNCHANGED <<kind, buffer, container, zset, request, alive>>

CommandStep == BufferStep \/ ContainerStep \/ ZSetStep \/ RequestStep \/ DbListStep

\* Something else is followed; it may end the process.
ElsewhereStep ==
    /\ kind \notin {"buffer", "container", "zset", "request", "dblist"}
    /\ UNCHANGED <<kind, buffer, container, zset, request, dblist>>

CommandSpec == CommandInit /\ [][CommandStep \/ ElsewhereStep]_commandVars

(***************************************************************************)
(* Properties, as the modules of the components state them.                *)
(***************************************************************************)
\* Decompress gives back as much as Compress was given, and both end.
RoundTrip == kind = "buffer" => B!RoundTrip

\* List::Index counts modulo the length of the list, from either end.
IndicesWrap == C!IndicesWrap

\* The three structures of ZSet hold the same members and scores.
Mirrored == Z!Mirrored

\* The scans of ZSet::Rem and ZSet::IncrBy end before the map does.
ScanFinds == Z!ScanFinds

\* A sorted set implements SortedSet.
RefinesSortedSet == Z!RefinesSortedSet

\* No Exec reads a value its parser has not stored.
ReadsInBounds == R!ReadsInBounds

\* A command that is answered with an error leaves every key as it was.
ErrorChangesNothing == R!ErrorChangesNothing

\* Db::Db() and Db::Db(int) give no number twice in one life of the process.
FreshNumbers == D!FreshNumbers

\* Every database is reached by its number, unless a restart has loaded
\* numbers with gaps.
Selectable == D!Selectable
=============================================================================
