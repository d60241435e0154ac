------------------------------ MODULE Databases ------------------------------
(***************************************************************************)
(* The list of databases of MainLoop and their numbers: CREATE, SELECT     *)
(* with and without the password, the database a connection starts in, and *)
(* what becomes of the numbers over a save and a restart.                  *)
(*                                                                         *)
(* Numbers are handed out from the statics num_hash and number_source of   *)
(* db.cc.  databases_ is only ever appended to (DROP is not dispatched),   *)
(* so a Db* is modelled by its position in it.                             *)
(***************************************************************************)
EXTENDS Integers, Sequences, FiniteSets, Subsequences

CONSTANTS
    Clients,      \* connections
    Limit,        \* CreateDB refuses at this size, 16 in the code
    Numbers,      \* numbers clients ask for
    MaxDbs,       \* bound: databases in the list
    MaxRestarts   \* bound: restarts

VARIABLES
    databases,     \* databases_: number_, whether it holds anything, and
                   \* whether it was made in this life of the process
    cur,           \* position of each connection's Db, 0 for none
    numHash,       \* numbers marked in num_hash
    numberSource,  \* number_source
    saved,         \* numbers of the databases in the dump file
    restarts       \* restarts so far

vars == <<databases, cur, numHash, numberSource, saved, restarts>>

Db(number) == [number |-> number, full |-> FALSE, made |-> TRUE]

\* The number Db::Db() or Db::Db(int) settles on when it starts looking at n.
FreeFrom(n) ==
    CHOOSE m \in n..n + Cardinality(numHash) : m \notin numHash /\ n..m - 1 \subseteq numHash

\* Position of the first database with the number, or 0.
Find(n) ==
    LET found == {i \in DOMAIN databases : databases[i].number = n}
    IN IF found = {} THEN 0 ELSE CHOOSE i \in found : \A j \in found : i <= j

Init ==
    /\ databases = <<Db(0)>>
    /\ cur = [c \in Clients |-> 0]
    /\ numHash = {0}
    /\ numberSource = 0
    /\ saved = <<>>
    /\ restarts = 0

\* MainLoop::Run gives a connection without a database the first one.
Arrive(c) ==
    /\ cur[c] = 0
    /\ cur' = [cur EXCEPT ![c] = 1]
    /\ UNCHANGED <<databases, numHash, numberSource, saved, restarts>>

\* Mutation: the number taken is not marked.
NewDbUnmarked ==
    /\ databases' = Append(databases, Db(FreeFrom(numberSource)))
    /\ numberSource' = FreeFrom(numberSource)
    /\ UNCHANGED numHash

\* Db::Db().
NewDb ==
    /\ databases' = Append(databases, Db(FreeFrom(numberSource)))
    /\ numberSource' = FreeFrom(numberSource)
    /\ numHash' = numHash \cup {FreeFrom(numberSource)}

\* CREATE: CreateDB, up to the limit; the client stays where it is.
Create(c) ==
    /\ cur[c] # 0
    /\ Len(databases) < Limit
    /\ NewDb
    /\ UNCHANGED <<cur, saved, restarts>>

\* SELECT without the right password: GetDB, which falls back to the first.
Select(c, n) ==
    /\ cur[c] # 0
    /\ cur' = [cur EXCEPT ![c] = IF Find(n) = 0 THEN 1 ELSE Find(n)]
    /\ UNCHANGED <<databases, numHash, numberSource, saved, restarts>>

\* SuGetDB of a number no database has: Db::Db(int).
SuGetDB(n) ==
    /\ databases' = Append(databases, Db(FreeFrom(n)))
    /\ numHash' = numHash \cup {FreeFrom(n)}

\* SELECT with the right password.
SuSelect(c, n) ==
    /\ cur[c] # 0
    /\ IF Find(n) # 0
       THEN /\ cur' = [cur EXCEPT ![c] = Find(n)]
            /\ UNCHANGED <<databases, numHash>>
       ELSE /\ Len(databases) < MaxDbs
            /\ SuGetDB(n)
            /\ cur' = [cur EXCEPT ![c] = Len(databases) + 1]
    /\ UNCHANGED <<numberSource, saved, restarts>>

\* Any command that leaves an object in the client's database.
Write(c) ==
    /\ cur[c] # 0
    /\ databases' = [databases EXCEPT ![cur[c]].full = TRUE]
    /\ UNCHANGED <<cur, numHash, numberSource, saved, restarts>>

\* Db::Del of the last entry, by DEL or by the timer thread at its deadline.
Del(i) ==
    /\ databases[i].full
    /\ databases' = [databases EXCEPT ![i].full = FALSE]
    /\ UNCHANGED <<cur, numHash, numberSource, saved, restarts>>

\* A save: Db::Save writes number_, and nothing for an empty database.
Save ==
    /\ LET full == Pick(databases, {i \in DOMAIN databases : databases[i].full})
       IN saved' = [i \in DOMAIN full |-> full[i].number]
    /\ UNCHANGED <<databases, cur, numHash, numberSource, restarts>>

\* Mutation: a database that is loaded marks no number.
RestartUnmarked ==
    /\ restarts < MaxRestarts
    /\ restarts' = restarts + 1
    /\ databases' = IF saved = <<>> THEN <<Db(0)>>
                    ELSE [i \in DOMAIN saved |->
                            [number |-> saved[i], full |-> TRUE, made |-> FALSE]]
    /\ numHash' = IF saved = <<>> THEN {0} ELSE {}
    /\ numberSource' = 0
    /\ saved' = <<>>
    /\ cur' = [c \in Clients |-> 0]

\* The process ends and starts again.  RDBLoad makes every database with
\* Db::Db(), which takes the next number from 0 on, and Db::Load then
\* overwrites number_ with the saved one.
Restart ==
    /\ restarts < MaxRestarts
    /\ restarts' = restarts + 1
    /\ databases' = IF saved = <<>> THEN <<Db(0)>>
                    ELSE [i \in DOMAIN saved |->
                            [number |-> saved[i], full |-> TRUE, made |-> FALSE]]
    /\ numHash' = 0..Len(databases') - 1
    /\ numberSource' = Len(databases') - 1
    /\ saved' = <<>>
    /\ cur' = [c \in Clients |-> 0]

Next ==
    \/ \E c \in Clients :
         \/ Arrive(c) \/ Create(c) \/ Write(c)
         \/ \E n \in Numbers : Select(c, n) \/ SuSelect(c, n)
    \/ \E i \in DOMAIN databases : Del(i)
    \/ Save \/ Restart

Spec == Init /\ [][Next]_vars

(***************************************************************************)
(* Properties.                                                             *)
(***************************************************************************)
\* Two databases made in the same life of the process never get the same
\* number, whichever of the two constructors made them and in which order.
FreshNumbers ==
    \A i, j \in DOMAIN databases :
        databases[i].made /\ databases[j].made /\ i # j =>
            databases[i].number # databases[j].number

\* "select db whose number is [int-value]": every database can be reached by
\* its number, as long as those that came from the dump file are numbered from
\* 0 on without a gap.  These are the numbers RDBLoad marks as taken, whatever
\* the file says.
Selectable ==
    LET loaded == {i \in DOMAIN databases : ~databases[i].made}
    IN  {databases[i].number : i \in loaded} = 0..Cardinality(loaded) - 1 =>
            \A i \in DOMAIN databases : Find(databases[i].number) = i

\* "if password is right and the db doesn't exist, then create the db": a
\* client that selects n with the password is in a database numbered n.
SelectLands ==
    [][\A c \in Clients, n \in Numbers :
         SuSelect(c, n) => databases'[cur'[c]].number = n]_vars
=============================================================================
