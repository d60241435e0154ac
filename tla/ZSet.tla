-------------------------------- MODULE ZSet --------------------------------
(***************************************************************************)
(* A sorted set (class ZSet): three structures that mirror each other.     *)
(* sequence_list_ keeps the members in the order they arrived, member_map_ *)
(* finds a member's node, rank_map_ (a multimap) orders the members by     *)
(* score and, among equal scores, by when they got that score.  Rem and    *)
(* IncrBy find a member in rank_map_ by a scan that starts at its score    *)
(* and stops only at the member.                                           *)
(***************************************************************************)
EXTENDS Integers, Sequences, FiniteSets

CONSTANTS
    Members,    \* members, numbered in lexical order
    Scores,     \* scores explored; sums outside lie beyond the bound
    Deltas      \* arguments of ZINCRBY and ZDECRBY

VARIABLES
    sequence,   \* sequence_list_: nodes in order of arrival
    memberMap,  \* keys of member_map_; a key's node is the one with its member
    rank,       \* rank_map_: entries in order
    fault       \* a scan of rank_map_ has run past its end

vars == <<sequence, memberMap, rank, fault>>

Node == [mem : Members, score : Scores]

Init ==
    /\ sequence = <<>>
    /\ memberMap = {}
    /\ rank = <<>>
    /\ fault = FALSE

\* member_map_.find(m)->second, and the score it points to.
NodeOf(m) == CHOOSE i \in DOMAIN sequence : sequence[i].mem = m
Score(m) == sequence[NodeOf(m)].score

\* rank_map_.upper_bound(s): the first entry beyond s, or the end.  Scores
\* are integers, so lower_bound(s) is the first one beyond s - 1.
UpperBound(r, s) ==
    CHOOSE i \in 1..Len(r) + 1 :
        /\ \A j \in 1..i - 1 : r[j].score <= s
        /\ i <= Len(r) => r[i].score > s
LowerBound(r, s) == UpperBound(r, s - 1)

\* erase(it) of sequence_list_ or rank_map_.
Erase(r, it) == [i \in 1..Len(r) - 1 |-> IF i < it THEN r[i] ELSE r[i + 1]]

\* Mutation: the new entry goes to the end of the map.
InsertLast(r, s, m) == Append(r, [mem |-> m, score |-> s])

\* rank_map_.insert({s, m}): after the entries with the same score.
Insert(r, s, m) ==
    LET it == UpperBound(r, s)
    IN [i \in 1..Len(r) + 1 |->
          CASE i < it -> r[i] [] i = it -> [mem |-> m, score |-> s] [] i > it -> r[i - 1]]

\* while (it->second != pos) it++: 0 when the scan leaves the map.
Scan(from, m) ==
    LET found == {i \in from..Len(rank) : rank[i].mem = m}
    IN IF found = {} THEN 0 ELSE CHOOSE i \in found : \A j \in found : i <= j

\* A new set: the nodes of q are added one by one.
Rebuilt(q) ==
    LET added[n \in 0..Len(q)] ==
          IF n = 0 THEN <<>> ELSE Insert(added[n - 1], q[n].score, q[n].mem)
    IN added[Len(q)]

\* ZSet::Add.  A member that is there already keeps its score.
Add(s, m) ==
    /\ IF m \in memberMap
         THEN UNCHANGED <<sequence, memberMap, rank>>
         ELSE /\ memberMap' = memberMap \cup {m}
              /\ sequence' = Append(sequence, [mem |-> m, score |-> s])
              /\ rank' = Insert(rank, s, m)
    /\ UNCHANGED fault

\* Mutation: the scan starts behind the entries with the member's score.
RemFromUpper(s, m) ==
    /\ IF m \notin memberMap \/ Score(m) # s
         THEN UNCHANGED <<sequence, memberMap, rank, fault>>
         ELSE LET it == Scan(UpperBound(rank, s), m)
              IN  /\ sequence' = Erase(sequence, NodeOf(m))
                  /\ rank' = IF it = 0 THEN rank ELSE Erase(rank, it)
                  /\ fault' = (fault \/ it = 0)
                  /\ memberMap' = memberMap \ {m}

\* Mutation: everything with the score goes, as rank_map_.erase(score) would.
RemAllEqual(s, m) ==
    /\ IF m \notin memberMap \/ Score(m) # s
         THEN UNCHANGED <<sequence, memberMap, rank>>
         ELSE /\ sequence' = SelectSeq(sequence, LAMBDA e : e.score # s)
              /\ rank' = SelectSeq(rank, LAMBDA e : e.score # s)
              /\ memberMap' = {k \in memberMap : Score(k) # s}
    /\ UNCHANGED fault

\* ZSet::Rem, which wants the member's score as well.
Rem(s, m) ==
    /\ IF m \notin memberMap \/ Score(m) # s
         THEN UNCHANGED <<sequence, memberMap, rank, fault>>
         ELSE LET it == Scan(UpperBound(rank, s - 1), m)
              IN  /\ sequence' = Erase(sequence, NodeOf(m))
                  /\ rank' = IF it = 0 THEN rank ELSE Erase(rank, it)
                  /\ fault' = (fault \/ it = 0)
                  /\ memberMap' = memberMap \ {m}

\* ZSet::IncrBy of a member that is there: the rank entry moves, the node
\* gets the sum in place.
Move(d, m) ==
    LET s == Score(m)
        it == Scan(LowerBound(rank, s), m)
    IN  /\ s + d \in Scores
        /\ rank' = Insert(IF it = 0 THEN rank ELSE Erase(rank, it), s + d, m)
        /\ sequence' = [sequence EXCEPT ![NodeOf(m)].score = s + d]
        /\ fault' = (fault \/ it = 0)
        /\ UNCHANGED memberMap

IncrBy(d, m) ==
    /\ IF m \in memberMap THEN Move(d, m)
       ELSE UNCHANGED <<sequence, memberMap, rank, fault>>

\* ZDECRBY: ZSetCommand hands DecrBy whether the argument is an integer, 1,
\* rather than the integer.
DecrBy(d, m) ==
    /\ IF m \in memberMap THEN Move(-1, m)
       ELSE UNCHANGED <<sequence, memberMap, rank, fault>>

\* ZSet::EncodeValue to a file and DecodeValue into a new set: sequence_list_
\* is replayed, so rank_map_ is rebuilt in order of arrival.
Reload ==
    /\ rank' = Rebuilt(sequence)
    /\ UNCHANGED <<sequence, memberMap, fault>>

\* A rewrite of the log and its replay: ZSet::Fork writes the scores and
\* members in order of arrival, RawCommandToRequest drops the dash of a
\* negative score, and one ZADD adds them.
Rewrite ==
    LET abs(s) == IF s < 0 THEN -s ELSE s
    IN  /\ sequence' = [i \in DOMAIN sequence |-> [sequence[i] EXCEPT !.score = abs(@)]]
        /\ rank' = Rebuilt(sequence')
        /\ UNCHANGED <<memberMap, fault>>

Next ==
    \/ \E s \in Scores, m \in Members : Add(s, m) \/ Rem(s, m)
    \/ \E d \in Deltas, m \in Members : IncrBy(d, m) \/ DecrBy(d, m)
    \/ Reload \/ Rewrite

Spec == Init /\ [][Next]_vars

(***************************************************************************)
(* Properties.                                                             *)
(***************************************************************************)
Nodes(q) == {q[i] : i \in DOMAIN q}

\* sequence_list_ and rank_map_ hold the same members with the same scores,
\* each once, exactly those of member_map_, and rank_map_ is in order.
Mirrored ==
    /\ {e.mem : e \in Nodes(sequence)} = memberMap
    /\ Len(sequence) = Cardinality(memberMap)
    /\ Nodes(rank) = Nodes(sequence)
    /\ Len(rank) = Len(sequence)
    /\ \A i, j \in DOMAIN rank : i < j => rank[i].score <= rank[j].score

\* The scans of Rem and IncrBy, which test for nothing but the member, find
\* it before the end of rank_map_.
ScanFinds == ~fault

\* The three structures implement a set of members with scores.
Scored == INSTANCE SortedSet WITH scores <- [m \in memberMap |-> Score(m)]
RefinesSortedSet == Scored!Spec
=============================================================================
