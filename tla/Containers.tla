----------------------------- MODULE Containers -----------------------------
(***************************************************************************)
(* The contents of lists and sets: the methods of List and Set as their    *)
(* commands call them, and what they return.                               *)
(*                                                                         *)
(* A set is an unordered_set, so its iteration order is any order.  A      *)
(* dereference of end() gives Garbage, or ends the process; a write        *)
(* through it, or an erase across it, ends the process.                    *)
(***************************************************************************)
EXTENDS Integers, Sequences

CONSTANTS
    Values,    \* elements
    Sets,      \* names of the sets
    Indices,   \* list indices and counts clients send, negative ones too
    MaxLen,    \* bound: length of the list
    Garbage,   \* what end() dereferences to
    Nil        \* no value

VARIABLES
    list,   \* data_list_
    sets,   \* data_set_ of every set
    ret,    \* what the last method returned, a value, Nil or Garbage
    alive   \* the process runs

vars == <<list, sets, ret, alive>>

\* Mutation: a negative index counts from the front.
LegalRangeMirrored(r, size) == IF r >= 0 THEN r % size ELSE (-r) % size

\* legalRange of List::Index, Trim and Set.
LegalRange(r, size) ==
    IF r >= 0 THEN r % size ELSE r + (((-r) \div size) + 1) * size

Init ==
    /\ list = <<>>
    /\ sets = [s \in Sets |-> {}]
    /\ ret = Nil
    /\ alive = TRUE

\* LPUSHF and LPUSHB, one value.
PushFront(v) ==
    /\ alive /\ Len(list) < MaxLen
    /\ list' = <<v>> \o list
    /\ ret' = Nil
    /\ UNCHANGED <<sets, alive>>
PushBack(v) ==
    /\ alive /\ Len(list) < MaxLen
    /\ list' = Append(list, v)
    /\ ret' = Nil
    /\ UNCHANGED <<sets, alive>>

\* LPOPF and LPOPB.
PopFront ==
    /\ alive
    /\ ret' = IF list = <<>> THEN Nil ELSE Head(list)
    /\ list' = IF list = <<>> THEN <<>> ELSE Tail(list)
    /\ UNCHANGED <<sets, alive>>
PopBack ==
    /\ alive
    /\ ret' = IF list = <<>> THEN Nil ELSE list[Len(list)]
    /\ list' = IF list = <<>> THEN <<>> ELSE SubSeq(list, 1, Len(list) - 1)
    /\ UNCHANGED <<sets, alive>>

\* LINDEX, one index.
Index(i) ==
    /\ alive
    /\ IF list = <<>> THEN ret' = Nil /\ UNCHANGED alive
       ELSE LET at == LegalRange(i, Len(list))
            IN IF at < Len(list) THEN ret' = list[at + 1] /\ UNCHANGED alive
               ELSE ret' = Garbage /\ alive' \in BOOLEAN
    /\ UNCHANGED <<list, sets>>

\* LREM: "!cnt == 0" holds exactly if the value is in the list, and the loops
\* after it run cnt times, so nothing is ever removed.
Rem(count, v) ==
    /\ alive
    /\ ret' = Nil
    /\ UNCHANGED <<list, sets, alive>>

\* LTRIM removes from begin to end; an end at Len(list) erases across end().
Trim(i, j) ==
    /\ alive
    /\ ret' = Nil
    /\ LET begin == LegalRange(i, Len(list))
           end == LegalRange(j, Len(list))
       IN IF list = <<>> \/ begin > end THEN UNCHANGED <<list, alive>>
          ELSE /\ list' = SubSeq(list, 1, begin) \o SubSeq(list, end + 2, Len(list))
               /\ alive' = (end < Len(list))
    /\ UNCHANGED sets

\* LSET.
Set(i, v) ==
    /\ alive
    /\ ret' = Nil
    /\ LET at == LegalRange(i, Len(list))
       IN IF list = <<>> THEN UNCHANGED <<list, alive>>
          ELSE /\ list' = IF at < Len(list) THEN [list EXCEPT ![at + 1] = v] ELSE list
               /\ alive' = (at < Len(list))
    /\ UNCHANGED sets

\* SADD and SREM, one member.
Add(s, v) ==
    /\ alive
    /\ sets' = [sets EXCEPT ![s] = @ \cup {v}]
    /\ ret' = Nil
    /\ UNCHANGED <<list, alive>>
SetRem(s, v) ==
    /\ alive
    /\ sets' = [sets EXCEPT ![s] = @ \ {v}]
    /\ ret' = Nil
    /\ UNCHANGED <<list, alive>>

\* SPOP erases the first member and returns what is then the first.
Pop(s) ==
    /\ alive
    /\ IF sets[s] = {} THEN ret' = Nil /\ UNCHANGED <<sets, alive>>
       ELSE \E first \in sets[s] :
              /\ sets' = [sets EXCEPT ![s] = @ \ {first}]
              /\ IF sets[s] = {first} THEN ret' = Garbage /\ alive' \in BOOLEAN
                 ELSE ret' \in sets[s] \ {first} /\ UNCHANGED alive
    /\ UNCHANGED list

Next ==
    \/ \E v \in Values : PushFront(v) \/ PushBack(v)
    \/ PopFront \/ PopBack
    \/ \E i \in Indices : Index(i) \/ \E v \in Values : Rem(i, v) \/ Set(i, v)
    \/ \E i, j \in Indices : Trim(i, j)
    \/ \E s \in Sets : Pop(s) \/ \E v \in Values : Add(s, v) \/ SetRem(s, v)

Spec == Init /\ [][Next]_vars

(***************************************************************************)
(* Properties.                                                             *)
(***************************************************************************)
\* LINDEX counts modulo the length, from either end; the multiples of the
\* length below zero are the exception.
IndicesWrap ==
    [][\A i \in Indices :
         /\ list # <<>> /\ ~(i < 0 /\ i % Len(list) = 0)
         /\ Index(i)
         => ret' = list[(i % Len(list)) + 1]]_vars
=============================================================================
