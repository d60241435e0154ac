--------------------------- MODULE KeyspaceProofs ---------------------------
(***************************************************************************)
(* Proofs, for all key sets, values and bounds, of the safety properties   *)
(* of Keyspace.                                                            *)
(***************************************************************************)
EXTENDS Keyspace, TLAPS

\* What the program counters of the two threads say about their locals.
Locals ==
    /\ exec.pc = "idle" => exec = Idle
    /\ exec.pc = "new" => /\ exec.key \in Keys /\ exec.arg \in Values
                          /\ exec.obj = None /\ exec.tmr = None
    /\ exec.pc = "apply" => /\ exec.key \in Keys /\ exec.arg \in Values
                            /\ exec.obj \in Objects /\ exec.tmr = None
    /\ exec.pc = "push" => exec.tmr \in DbExpireTimer /\ exec.key = None
    /\ timer.pc = "fire" => timer.tmr \in DbExpireTimer
    /\ timer.pc # "fire" => timer.tmr = None
    /\ timer.pc = "sleep" => timer.until \in Times

\* The reference the command thread holds: the map may have dropped the key,
\* but has put nothing else in its place, and no other key uses the object.
References ==
    /\ exec.pc = "new" => keyValueMap[exec.key] = None
    /\ exec.pc = "apply" =>
         \A k \in Keys : keyValueMap[k] # None =>
           (keyValueMap[k].obj = exec.obj <=> k = exec.key)
    /\ \A j, k \in Keys :
         keyValueMap[j] # None /\ keyValueMap[k] # None /\ j # k =>
           keyValueMap[j].obj # keyValueMap[k].obj

IInv == TypeOK /\ Locals /\ References /\ DeadlineCovered /\ NoOversleep

\* A fresh database, an empty timer queue and idle threads satisfy the
\* inductive invariant.
LEMMA InitIInv == Init => IInv
BY KeyspaceAssumption
   DEF Init, IInv, TypeOK, Locals, References, DeadlineCovered, NoOversleep,
       Idle, Checking, Queued, Times, Entry, DbExpireTimer, Empty

\* No step of either thread takes a variable out of its range.
LEMMA StepTypeOK == TypeOK /\ Locals /\ [Next]_vars => TypeOK'
<1> SUFFICES ASSUME TypeOK, Locals, [Next]_vars PROVE TypeOK'
  OBVIOUS
<1> USE DEF TypeOK
<1>1. ASSUME NEW op \in {"SET", "GET", "MODIFY"}, NEW k \in Keys, NEW v \in Values,
             Lookup(op, k, v)
      PROVE TypeOK'
  <2>1. keyValueMap[k] # None => keyValueMap[k].obj \in Objects
    BY DEF Entry
  <2> QED BY <1>1, <2>1 DEF Lookup, Idle
<1>2. CASE NewStr
  <2> PICK o \in Objects :
         /\ heap' = [heap EXCEPT ![o] = Empty]
         /\ keyValueMap' =
              [keyValueMap EXCEPT ![exec.key] =
                 IF @ = None THEN [obj |-> o, expire |-> None] ELSE @]
         /\ exec' = [exec EXCEPT !.pc = "apply", !.obj = o]
    BY <1>2 DEF NewStr
  <2>1. UNCHANGED <<now, que, timer>> /\ exec.key \in Keys
    BY <1>2 DEF NewStr, Locals
  <2>2. keyValueMap' \in [Keys -> Entry \cup {None}]
    BY <2>1 DEF Entry
  <2>3. heap' \in [Objects -> Values \cup {Empty}]
    OBVIOUS
  <2> QED BY <2>1, <2>2, <2>3
<1>3. CASE Apply
  BY <1>3 DEF Apply, Locals, Idle
<1>4. ASSUME NEW k \in Keys, Del(k) PROVE TypeOK'
  BY <1>4 DEF Del
<1>5. ASSUME NEW k \in Keys, NEW at \in Times, ExpireAt(k, at) PROVE TypeOK'
  BY <1>5, KeyspaceAssumption DEF ExpireAt, Idle, Entry, DbExpireTimer
<1>6. CASE Push
  <2>1. que' \in [DbExpireTimer -> Nat]
    BY <1>6 DEF Push, Locals
  <2>2. timer' \in [pc : {"check", "wait", "sleep", "fire"},
                    until : Times \cup {None}, tmr : DbExpireTimer \cup {None}]
    BY <1>6 DEF Push, Checking
  <2> QED BY <1>6, <2>1, <2>2 DEF Push, Idle
<1>7. CASE WaitEmpty
  BY <1>7 DEF WaitEmpty, Checking
<1>8. CASE WaitDeadline
  BY <1>8 DEF WaitDeadline, Checking, DbExpireTimer
<1>9. CASE Wake \/ SpuriousWake
  BY <1>9 DEF Wake, SpuriousWake, Checking
<1>10. CASE Pop
  <2> PICK t \in DbExpireTimer :
         /\ que[t] > 0
         /\ que' = [que EXCEPT ![t] = @ - 1]
         /\ timer' = [Checking EXCEPT !.pc = "fire", !.tmr = t]
    BY <1>10 DEF Pop, Top, Queued
  <2>1. que' \in [DbExpireTimer -> Nat]
    OBVIOUS
  <2> QED BY <1>10, <2>1 DEF Pop, Checking
<1>11. CASE Fire
  BY <1>11 DEF Fire, Locals, Checking
<1>12. CASE Tick
  BY <1>12, KeyspaceAssumption DEF Tick, Times
<1>13. CASE UNCHANGED vars
  BY <1>13 DEF vars
<1> QED
  BY <1>1, <1>2, <1>3, <1>4, <1>5, <1>6, <1>7, <1>8, <1>9, <1>10, <1>11, <1>12,
     <1>13 DEF Next, CommandThread, TimerThread

\* The locals a program counter needs are set whenever a thread is there:
\* what Exec and BlockPop assign before they release a latch.
LEMMA StepLocals == TypeOK /\ Locals /\ [Next]_vars => Locals'
<1> SUFFICES ASSUME TypeOK, Locals, [Next]_vars PROVE Locals'
  OBVIOUS
<1>1. ASSUME NEW op \in {"SET", "GET", "MODIFY"}, NEW k \in Keys, NEW v \in Values,
             Lookup(op, k, v)
      PROVE Locals'
  <2>1. keyValueMap[k] # None => keyValueMap[k].obj \in Objects
    BY DEF TypeOK, Entry
  <2> QED BY <1>1, <2>1 DEF Lookup, Idle, Locals
<1>2. CASE NewStr
  BY <1>2 DEF NewStr, Locals, TypeOK
<1>3. CASE Apply
  BY <1>3 DEF Apply, Locals, Idle
<1>4. ASSUME NEW k \in Keys, Del(k) PROVE Locals'
  BY <1>4 DEF Del, Locals
<1>5. ASSUME NEW k \in Keys, NEW at \in Times, ExpireAt(k, at) PROVE Locals'
  BY <1>5 DEF ExpireAt, Idle, Locals, DbExpireTimer
<1>6. CASE Push
  BY <1>6 DEF Push, Locals, Idle, Checking
<1>7. CASE WaitEmpty
  BY <1>7 DEF WaitEmpty, Checking, Locals
<1>8. CASE WaitDeadline
  BY <1>8 DEF WaitDeadline, Checking, Locals, DbExpireTimer
<1>9. CASE Wake \/ SpuriousWake
  BY <1>9 DEF Wake, SpuriousWake, Checking, Locals
<1>10. CASE Pop
  BY <1>10 DEF Pop, Checking, Locals
<1>11. CASE Fire
  BY <1>11 DEF Fire, Checking, Locals
<1>12. CASE Tick
  BY <1>12 DEF Tick, Locals
<1>13. CASE UNCHANGED vars
  BY <1>13 DEF vars, Locals
<1> QED
  BY <1>1, <1>2, <1>3, <1>4, <1>5, <1>6, <1>7, <1>8, <1>9, <1>10, <1>11, <1>12,
     <1>13 DEF Next, CommandThread, TimerThread

\* No step makes two keys, or a key and the object of a SET on another key,
\* share a Str.
LEMMA StepReferences == TypeOK /\ Locals /\ References /\ [Next]_vars => References'
<1> SUFFICES ASSUME TypeOK, Locals, References, [Next]_vars PROVE References'
  OBVIOUS
<1>0. ASSUME NEW j \in Keys, keyValueMap' = [keyValueMap EXCEPT ![j] = None], exec' = exec
      PROVE References'
  BY <1>0 DEF References, TypeOK
<1>1. ASSUME NEW op \in {"SET", "GET", "MODIFY"}, NEW k \in Keys, NEW v \in Values,
             Lookup(op, k, v)
      PROVE References'
  <2>1. /\ keyValueMap' = keyValueMap /\ exec'.key = k
        /\ \/ keyValueMap[k] # None /\ exec'.pc = "apply" /\ exec'.obj = keyValueMap[k].obj
           \/ keyValueMap[k] = None /\ exec'.pc = "new"
    BY <1>1 DEF Lookup, Idle
  <2> QED BY <2>1 DEF References
<1>2. CASE NewStr
  <2> PICK o \in Objects :
         /\ Free(o)
         /\ keyValueMap' =
              [keyValueMap EXCEPT ![exec.key] =
                 IF @ = None THEN [obj |-> o, expire |-> None] ELSE @]
         /\ exec' = [exec EXCEPT !.pc = "apply", !.obj = o]
    BY <1>2 DEF NewStr
  <2>1. exec.key \in Keys /\ keyValueMap[exec.key] = None
    BY <1>2 DEF NewStr, Locals, References
  <2>2. /\ keyValueMap'[exec.key] = [obj |-> o, expire |-> None]
        /\ \A k \in Keys \ {exec.key} : keyValueMap'[k] = keyValueMap[k]
    BY <2>1 DEF TypeOK
  <2>3. exec'.pc = "apply" /\ exec'.obj = o /\ exec'.key = exec.key
    BY DEF TypeOK
  <2> QED BY <2>1, <2>2, <2>3 DEF References, Free
<1>3. CASE Apply
  BY <1>3 DEF Apply, References, Idle
<1>4. ASSUME NEW k \in Keys, Del(k) PROVE References'
  BY <1>0, <1>4 DEF Del
<1>5. ASSUME NEW k \in Keys, NEW at \in Times, ExpireAt(k, at) PROVE References'
  <2>1. \A j \in Keys : /\ keyValueMap'[j] = None <=> keyValueMap[j] = None
                        /\ keyValueMap[j] # None => keyValueMap'[j].obj = keyValueMap[j].obj
    BY <1>5, KeyspaceAssumption DEF ExpireAt, TypeOK, Entry, Times
  <2> QED BY <1>5, <2>1 DEF ExpireAt, Idle, References
<1>6. CASE Push
  BY <1>6 DEF Push, References, Idle
<1>7. CASE WaitEmpty \/ WaitDeadline \/ Wake \/ SpuriousWake \/ Pop \/ Tick \/ UNCHANGED vars
  BY <1>7 DEF WaitEmpty, WaitDeadline, Wake, SpuriousWake, Pop, Tick, vars, References
<1>8. CASE Fire
  BY <1>0, <1>8 DEF Fire, Locals, DbExpireTimer
<1> QED
  BY <1>1, <1>2, <1>3, <1>4, <1>5, <1>6, <1>7, <1>8
     DEF Next, CommandThread, TimerThread

\* What DeadlineCovered asks of the key k, as a predicate on its timer.
Covered(t) == t \in Queued \/ exec.tmr = t \/ timer.tmr = t

\* Adding one occurrence of t to the queue adds t to the queued timers;
\* taking one away removes at most t.
LEMMA QueuedAdd ==
    ASSUME TypeOK, NEW t \in DbExpireTimer, que' = [que EXCEPT ![t] = @ + 1]
    PROVE  Queued' = Queued \cup {t}
BY DEF TypeOK, Queued

\* TimerQue::BlockPop takes one occurrence of a timer from the queue.
LEMMA QueuedDrop ==
    ASSUME TypeOK, NEW t \in DbExpireTimer, que' = [que EXCEPT ![t] = @ - 1]
    PROVE  Queued' \subseteq Queued /\ Queued \subseteq Queued' \cup {t}
BY DEF TypeOK, Queued

\* A step that leaves que_ alone leaves the queued timers alone.
LEMMA QueuedSame == que' = que => Queued' = Queued
BY DEF Queued

\* No step of either thread loses the timer of a stamped deadline.
LEMMA StepDeadlineCovered ==
    TypeOK /\ Locals /\ DeadlineCovered /\ [Next]_vars => DeadlineCovered'
<1> SUFFICES ASSUME TypeOK, Locals, DeadlineCovered, [Next]_vars,
                    NEW k \in Keys, NEW e, keyValueMap'[k] # None,
                    e # None, keyValueMap'[k].expire = e,
                    NEW t, t = [key |-> k, at |-> e]
             PROVE  Covered(t)'
  BY DEF DeadlineCovered, Covered
<1>a. TypeOK'
  BY StepTypeOK
<1>b. e \in Times
  BY <1>a DEF TypeOK, Entry
<1>c. t \in DbExpireTimer /\ t # None
  BY <1>b, KeyspaceAssumption DEF DbExpireTimer, Times
<1>d. keyValueMap[k] = keyValueMap'[k] => Covered(t)
  BY DEF DeadlineCovered, Covered
<1>1. ASSUME NEW op \in {"SET", "GET", "MODIFY"}, NEW j \in Keys, NEW v \in Values,
             Lookup(op, j, v)
      PROVE Covered(t)'
  <2>1. exec.tmr = None
    BY <1>1 DEF Lookup, Locals, Idle
  <2> QED BY <1>1, <1>c, <1>d, <2>1, QueuedSame DEF Lookup, Covered
<1>2. CASE NewStr
  <2>1. /\ UNCHANGED <<que, timer>> /\ exec.tmr = None /\ exec.key \in Keys
        /\ \E o \in Objects : keyValueMap' =
              [keyValueMap EXCEPT ![exec.key] =
                 IF @ = None THEN [obj |-> o, expire |-> None] ELSE @]
    BY <1>2 DEF NewStr, Locals
  <2>2. keyValueMap'[k] = keyValueMap[k]
    BY <2>1 DEF TypeOK
  <2> QED BY <2>1, <2>2, <1>c, <1>d, QueuedSame DEF Covered
<1>3. CASE Apply
  <2>1. exec.tmr = None
    BY <1>3 DEF Apply, Locals
  <2> QED BY <1>3, <1>c, <1>d, <2>1, QueuedSame DEF Apply, Covered
<1>4. ASSUME NEW j \in Keys, Del(j) PROVE Covered(t)'
  <2>1. keyValueMap'[k] = keyValueMap[k]
    BY <1>4 DEF Del, TypeOK
  <2> QED BY <1>4, <2>1, <1>d, QueuedSame DEF Del, Covered
<1>5. ASSUME NEW j \in Keys, NEW at \in Times, ExpireAt(j, at) PROVE Covered(t)'
  <2>1. CASE j = k
    <3>1. e = at
      BY <1>5, <2>1 DEF ExpireAt, TypeOK, Entry
    <3> QED BY <1>5, <2>1, <3>1 DEF ExpireAt, Covered, Idle
  <2>2. CASE j # k
    <3>1. keyValueMap'[k] = keyValueMap[k] /\ exec.tmr = None
      BY <1>5, <2>2 DEF ExpireAt, TypeOK, Locals, Idle
    <3> QED BY <1>5, <3>1, <1>c, <1>d, QueuedSame DEF ExpireAt, Covered
  <2> QED BY <2>1, <2>2
<1>6. CASE Push
  <2>1. Queued' = Queued \cup {exec.tmr}
    BY <1>6, QueuedAdd DEF Push, Locals
  <2>2. timer.tmr = t => timer' = timer
    BY <1>6, <1>c DEF Push, Locals
  <2> QED BY <1>6, <1>d, <2>1, <2>2 DEF Push, Covered
<1>7. CASE WaitEmpty \/ WaitDeadline \/ Wake \/ SpuriousWake
  <2>1. timer.tmr = None
    BY <1>7 DEF WaitEmpty, WaitDeadline, Wake, SpuriousWake, Locals
  <2> QED BY <1>7, <2>1, <1>c, <1>d, QueuedSame
          DEF WaitEmpty, WaitDeadline, Wake, SpuriousWake, Covered
<1>8. CASE Pop
  <2> PICK u \in DbExpireTimer : /\ que' = [que EXCEPT ![u] = @ - 1]
                                 /\ timer' = [Checking EXCEPT !.pc = "fire", !.tmr = u]
    BY <1>8 DEF Pop
  <2>1. Queued \subseteq Queued' \cup {u}
    BY QueuedDrop
  <2>2. timer.tmr = None /\ timer'.tmr = u
    BY <1>8 DEF Pop, Locals, Checking
  <2> QED BY <1>8, <1>c, <1>d, <2>1, <2>2 DEF Pop, Covered
<1>9. CASE Fire
  <2>1. keyValueMap'[k] = keyValueMap[k] /\ timer.tmr.key # k
    BY <1>9 DEF Fire, TypeOK, Locals, DbExpireTimer
  <2>2. timer.tmr # t
    BY <2>1
  <2> QED BY <1>9, <1>d, <2>1, <2>2, QueuedSame DEF Fire, Covered
<1>10. CASE Tick \/ UNCHANGED vars
  BY <1>10, <1>d, QueuedSame DEF Tick, vars, Covered
<1> QED
  BY <1>1, <1>2, <1>3, <1>4, <1>5, <1>6, <1>7, <1>8, <1>9, <1>10
     DEF Next, CommandThread, TimerThread

\* No step puts the timer thread to sleep past a queued deadline, and Push
\* wakes it whenever it could.
LEMMA StepNoOversleep ==
    TypeOK /\ Locals /\ NoOversleep /\ [Next]_vars => NoOversleep'
<1> SUFFICES ASSUME TypeOK, Locals, NoOversleep, [Next]_vars PROVE NoOversleep'
  OBVIOUS
<1>1. ASSUME UNCHANGED <<que, timer>> PROVE NoOversleep'
  BY <1>1, QueuedSame DEF NoOversleep
<1>2. CASE CommandThread /\ ~Push
  <2>1. UNCHANGED <<que, timer>>
    BY <1>2 DEF CommandThread, Lookup, NewStr, Apply, Del, ExpireAt
  <2> QED BY <1>1, <2>1
<1>3. CASE Push
  BY <1>3 DEF Push, NoOversleep, Checking, TypeOK
<1>4. CASE WaitEmpty
  BY <1>4, QueuedSame DEF WaitEmpty, NoOversleep, Checking
<1>5. CASE WaitDeadline
  BY <1>5, QueuedSame DEF WaitDeadline, NoOversleep, Checking, Top
<1>6. CASE Wake \/ SpuriousWake \/ Pop \/ Fire
  <2>0. Pop => timer'.pc = "fire"
    BY DEF Pop, Checking
  <2>1. timer'.pc \in {"check", "fire"}
    BY <1>6, <2>0 DEF Wake, SpuriousWake, Fire, Checking
  <2> QED BY <2>1 DEF NoOversleep
<1>7. CASE Tick \/ UNCHANGED vars
  BY <1>1, <1>7 DEF Tick, vars
<1> QED
  BY <1>2, <1>3, <1>4, <1>5, <1>6, <1>7 DEF Next, TimerThread

\* The inductive invariant is preserved by every step.
LEMMA StepIInv == IInv /\ [Next]_vars => IInv'
BY StepTypeOK, StepLocals, StepReferences, StepDeadlineCovered, StepNoOversleep
   DEF IInv

\* The inductive invariant holds in every reachable state.
LEMMA Inductive == Spec => []IInv
BY InitIInv, StepIInv, PTL DEF Spec

\* The variables of Db, TimerQue and the two threads stay in their ranges.
THEOREM TypeCorrect == Spec => []TypeOK
<1>1. IInv => TypeOK
  BY DEF IInv
<1> QED BY <1>1, Inductive, PTL

\* However the threads interleave, a deadline stamped by Db::ExpireAt has a
\* timer on its way until the entry is gone or stamped anew.
THEOREM DeadlinesAreCovered == Spec => []DeadlineCovered
<1>1. IInv => DeadlineCovered
  BY DEF IInv
<1> QED BY <1>1, Inductive, PTL

\* TimerQue::Push and TimerQue::BlockPop lose no wake-up.
THEOREM TimerThreadWakes == Spec => []NoOversleep
<1>1. IInv => NoOversleep
  BY DEF IInv
<1> QED BY <1>1, Inductive, PTL

\* The value SET acknowledges is in the map, or the key has been removed.
THEOREM SetIsVisible == Spec => SetVisibleOrExpired
<1>1. ASSUME IInv, [Next]_vars
      PROVE  [exec.pc = "apply" /\ exec.op = "SET" /\ exec'.pc = "idle" =>
               \/ keyValueMap'[exec.key] = None
               \/ heap'[keyValueMap'[exec.key].obj] = exec.arg]_vars
  <2> SUFFICES ASSUME exec.pc = "apply", exec.op = "SET", exec'.pc = "idle",
                      keyValueMap'[exec.key] # None
               PROVE  heap'[keyValueMap'[exec.key].obj] = exec.arg
    OBVIOUS
  <2>1. Apply
    BY <1>1 DEF Next, CommandThread, TimerThread, Lookup, NewStr, Del, ExpireAt, Push,
                WaitEmpty, WaitDeadline, Wake, SpuriousWake, Pop, Fire, Tick, vars
  <2>2. exec.key \in Keys /\ exec.obj \in Objects
    BY <1>1 DEF IInv, Locals
  <2>3. keyValueMap' = keyValueMap /\ heap' = [heap EXCEPT ![exec.obj] = exec.arg]
    BY <2>1 DEF Apply
  <2>4. keyValueMap[exec.key].obj = exec.obj
    BY <1>1, <2>2, <2>3 DEF IInv, References
  <2> QED BY <1>1, <2>2, <2>3, <2>4 DEF IInv, TypeOK
<1> QED BY <1>1, Inductive, PTL DEF Spec, SetVisibleOrExpired

\* No command and no timer changes what another key holds.
THEOREM KeysAreIsolated == Spec => OnlyOwnKeyChanges
<1> DEFINE A == \A k \in Keys :
                  /\ keyValueMap[k] # None /\ keyValueMap'[k] # None
                  /\ heap[keyValueMap[k].obj] # heap'[keyValueMap'[k].obj]
                  => exec.key = k
<1>1. ASSUME IInv, [Next]_vars PROVE [A]_vars
  <2> SUFFICES ASSUME NEW k \in Keys, keyValueMap[k] # None, keyValueMap'[k] # None,
                      heap[keyValueMap[k].obj] # heap'[keyValueMap'[k].obj],
                      exec.key # k
               PROVE  FALSE
    OBVIOUS
  <2>1. keyValueMap'[k].obj = keyValueMap[k].obj
    <3>1. CASE NewStr
      BY <1>1, <3>1 DEF NewStr, IInv, TypeOK
    <3>2. ASSUME NEW j \in Keys, Del(j) PROVE keyValueMap'[k] = keyValueMap[k]
      BY <1>1, <3>2 DEF Del, IInv, TypeOK
    <3>3. ASSUME NEW j \in Keys, NEW at \in Times, ExpireAt(j, at)
          PROVE  keyValueMap'[k].obj = keyValueMap[k].obj
      BY <1>1, <3>3 DEF ExpireAt, IInv, TypeOK, Entry
    <3>4. CASE Fire
      BY <1>1, <3>4 DEF Fire, IInv, TypeOK
    <3>5. CASE keyValueMap' = keyValueMap
      BY <3>5
    <3> QED
      BY <1>1, <3>1, <3>2, <3>3, <3>4, <3>5
         DEF Next, CommandThread, TimerThread, Lookup, Apply, Push, WaitEmpty,
             WaitDeadline, Wake, SpuriousWake, Pop, Tick, vars
  <2>2. CASE NewStr
    <3>1. PICK o \in Objects : Free(o) /\ heap' = [heap EXCEPT ![o] = Empty]
      BY <2>2 DEF NewStr
    <3>2. keyValueMap[k].obj \in Objects \ {o}
      BY <1>1, <3>1 DEF Free, IInv, TypeOK, Entry
    <3> QED BY <1>1, <2>1, <3>1, <3>2 DEF IInv, TypeOK
  <2>3. CASE Apply
    <3>1. keyValueMap[k].obj \in Objects /\ keyValueMap[k].obj # exec.obj
      BY <1>1, <2>3 DEF Apply, IInv, References, TypeOK, Entry
    <3> QED BY <1>1, <2>1, <2>3, <3>1 DEF Apply, IInv, TypeOK
  <2>4. CASE heap' = heap
    BY <2>1, <2>4
  <2> QED
    BY <1>1, <2>2, <2>3, <2>4
       DEF Next, CommandThread, TimerThread, Lookup, Del, ExpireAt, Push,
           WaitEmpty, WaitDeadline, Wake, SpuriousWake, Pop, Fire, Tick, vars
<1> QED BY <1>1, Inductive, PTL DEF Spec, OnlyOwnKeyChanges
=============================================================================
