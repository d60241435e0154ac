------------------------------ MODULE Keyspace ------------------------------
(***************************************************************************)
(* One database (class Db) shared by the two threads that work on it: the  *)
(* command thread, which executes string and database commands one after   *)
(* another, and the timer thread, which waits in TimerQue::BlockPop and    *)
(* deletes expired keys.                                                   *)
(*                                                                         *)
(* A command is several critical sections: Db::Get returns a reference to  *)
(* the object, Db::NewStr inserts an empty one, Str::Set writes through    *)
(* the reference; Db::ExpireAt stamps the entry and TimerQue::Push queues  *)
(* the timer afterwards.  The timer thread may run between any two.        *)
(***************************************************************************)
EXTENDS Naturals, FiniteSets

CONSTANTS
    Keys,        \* key names
    Values,      \* contents a client may store in a Str
    Objects,     \* heap cells for Str objects
    MaxTime,     \* bound: the clock stops here, deadlines lie in 0..MaxTime
    MaxPending,  \* bound: queued timers with the same key and deadline
    None         \* absent entry, reference, timer or deadline

ASSUME KeyspaceAssumption ==
    /\ MaxTime \in Nat
    /\ MaxPending \in Nat \ {0}
    /\ None \notin Objects
    /\ None \notin Nat
    /\ None \notin [key : Keys, at : 0..MaxTime]
    /\ None \notin [obj : Objects, expire : (0..MaxTime) \cup {None}]

VARIABLES
    now,           \* UsTime()
    keyValueMap,   \* key_value_map_: key -> entry, or None
    heap,          \* contents of every Str object; Empty is a new Str
    que,           \* que_ of TimerQue: how many of each timer are queued
    exec,          \* command thread: program counter and locals
    timer          \* timer thread: program counter and locals

vars == <<now, keyValueMap, heap, que, exec, timer>>

Times == 0..MaxTime
Empty == "empty"
Entry == [obj : Objects, expire : Times \cup {None}]
DbExpireTimer == [key : Keys, at : Times]

\* Locals of the command thread; obj is obj_ of StrCommand, tmr the timer
\* DbCommand holds between Db::ExpireAt and MainLoop::EncounterTimer.
Idle == [pc |-> "idle", op |-> None, key |-> None, arg |-> None,
         obj |-> None, tmr |-> None]

\* pc of the timer thread: "check" is the head of the loop of BlockPop,
\* "wait" the untimed wait, "sleep" wait_until(until), "fire" a popped timer.
Checking == [pc |-> "check", until |-> None, tmr |-> None]

Queued == {t \in DbExpireTimer : que[t] > 0}

Init ==
    /\ now = 0
    /\ keyValueMap = [k \in Keys |-> None]
    /\ heap = [o \in Objects |-> Empty]
    /\ que = [t \in DbExpireTimer |-> 0]
    /\ exec = Idle
    /\ timer = Checking

(***************************************************************************)
(* Command thread.                                                         *)
(***************************************************************************)
\* An object neither the map nor the command thread refers to: what
\* make_shared may return.
Free(o) ==
    /\ exec.obj # o
    /\ \A k \in Keys : keyValueMap[k] # None => keyValueMap[k].obj # o

\* StrCommand::Exec up to obj_ = Db::Get: a missing key ends every command
\* but SET, which goes on to NewStr.  MODIFY stands for APPEND, INCRBY and
\* DECRBY, which change the object they found.
Lookup(op, k, v) ==
    /\ exec.pc = "idle"
    /\ \/ /\ keyValueMap[k] # None
          /\ exec' = [Idle EXCEPT !.pc = "apply", !.op = op, !.key = k,
                                  !.arg = v, !.obj = keyValueMap[k].obj]
       \/ /\ keyValueMap[k] = None
          /\ op = "SET"
          /\ exec' = [Idle EXCEPT !.pc = "new", !.op = op, !.key = k, !.arg = v]
    /\ UNCHANGED <<now, keyValueMap, heap, que, timer>>

\* Mutation: the map keeps a copy of the new object, the command the original.
NewStrCopy ==
    /\ exec.pc = "new"
    /\ \E o, copy \in Objects :
         /\ o # copy /\ Free(o) /\ Free(copy)
         /\ heap' = [heap EXCEPT ![o] = Empty, ![copy] = Empty]
         /\ keyValueMap' = [keyValueMap EXCEPT ![exec.key] =
                              [obj |-> copy, expire |-> None]]
         /\ exec' = [exec EXCEPT !.pc = "apply", !.obj = o]
    /\ UNCHANGED <<now, que, timer>>

\* Db::NewStr: an empty Str enters the map before it is given its value.
\* The insertion keeps an entry that is already there.
NewStr ==
    /\ exec.pc = "new"
    /\ \E o \in Objects :
         /\ Free(o)
         /\ heap' = [heap EXCEPT ![o] = Empty]
         /\ keyValueMap' =
              [keyValueMap EXCEPT ![exec.key] =
                 IF @ = None THEN [obj |-> o, expire |-> None] ELSE @]
         /\ exec' = [exec EXCEPT !.pc = "apply", !.obj = o]
    /\ UNCHANGED <<now, que, timer>>

\* Str::Set, Append, IncrBy or GetRaw on the object held, whether or not the
\* map still refers to it; then the reply.
Apply ==
    /\ exec.pc = "apply"
    /\ heap' = IF exec.op = "GET" THEN heap
               ELSE [heap EXCEPT ![exec.obj] = exec.arg]
    /\ exec' = Idle
    /\ UNCHANGED <<now, keyValueMap, que, timer>>

\* DbCommand DEL: Db::Del.
Del(k) ==
    /\ exec.pc = "idle"
    /\ keyValueMap' = [keyValueMap EXCEPT ![k] = None]
    /\ UNCHANGED <<now, heap, que, exec, timer>>

\* DbCommand EXPIRE, first part: Db::ExpireAt stamps the entry and makes
\* the timer.
ExpireAt(k, at) ==
    /\ exec.pc = "idle"
    /\ keyValueMap[k] # None
    /\ que[[key |-> k, at |-> at]] < MaxPending
    /\ keyValueMap' = [keyValueMap EXCEPT ![k].expire = at]
    /\ exec' = [Idle EXCEPT !.pc = "push", !.tmr = [key |-> k, at |-> at]]
    /\ UNCHANGED <<now, heap, que, timer>>

\* Mutation: the timer thread is not notified.
PushSilently ==
    /\ exec.pc = "push"
    /\ que' = [que EXCEPT ![exec.tmr] = @ + 1]
    /\ exec' = Idle
    /\ UNCHANGED <<now, keyValueMap, heap, timer>>

\* Mutation: a key that already has a queued timer gets no second one.
PushOncePerKey ==
    /\ exec.pc = "push"
    /\ que' = IF \E t \in Queued : t.key = exec.tmr.key THEN que
              ELSE [que EXCEPT ![exec.tmr] = @ + 1]
    /\ timer' = IF timer.pc \in {"wait", "sleep"} THEN Checking ELSE timer
    /\ exec' = Idle
    /\ UNCHANGED <<now, keyValueMap, heap>>

\* TimerQue::Push: queue the timer and notify the timer thread.  A thread
\* that waits is woken and returns to the head of its loop.
Push ==
    /\ exec.pc = "push"
    /\ que' = [que EXCEPT ![exec.tmr] = @ + 1]
    /\ timer' = IF timer.pc \in {"wait", "sleep"} THEN Checking ELSE timer
    /\ exec' = Idle
    /\ UNCHANGED <<now, keyValueMap, heap>>

(***************************************************************************)
(* Timer thread.                                                           *)
(***************************************************************************)
\* que_.top(): a queued timer with the least expire_time_us_ (TimerGreater).
Top(t) == t \in Queued /\ \A u \in Queued : t.at <= u.at

\* BlockPop, queue empty: wait on the condition variable.
WaitEmpty ==
    /\ timer.pc = "check"
    /\ Queued = {}
    /\ timer' = [Checking EXCEPT !.pc = "wait"]
    /\ UNCHANGED <<now, keyValueMap, heap, que, exec>>

\* BlockPop, the first deadline lies ahead: sleep until it is reached.
WaitDeadline ==
    /\ timer.pc = "check"
    /\ \E t \in DbExpireTimer :
         /\ Top(t)
         /\ t.at > now
         /\ timer' = [Checking EXCEPT !.pc = "sleep", !.until = t.at]
    /\ UNCHANGED <<now, keyValueMap, heap, que, exec>>

\* Mutation: wait in the place of wait_until, which only a Push ends.
WakeNever == FALSE

\* The sleep times out.
Wake ==
    /\ timer.pc = "sleep"
    /\ timer.until <= now
    /\ timer' = Checking
    /\ UNCHANGED <<now, keyValueMap, heap, que, exec>>

\* wait_until may return early for no reason; wait with a predicate goes
\* back to waiting by itself.
SpuriousWake ==
    /\ timer.pc = "sleep"
    /\ timer' = Checking
    /\ UNCHANGED <<now, keyValueMap, heap, que, exec>>

\* BlockPop, the first timer is due: pop it.
Pop ==
    /\ timer.pc = "check"
    /\ \E t \in DbExpireTimer :
         /\ Top(t)
         /\ t.at <= now
         /\ que' = [que EXCEPT ![t] = @ - 1]
         /\ timer' = [Checking EXCEPT !.pc = "fire", !.tmr = t]
    /\ UNCHANGED <<now, keyValueMap, heap, exec>>

\* DbExpireTimer::Exec: Db::Del of the key the timer was made for.
Fire ==
    /\ timer.pc = "fire"
    /\ keyValueMap' = [keyValueMap EXCEPT ![timer.tmr.key] = None]
    /\ timer' = Checking
    /\ UNCHANGED <<now, heap, que, exec>>

Tick ==
    /\ now < MaxTime
    /\ now' = now + 1
    /\ UNCHANGED <<keyValueMap, heap, que, exec, timer>>

CommandThread ==
    \/ \E op \in {"SET", "GET", "MODIFY"}, k \in Keys, v \in Values : Lookup(op, k, v)
    \/ NewStr
    \/ Apply
    \/ \E k \in Keys : Del(k)
    \/ \E k \in Keys, at \in Times : ExpireAt(k, at)
    \/ Push

TimerThread == WaitEmpty \/ WaitDeadline \/ Wake \/ Pop \/ Fire

Next == CommandThread \/ TimerThread \/ SpuriousWake \/ Tick

Spec == Init /\ [][Next]_vars

\* The operating system keeps scheduling both threads and the clock runs on;
\* clients need not send commands, so only the steps that finish a command
\* the thread has begun are fair.
FairSpec ==
    /\ Spec
    /\ WF_vars(NewStr) /\ WF_vars(Apply) /\ WF_vars(Push)
    /\ WF_vars(TimerThread)
    /\ WF_vars(Tick)

(***************************************************************************)
(* Properties.                                                             *)
(***************************************************************************)
\* Every variable stays in its range.
TypeOK ==
    /\ now \in Times
    /\ keyValueMap \in [Keys -> Entry \cup {None}]
    /\ heap \in [Objects -> Values \cup {Empty}]
    /\ que \in [DbExpireTimer -> Nat]
    /\ exec \in [pc : {"idle", "new", "apply", "push"},
                 op : {"SET", "GET", "MODIFY", None},
                 key : Keys \cup {None}, arg : Values \cup {None},
                 obj : Objects \cup {None}, tmr : DbExpireTimer \cup {None}]
    /\ timer \in [pc : {"check", "wait", "sleep", "fire"},
                  until : Times \cup {None}, tmr : DbExpireTimer \cup {None}]

\* An entry that carries a deadline (KeyValue::expire_time_us_) always has a
\* timer with that deadline on its way to Db::Del: queued, popped by the
\* timer thread, or about to be pushed by the command thread.
DeadlineCovered ==
    \A k \in Keys :
      keyValueMap[k] # None /\ keyValueMap[k].expire # None =>
        LET t == [key |-> k, at |-> keyValueMap[k].expire]
        IN  t \in Queued \/ exec.tmr = t \/ timer.tmr = t

\* The timer thread never sleeps past the first queued deadline and never
\* waits for a notification while a timer is queued (BlockPop against Push).
NoOversleep ==
    /\ timer.pc = "wait" => Queued = {}
    /\ timer.pc = "sleep" => \A t \in Queued : timer.until <= t.at

\* When SET is acknowledged its value is what the key now holds, unless the
\* timer thread has removed the key since Db::Get: the reference obtained
\* then never goes to an object the map has replaced by another.
SetVisibleOrExpired ==
    [][exec.pc = "apply" /\ exec.op = "SET" /\ exec'.pc = "idle" =>
         \/ keyValueMap'[exec.key] = None
         \/ heap'[keyValueMap'[exec.key].obj] = exec.arg]_vars

\* What a key holds changes only by a command on that key or by its removal:
\* no two keys, and no key and a detached object, ever share a Str.
OnlyOwnKeyChanges ==
    [][\A k \in Keys :
         /\ keyValueMap[k] # None /\ keyValueMap'[k] # None
         /\ heap[keyValueMap[k].obj] # heap'[keyValueMap'[k].obj]
         => exec.key = k]_vars

\* A deadline is eventually acted on: the entry stamped with it is removed, or
\* stamped with another one.  BlockPop takes the earliest timer, so the only
\* thing that can keep it waiting for ever is a stream of EXPIREs of other keys
\* with deadlines that are no later.
DeadlineActedOn ==
    \A k \in Keys, at \in Times :
      <>[](keyValueMap[k] # None /\ keyValueMap[k].expire = at) =>
        []<>(exec.pc = "push" /\ exec.tmr.key # k /\ exec.tmr.at <= at)

\* The README calls EXPIRE "remove a kv after n secs" and WHEN "when will the
\* expiring kv be removed": the timer thread removes an entry only at the
\* deadline the entry carries.
RemovedAtItsDeadline ==
    [][timer.pc = "fire" /\ timer'.pc = "check" /\
       keyValueMap[timer.tmr.key] # None =>
         keyValueMap[timer.tmr.key].expire = timer.tmr.at]_vars
=============================================================================
