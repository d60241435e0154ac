--------------------------- MODULE RecoveryProofs ---------------------------
(***************************************************************************)
(* Proofs, for all keys, values and bounds, of what Recovery says about    *)
(* deadlines and about restarts, from a dump file and from a log.          *)
(***************************************************************************)
EXTENDS Recovery, FiniteSetTheorems, TLAPS

Entries == [Keys -> Entry \cup {None}]

AllRequests ==
    [op : {"SET"}, key : Keys, arg : Values]
    \cup [op : {"EXPIRE"}, key : Keys, arg : Times]
    \cup [op : {"DEL"}, key : Keys, arg : {None}]

TypeOK ==
    /\ aof \in BOOLEAN /\ up \in BOOLEAN
    /\ now \in Times
    /\ db \in Entries /\ dump \in Entries
    /\ que \in [DbExpireTimer -> Nat]
    /\ log \in Seq(AllRequests)
    /\ cache \in Seq(AllRequests)
    /\ replay \in Seq(AllRequests)

\* Without a log nothing is replayed, and a dump file is what a restart is
\* expected to bring back.  Once it has, an entry is as it was or has gone at
\* its deadline, and only the deadlines of what came back have timers.
FromDump ==
    ~aof =>
      /\ log = <<>> /\ cache = <<>> /\ replay = <<>>
      /\ want # None => want \in Entries
      /\ want # None /\ ~up => dump = want
      /\ want # None /\ up =>
           /\ \A k \in Keys : db[k] = want[k] \/ (db[k] = None /\ Expired(want[k]))
           /\ \A t \in Queued : want[t.key] # None /\ want[t.key].expire = t.at

IInv == TypeOK /\ DeadlinesCovered /\ FromDump

\* SetToSeq of a finite set is a sequence of its elements, each of them once.
LEMMA SetToSeqOnce ==
    ASSUME NEW S, IsFiniteSet(S)
    PROVE  /\ SetToSeq(S) \in Seq(S)
           /\ \A i, j \in 1..Len(SetToSeq(S)) : SetToSeq(S)[i] = SetToSeq(S)[j] => i = j
           /\ \A x \in S : \E i \in 1..Len(SetToSeq(S)) : SetToSeq(S)[i] = x
<1> DEFINE n == Cardinality(S)
           g == SetToSeq(S)
<1>1. PICK f : f \in Bijection(1..n, S)
  BY FS_CardinalityType DEF ExistsBijection
<1>2. f \in [1..n -> S] /\ IsInjective(f)
  BY <1>1 DEF Bijection, Injection, IsInjective
<1>3. g \in [1..n -> S] /\ IsInjective(g)
  BY <1>2 DEF SetToSeq
<1>4. n \in Nat
  BY FS_CardinalityType
<1> HIDE DEF g, n
<1>5. g \in Injection(1..n, S)
  BY <1>3 DEF Injection
<1>6. Cardinality(1..n) = n
  BY <1>4, FS_Interval
<1>7. g \in Surjection(1..n, S)
  BY <1>5, <1>6, FS_Injection DEF n
<1>8. \A x \in S : \E i \in 1..n : g[i] = x
  BY <1>7 DEF Surjection
<1>9. g \in Seq(S) /\ Len(g) = n
  BY <1>3, <1>4
<1>10. \A i, j \in 1..n : g[i] = g[j] => i = j
  BY <1>3 DEF IsInjective
<1> QED BY <1>8, <1>9, <1>10 DEF g

\* Db::Fork makes requests: SETs of the values that are there.
LEMMA ForkType == TypeOK => Fork \in Seq(AllRequests)
<1> SUFFICES ASSUME TypeOK PROVE Fork \in Seq(AllRequests)
  OBVIOUS
<1> DEFINE present == {k \in Keys : db[k] # None}
<1> DEFINE keys == SetToSeq(present)
<1>1. IsFiniteSet(present)
  BY RecoveryAssumption, FS_Subset
<1>2. keys \in Seq(present)
  BY <1>1, SetToSeqOnce
<1> HIDE DEF keys
<1>3. ASSUME NEW i \in DOMAIN keys
      PROVE Request("SET", keys[i], db[keys[i]].val) \in AllRequests
  <2>1. keys[i] \in Keys /\ db[keys[i]] # None
    BY <1>2
  <2>2. db[keys[i]] \in Entry
    BY <2>1 DEF TypeOK, Entries
  <2> QED BY <2>1, <2>2 DEF Request, AllRequests, Entry
<1>4. Fork = [i \in DOMAIN keys |-> Request("SET", keys[i], db[keys[i]].val)]
  BY DEF Fork, keys
<1> QED BY <1>2, <1>3, <1>4

\* What clients send are requests.
LEMMA RequestsType == TypeOK => Requests \subseteq AllRequests
BY RecoveryAssumption DEF TypeOK, Requests, AllRequests, Request, Times

\* A command leaves entries and timers in their ranges, and every deadline
\* with a timer: EXPIRE queues the one of the deadline it stamps.
LEMMA ExecKeeps ==
    ASSUME TypeOK, DeadlinesCovered, NEW req \in AllRequests, Exec(req)
    PROVE  db' \in Entries /\ que' \in [DbExpireTimer -> Nat] /\ DeadlinesCovered'
<1> DEFINE k == req.key
<1>1. k \in Keys
  BY DEF AllRequests
<1>2. CASE req.op = "SET"
  <2>1. req.arg \in Values /\ que' = que
    BY <1>2 DEF AllRequests, Exec
  <2>2. db' = [db EXCEPT ![k] = [val |-> req.arg,
                 expire |-> IF db[k] = None THEN None ELSE db[k].expire]]
    BY <1>2 DEF Exec
  <2>3. [val |-> req.arg, expire |-> IF db[k] = None THEN None ELSE db[k].expire] \in Entry
    BY <1>1, <2>1 DEF TypeOK, Entries, Entry
  <2> QED BY <1>1, <2>1, <2>2, <2>3 DEF TypeOK, Entries, DeadlinesCovered, Queued, Entry
<1>3. CASE req.op = "EXPIRE"
  <2>1. req.arg \in Times
    BY <1>3 DEF AllRequests
  <2>2. CASE db[k] = None
    BY <1>3, <2>2 DEF Exec, TypeOK, DeadlinesCovered, Queued
  <2>3. CASE db[k] # None
    <3> DEFINE t == [key |-> k, at |-> req.arg]
    <3>1. t \in DbExpireTimer
      BY <1>1, <2>1 DEF DbExpireTimer
    <3>2. /\ db' = [db EXCEPT ![k].expire = req.arg]
          /\ que' = [que EXCEPT ![t] = @ + 1]
      BY <1>3, <2>3 DEF Exec
    <3>3. db[k] \in Entry
      BY <1>1, <2>3 DEF TypeOK, Entries
    <3>4. db'[k] = [val |-> db[k].val, expire |-> req.arg] /\ db'[k] \in Entry
      BY <1>1, <2>1, <3>2, <3>3, Zenon DEF TypeOK, Entries, Entry
    <3>5. db' \in Entries /\ que' \in [DbExpireTimer -> Nat]
      <4>1. que' \in [DbExpireTimer -> Nat]
        BY <3>1, <3>2 DEF TypeOK
      <4>2. DOMAIN db' = Keys /\ \A j \in Keys : j # k => db'[j] = db[j]
        BY <1>1, <3>2 DEF TypeOK, Entries
      <4>3. db' = [j \in Keys |-> db'[j]]
        BY <1>1, <3>2, Zenon DEF TypeOK, Entries
      <4> HIDE DEF k
      <4> QED BY <3>4, <4>1, <4>2, <4>3, Zenon DEF TypeOK, Entries
    <3>6. Queued \cup {t} \subseteq Queued'
      BY <3>1, <3>2 DEF TypeOK, Queued
    <3>7. ASSUME NEW j \in Keys, db'[j] # None, db'[j].expire # None
          PROVE [key |-> j, at |-> db'[j].expire] \in Queued'
      <4>1. CASE j = k
        BY <4>1, <3>4, <3>6
      <4>2. CASE j # k
        BY <4>2, <3>2, <3>6, <3>7 DEF TypeOK, Entries, DeadlinesCovered
      <4> QED BY <4>1, <4>2
    <3> QED BY <3>5, <3>7 DEF DeadlinesCovered
  <2> QED BY <2>2, <2>3
<1>4. CASE req.op = "DEL"
  <2>1. db' = [db EXCEPT ![k] = None] /\ que' = que
    BY <1>4 DEF Exec
  <2> QED BY <1>1, <2>1 DEF TypeOK, Entries, DeadlinesCovered, Queued
<1> QED BY <1>2, <1>3, <1>4 DEF AllRequests

\* Db::Load queues a timer for every deadline it reads, past or not.
LEMMA LoadTimersCover ==
    ASSUME TypeOK, NEW entries \in Entries
    PROVE  /\ LoadTimers(entries) \in [DbExpireTimer -> Nat]
           /\ \A t \in DbExpireTimer : LoadTimers(entries)[t] > 0 <=>
                entries[t.key] # None /\ entries[t.key].expire = t.at
BY DEF LoadTimers

\* The timer thread's step, with the timer it pops named.
LEMMA FireKeeps ==
    ASSUME TypeOK, DeadlinesCovered, Fire
    PROVE  db' \in Entries /\ que' \in [DbExpireTimer -> Nat] /\ DeadlinesCovered'
<1>1. PICK t \in Queued : /\ que' = [que EXCEPT ![t] = @ - 1]
                         /\ db' = [db EXCEPT ![t.key] = None]
  BY Zenon DEF Fire
<1>2. t \in DbExpireTimer /\ que[t] \in Nat /\ que[t] > 0 /\ t.key \in Keys
  BY Zenon DEF Queued, TypeOK, DbExpireTimer
<1>3. db' \in Entries /\ que' \in [DbExpireTimer -> Nat]
  BY <1>1, <1>2 DEF TypeOK, Entries
<1>4. ASSUME NEW k \in Keys, db'[k] # None, db'[k].expire # None
      PROVE [key |-> k, at |-> db'[k].expire] \in Queued'
  <2>1. k # t.key /\ db'[k] = db[k]
    BY <1>1, <1>2, <1>4 DEF TypeOK, Entries
  <2>2. [key |-> k, at |-> db[k].expire] \in Queued
    BY <2>1, <1>4 DEF DeadlinesCovered
  <2>3. [key |-> k, at |-> db[k].expire] # t
    BY <2>1
  <2> QED BY <1>1, <1>2, <2>1, <2>2, <2>3 DEF Queued, TypeOK
<1> QED BY <1>3, <1>4 DEF DeadlinesCovered

\* An empty database without timers and files satisfies the invariant.
LEMMA InitIInv == Init => IInv
BY RecoveryAssumption
   DEF Init, IInv, TypeOK, DeadlinesCovered, FromDump, NoEntries, NoTimers, Entries, Times

\* No step, kills and restarts included, leaves a deadline without its timer.
LEMMA StepCovered ==
    TypeOK /\ DeadlinesCovered /\ [Next]_vars => TypeOK' /\ DeadlinesCovered'
<1> SUFFICES ASSUME TypeOK, DeadlinesCovered, [Next]_vars
             PROVE TypeOK' /\ DeadlinesCovered'
  OBVIOUS
<1>1. ASSUME NEW req \in Requests, Command(req) PROVE TypeOK' /\ DeadlinesCovered'
  <2>1. req \in AllRequests
    BY RequestsType
  <2>2. db' \in Entries /\ que' \in [DbExpireTimer -> Nat] /\ DeadlinesCovered'
    BY <1>1, <2>1, ExecKeeps DEF Command
  <2>3. cache' \in Seq(AllRequests)
    BY <1>1, <2>1 DEF Command, TypeOK
  <2> QED BY <1>1, <2>2, <2>3 DEF Command, TypeOK
<1>2. CASE Fire
  BY <1>2, FireKeeps, Zenon DEF Fire, TypeOK, files, loader
<1>3. CASE Tick
  BY <1>3, RecoveryAssumption
     DEF Tick, TypeOK, Times, files, loader, DeadlinesCovered, Queued
<1>4. CASE Save
  BY <1>4 DEF Save, TypeOK, loader, DeadlinesCovered, Queued
<1>5. CASE Flush
  BY <1>5 DEF Flush, TypeOK, loader, DeadlinesCovered, Queued
<1>6. CASE Rewrite
  BY <1>6, ForkType DEF Rewrite, TypeOK, loader, DeadlinesCovered, Queued
<1>7. CASE Crash
  <2>1. /\ up' = FALSE /\ db' = NoEntries /\ que' = NoTimers
        /\ cache' = <<>> /\ replay' = <<>>
        /\ UNCHANGED <<aof, now, dump, log>>
    BY <1>7 DEF Crash
  <2>2. db' \in Entries /\ DeadlinesCovered'
    BY <2>1 DEF NoEntries, Entries, DeadlinesCovered
  <2>3. que' \in [DbExpireTimer -> Nat]
    BY <2>1 DEF NoTimers
  <2>4. cache' \in Seq(AllRequests) /\ replay' \in Seq(AllRequests)
    BY <2>1
  <2>5. /\ up' \in BOOLEAN /\ aof' \in BOOLEAN /\ now' \in Times
        /\ dump' \in Entries /\ log' \in Seq(AllRequests)
    BY <2>1, Zenon DEF TypeOK
  <2> QED BY <2>2, <2>3, <2>4, <2>5 DEF TypeOK
<1>8. CASE Start
  <2>1. /\ db' = dump /\ que' = LoadTimers(dump)
        /\ dump \in Entries /\ dump' = NoEntries
    BY <1>8 DEF Start, TypeOK
  <2>2. que' \in [DbExpireTimer -> Nat]
    BY <2>1, LoadTimersCover
  <2>3. TypeOK'
    BY <1>8, <2>1, <2>2 DEF Start, TypeOK, NoEntries, Entries
  <2>4. ASSUME NEW k \in Keys, db'[k] # None, db'[k].expire # None
        PROVE [key |-> k, at |-> db'[k].expire] \in Queued'
    <3> DEFINE t == [key |-> k, at |-> dump[k].expire]
    <3>1. dump[k] \in Entry
      BY <2>1, <2>4 DEF Entries
    <3>2. t \in DbExpireTimer
      BY <2>1, <2>4, <3>1 DEF Entry, DbExpireTimer
    <3>3. LoadTimers(dump)[t] > 0
      BY <2>1, <2>4, <3>2, LoadTimersCover
    <3> QED BY <2>1, <3>2, <3>3 DEF Queued
  <2> QED BY <2>3, <2>4 DEF DeadlinesCovered
<1>9. CASE ReplayStep
  <2>1. Head(replay) \in AllRequests /\ Tail(replay) \in Seq(AllRequests)
    BY <1>9 DEF ReplayStep, TypeOK
  <2>2. db' \in Entries /\ que' \in [DbExpireTimer -> Nat] /\ DeadlinesCovered'
    BY <1>9, <2>1, ExecKeeps DEF ReplayStep
  <2>3. cache' \in Seq(AllRequests)
    BY <1>9, <2>1 DEF ReplayStep, TypeOK
  <2> QED BY <1>9, <2>1, <2>2, <2>3 DEF ReplayStep, TypeOK
<1>10. CASE LoaderLogout
  BY <1>10 DEF LoaderLogout, TypeOK, DeadlinesCovered, Queued
<1>11. CASE UNCHANGED vars
  BY <1>11 DEF vars, TypeOK, DeadlinesCovered, Queued
<1> QED BY <1>1, <1>2, <1>3, <1>4, <1>5, <1>6, <1>7, <1>8, <1>9, <1>10, <1>11 DEF Next

\* Without a log every step keeps what FromDump says: commands forget what was
\* expected, kills note the dump file, restarts load it, and timers, which are
\* those of its deadlines, remove only what has expired.
LEMMA StepFromDump == IInv /\ [Next]_vars => FromDump'
<1> SUFFICES ASSUME IInv, [Next]_vars, ~aof' PROVE FromDump'
  BY DEF FromDump
<1> USE DEF IInv
<1>a. TypeOK' /\ DeadlinesCovered'
  BY StepCovered
<1>b. ~aof
  BY DEF Next, vars, Command, Fire, Tick, Save, Flush, Rewrite, Crash, Start,
         ReplayStep, LoaderLogout
<1>c. log = <<>> /\ cache = <<>> /\ replay = <<>>
  BY <1>b DEF FromDump
<1>1. ASSUME NEW req \in Requests, Command(req) PROVE FromDump'
  BY <1>1, <1>b, <1>c DEF Command, FromDump
<1>2. CASE Fire
  <2>1. /\ UNCHANGED <<now, up, dump, log, cache, replay, want>> /\ up
    BY <1>2 DEF Fire, files, loader, history
  <2>2. SUFFICES ASSUME want # None
                 PROVE /\ \A k \in Keys : db'[k] = want[k] \/ (db'[k] = None /\ Expired(want[k]))
                       /\ \A t \in Queued' : want[t.key] # None /\ want[t.key].expire = t.at
    BY <1>b, <1>c, <2>1 DEF FromDump, Expired
  <2>3. PICK t \in Queued : /\ t.at <= now
                           /\ que' = [que EXCEPT ![t] = @ - 1]
                           /\ db' = [db EXCEPT ![t.key] = None]
    BY <1>2, Zenon DEF Fire
  <2>4. t \in DbExpireTimer /\ que[t] \in Nat /\ t.key \in Keys /\ t.at \in Times
    BY Zenon DEF Queued, TypeOK, DbExpireTimer
  <2>5. Expired(want[t.key])
    BY <1>b, <2>1, <2>2, <2>3, <2>4, RecoveryAssumption DEF FromDump, Expired
  <2>6. Queued' \subseteq Queued
    BY <2>3, <2>4 DEF Queued, TypeOK
  <2> QED BY <1>b, <2>1, <2>2, <2>3, <2>4, <2>5, <2>6 DEF FromDump, TypeOK, Entries
<1>3. CASE Tick
  <2>1. UNCHANGED <<up, db, que, dump, log, cache, replay, want>> /\ now' = now + 1
    BY <1>3 DEF Tick, files, loader, history
  <2>2. ASSUME want # None, NEW k \in Keys, Expired(want[k]) PROVE Expired(want[k])'
    <3>1. now \in Nat
      BY RecoveryAssumption DEF TypeOK, Times
    <3>2. want[k] \in Entry
      BY <1>b, <2>2 DEF FromDump, Entries, Expired
    <3>3. want[k].expire \in Nat
      BY <2>2, <3>2, RecoveryAssumption DEF Expired, Entry, Times
    <3> QED BY <2>1, <2>2, <3>1, <3>3 DEF Expired
  <2> QED BY <1>b, <2>1, <2>2 DEF FromDump, Queued
<1>4. CASE Save
  BY <1>4, <1>b DEF Save, loader, history, FromDump, Expired, Queued
<1>5. CASE Flush
  BY <1>5, <1>b DEF Flush
<1>6. CASE Rewrite
  BY <1>6, <1>b DEF Rewrite
<1>7. CASE Crash
  BY <1>7, <1>b, <1>c DEF Crash, FromDump, TypeOK
<1>8. CASE Start
  <2>1. /\ ~up /\ up' /\ db' = dump /\ que' = LoadTimers(dump)
        /\ dump \in Entries /\ UNCHANGED want
        /\ log' = <<>> /\ cache' = <<>> /\ replay' = <<>>
    BY <1>8, <1>c DEF Start, TypeOK, history
  <2>2. want # None => dump = want
    BY <1>b, <2>1 DEF FromDump
  <2>3. ASSUME NEW t \in Queued' PROVE dump[t.key] # None /\ dump[t.key].expire = t.at
    BY <2>1, LoadTimersCover DEF Queued
  <2> QED BY <2>1, <2>2, <2>3 DEF FromDump
<1>9. CASE ReplayStep
  BY <1>9, <1>c DEF ReplayStep
<1>10. CASE LoaderLogout
  BY <1>10, <1>c DEF LoaderLogout
<1>11. CASE UNCHANGED vars
  BY <1>11 DEF vars, FromDump, Expired, Queued
<1> QED BY <1>1, <1>2, <1>3, <1>4, <1>5, <1>6, <1>7, <1>8, <1>9, <1>10, <1>11 DEF Next

\* The inductive invariant holds throughout.
LEMMA Invariance == Spec => []IInv
<1>1. IInv /\ [Next]_vars => IInv'
  BY StepCovered, StepFromDump DEF IInv
<1> QED BY <1>1, InitIInv, PTL DEF Spec

\* Every deadline has its timer, after any kills and restarts from either
\* kind of file (Db::ExpireAt, Db::Load, AOFLoad).
THEOREM DeadlinesAreCovered == Spec => []DeadlinesCovered
BY Invariance, PTL DEF IInv

\* A restart from a dump file, with nothing sent since: once due timers have
\* fired, an entry of the file is there, value and deadline, exactly if its
\* deadline has not passed (KeyValue::Encode, Db::Load, DbExpireTimer::Exec).
LEMMA DumpIsRestored == Spec => [](~aof => Restored)
<1>1. IInv => (~aof => Restored)
  <2> SUFFICES ASSUME IInv, ~aof, Settled, want # None, NEW k \in Keys
               PROVE db[k] = IF Expired(want[k]) THEN None ELSE want[k]
    BY DEF Restored
  <2>1. /\ up
        /\ db[k] = want[k] \/ (db[k] = None /\ Expired(want[k]))
    BY DEF IInv, FromDump, Settled
  <2>2. ASSUME Expired(want[k]), db[k] = want[k] PROVE FALSE
    <3> DEFINE t == [key |-> k, at |-> db[k].expire]
    <3>1. t \in Queued
      BY <2>2 DEF IInv, DeadlinesCovered, Expired
    <3>2. t.at > now /\ t.at \in Nat /\ now \in Nat
      BY <3>1, RecoveryAssumption DEF Settled, Queued, DbExpireTimer, Times, IInv, TypeOK
    <3> QED BY <2>2, <3>2 DEF Expired
  <2> QED BY <2>1, <2>2
<1> QED BY <1>1, Invariance, PTL

(***************************************************************************)
(* Restarts from a log.                                                    *)
(***************************************************************************)
\* The requests of a sequence that write a key, and those that stamp it.
Writes(s, k) == {i \in 1..Len(s) : s[i].key = k /\ s[i].op # "EXPIRE"}
Stamps(s, k) == {i \in 1..Len(s) : s[i].key = k /\ s[i].op = "EXPIRE"}

\* An EXPIRE of the key is followed by DELs only.
StampedLast(s, k) ==
    \A i \in Stamps(s, k), j \in 1..Len(s) : i < j /\ s[j].key = k => s[j].op = "DEL"

\* The last request that writes the key.
LastWrite(s, k, i) == i \in Writes(s, k) /\ \A j \in Writes(s, k) : j <= i

\* What such a sequence leaves for the key when nothing expires.
Leaves(s, k, e) ==
    IF e = None
    THEN Writes(s, k) = {} \/ \E i \in 1..Len(s) : LastWrite(s, k, i) /\ s[i].op = "DEL"
    ELSE /\ \E i \in 1..Len(s) : LastWrite(s, k, i) /\ s[i].op = "SET" /\ e.val = s[i].arg
         /\ Stamps(s, k) = {} => e.expire = None
         /\ \A i \in Stamps(s, k) : e.expire = s[i].arg

\* An entry is e, or was e and has expired.
Near(entry, e) == entry = e \/ (entry = None /\ Expired(e))

\* The timers of the key are those of its EXPIREs.
TimersOf(s, k) == \A t \in Queued : t.key = k => \E i \in Stamps(s, k) : s[i].arg = t.at

MaybeEntry == Entry \cup {None}

\* What has been executed since the start, in the file and in the cache, and
\* with it what the loader still has.
Logged == log \o cache
Coming == Logged \o replay

\* A key the log is good for: what has been executed leaves the entry that is
\* there or has expired, and all of it leaves the one that is wanted.
FromLogOf(k) ==
    /\ StampedLast(Coming, k)
    /\ k \notin stamped => Stamps(Coming, k) = {}
    /\ up => \E e \in MaybeEntry : Leaves(Logged, k, e) /\ Near(db[k], e)
    /\ want # None => \E e \in MaybeEntry : Leaves(Coming, k, e) /\ Near(want[k], e)
    /\ TimersOf(Logged, k)

FromLog ==
    aof =>
      /\ dump = NoEntries
      /\ ~ up => cache = <<>> /\ replay = <<>> /\ que = NoTimers
      /\ plain \subseteq Keys
      /\ \A k \in plain : FromLogOf(k)

\* One more request.
LEMMA OneMore ==
    ASSUME NEW s \in Seq(AllRequests), NEW r \in AllRequests, NEW k
    PROVE  /\ Append(s, r) \in Seq(AllRequests)
           /\ Len(s) \in Nat /\ Len(Append(s, r)) = Len(s) + 1
           /\ Append(s, r)[Len(s) + 1] = r /\ \A i \in 1..Len(s) : Append(s, r)[i] = s[i]
           /\ Writes(Append(s, r), k) =
                IF r.key = k /\ r.op # "EXPIRE" THEN Writes(s, k) \cup {Len(s) + 1} ELSE Writes(s, k)
           /\ Stamps(Append(s, r), k) =
                IF r.key = k /\ r.op = "EXPIRE" THEN Stamps(s, k) \cup {Len(s) + 1} ELSE Stamps(s, k)
<1> DEFINE u == Append(s, r)
<1>1. /\ u \in Seq(AllRequests) /\ Len(s) \in Nat /\ Len(u) = Len(s) + 1
      /\ u[Len(s) + 1] = r /\ \A i \in 1..Len(s) : u[i] = s[i]
  OBVIOUS
<1> HIDE DEF u
<1>2. \A i : i \in 1..Len(u) <=> i \in 1..Len(s) \/ i = Len(s) + 1
  BY <1>1
<1>3. Writes(u, k) = IF r.key = k /\ r.op # "EXPIRE" THEN Writes(s, k) \cup {Len(s) + 1} ELSE Writes(s, k)
  BY <1>1, <1>2 DEF Writes
<1>4. Stamps(u, k) = IF r.key = k /\ r.op = "EXPIRE" THEN Stamps(s, k) \cup {Len(s) + 1} ELSE Stamps(s, k)
  BY <1>1, <1>2 DEF Stamps
<1> QED BY <1>1, <1>3, <1>4 DEF u

\* A request of another key.
LEMMA LeavesOther ==
    ASSUME NEW s \in Seq(AllRequests), NEW r \in AllRequests, NEW k, r.key # k,
           NEW e, Leaves(s, k, e)
    PROVE  Leaves(Append(s, r), k, e)
<1> DEFINE u == Append(s, r)
<1>1. /\ Len(s) \in Nat /\ Len(u) = Len(s) + 1 /\ \A i \in 1..Len(s) : u[i] = s[i]
      /\ Writes(u, k) = Writes(s, k) /\ Stamps(u, k) = Stamps(s, k)
  BY OneMore
<1> HIDE DEF u
<1>2. \A i : LastWrite(u, k, i) <=> LastWrite(s, k, i)
  BY <1>1 DEF LastWrite
<1>3. \A i \in Stamps(s, k) : i \in 1..Len(s)
  BY DEF Stamps
<1>4. \A i \in 1..Len(s) : i \in 1..Len(u)
  BY <1>1
<1>5. Leaves(u, k, e)
  BY <1>1, <1>2, <1>3, <1>4 DEF Leaves
<1> QED BY <1>5 DEF u

\* A SET of the key, without an EXPIRE before.
LEMMA LeavesSet ==
    ASSUME NEW s \in Seq(AllRequests), NEW r \in AllRequests, r.op = "SET",
           Stamps(s, r.key) = {}
    PROVE  /\ [val |-> r.arg, expire |-> None] \in Entry
           /\ Leaves(Append(s, r), r.key, [val |-> r.arg, expire |-> None])
<1> DEFINE u == Append(s, r)
           e == [val |-> r.arg, expire |-> None]
           n == Len(s) + 1
<1>1. e \in Entry /\ e # None
  BY RecoveryAssumption DEF AllRequests, Entry
<1>2. /\ Len(s) \in Nat /\ Len(u) = n /\ u[n] = r
      /\ Writes(u, r.key) = Writes(s, r.key) \cup {n} /\ Stamps(u, r.key) = {}
  BY OneMore
<1>3. e.val = r.arg /\ e.expire = None
  OBVIOUS
<1>4. n \in 1..Len(u) /\ \A j \in Writes(s, r.key) : j <= n
  BY <1>2 DEF Writes
<1> HIDE DEF u, e, n
<1>5. LastWrite(u, r.key, n)
  BY <1>2, <1>4 DEF LastWrite, n
<1>6. Leaves(u, r.key, e)
  BY <1>1, <1>2, <1>3, <1>4, <1>5 DEF Leaves
<1> QED BY <1>1, <1>6 DEF u, e

\* A DEL of the key.
LEMMA LeavesDel ==
    ASSUME NEW s \in Seq(AllRequests), NEW r \in AllRequests, r.op = "DEL"
    PROVE  Leaves(Append(s, r), r.key, None)
<1> DEFINE u == Append(s, r)
           n == Len(s) + 1
<1>1. /\ Len(s) \in Nat /\ Len(u) = n /\ u[n] = r
      /\ Writes(u, r.key) = Writes(s, r.key) \cup {n}
  BY OneMore
<1>2. n \in 1..Len(u) /\ \A j \in Writes(s, r.key) : j <= n
  BY <1>1 DEF Writes
<1> HIDE DEF u, n
<1>3. LastWrite(u, r.key, n)
  BY <1>1, <1>2 DEF LastWrite, n
<1> QED BY <1>1, <1>2, <1>3 DEF Leaves, u

\* An EXPIRE of the key, the first.
LEMMA LeavesExpire ==
    ASSUME NEW s \in Seq(AllRequests), NEW r \in AllRequests, r.op = "EXPIRE",
           Stamps(s, r.key) = {}, NEW e \in MaybeEntry, Leaves(s, r.key, e)
    PROVE  /\ e = None => Leaves(Append(s, r), r.key, None)
           /\ e # None => /\ [val |-> e.val, expire |-> r.arg] \in Entry
                          /\ Leaves(Append(s, r), r.key, [val |-> e.val, expire |-> r.arg])
<1> DEFINE u == Append(s, r)
           f == [val |-> e.val, expire |-> r.arg]
           n == Len(s) + 1
           k == r.key
<1>1. /\ Len(s) \in Nat /\ Len(u) = n /\ u[n] = r /\ \A i \in 1..Len(s) : u[i] = s[i]
      /\ Writes(u, k) = Writes(s, k) /\ Stamps(u, k) = {n}
  BY OneMore
<1>2. \A i : LastWrite(u, k, i) <=> LastWrite(s, k, i)
  BY <1>1 DEF LastWrite
<1>3. \A i \in 1..Len(s) : i \in 1..Len(u)
  BY <1>1
<1>4. ASSUME e # None PROVE f \in Entry /\ f # None /\ f.val = e.val /\ f.expire = r.arg
  BY <1>4, RecoveryAssumption DEF MaybeEntry, AllRequests, Entry
<1> HIDE DEF u, f, n, k
<1>5. Leaves(s, k, e)
  BY DEF k
<1>6. ASSUME e = None PROVE Leaves(u, k, None)
  BY <1>1, <1>2, <1>3, <1>5, <1>6 DEF Leaves
<1>7. ASSUME e # None PROVE Leaves(u, k, f)
  <2>1. PICK i \in 1..Len(s) : LastWrite(s, k, i) /\ s[i].op = "SET" /\ e.val = s[i].arg
    BY <1>5, <1>7 DEF Leaves
  <2>2. i \in 1..Len(u) /\ LastWrite(u, k, i) /\ u[i].op = "SET" /\ f.val = u[i].arg
    BY <1>1, <1>2, <1>3, <1>4, <1>7, <2>1
  <2> QED BY <1>1, <1>4, <1>7, <2>2 DEF Leaves
<1> QED BY <1>4, <1>6, <1>7 DEF u, k, f

\* A sequence leaves one thing.
LEMMA LeavesOne ==
    ASSUME NEW s \in Seq(AllRequests), NEW k, NEW e \in MaybeEntry, NEW f \in MaybeEntry,
           Leaves(s, k, e), Leaves(s, k, f)
    PROVE  e = f
<1>1. \A i, j \in 1..Len(s) : LastWrite(s, k, i) /\ LastWrite(s, k, j) => i = j
  <2>1. Len(s) \in Nat /\ \A i \in 1..Len(s) : i \in Nat
    OBVIOUS
  <2> QED BY <2>1 DEF LastWrite
<1>2. \A i \in 1..Len(s) : LastWrite(s, k, i) => Writes(s, k) # {}
  BY DEF LastWrite
<1>3. CASE e = None \/ f = None
  BY <1>1, <1>2, <1>3 DEF Leaves
<1>4. CASE e # None /\ f # None
  <2>1. e.val = f.val
    BY <1>1, <1>4 DEF Leaves
  <2>2. e.expire = f.expire
    BY <1>4 DEF Leaves
  <2> QED BY <1>4, <2>1, <2>2 DEF MaybeEntry, Entry
<1> QED BY <1>3, <1>4

\* The beginning of a sequence.
LEMMA Beginning ==
    ASSUME NEW p \in Seq(AllRequests), NEW q \in Seq(AllRequests), NEW k
    PROVE  /\ p \o q \in Seq(AllRequests)
           /\ \A i \in 1..Len(p) : (p \o q)[i] = p[i]
           /\ Stamps(p, k) \subseteq Stamps(p \o q, k)
           /\ StampedLast(p \o q, k) => StampedLast(p, k)
           /\ StampedLast(p \o q, k) /\ q # <<>> /\ Head(q).key = k /\ Head(q).op # "DEL" =>
                Stamps(p, k) = {}
<1> DEFINE u == p \o q
<1>1. /\ u \in Seq(AllRequests) /\ Len(p) \in Nat /\ Len(q) \in Nat /\ Len(u) = Len(p) + Len(q)
      /\ \A i \in 1..Len(p) : u[i] = p[i]
      /\ q # <<>> => Len(q) > 0 /\ u[Len(p) + 1] = Head(q)
  OBVIOUS
<1> HIDE DEF u
<1>2. \A i \in 1..Len(p) : i \in 1..Len(u)
  BY <1>1
<1>3. Stamps(p, k) \subseteq Stamps(u, k)
  BY <1>1, <1>2 DEF Stamps
<1>4. ASSUME StampedLast(u, k) PROVE StampedLast(p, k)
  BY <1>1, <1>2, <1>3, <1>4 DEF StampedLast
<1>5. ASSUME StampedLast(u, k), q # <<>>, Head(q).key = k, Head(q).op # "DEL", NEW i \in Stamps(p, k)
      PROVE  FALSE
  <2>1. Len(p) + 1 \in 1..Len(u) /\ i < Len(p) + 1 /\ i \in Stamps(u, k)
    BY <1>1, <1>3, <1>5 DEF Stamps
  <2> QED BY <1>1, <1>5, <2>1 DEF StampedLast
<1> QED BY <1>1, <1>3, <1>4, <1>5 DEF u

\* A request that follows the ones that have been executed.
LEMMA ExecLeaves ==
    ASSUME TypeOK, NEW req \in AllRequests, Exec(req), now' = now,
           NEW s \in Seq(AllRequests), NEW k \in Keys,
           NEW e \in MaybeEntry, Leaves(s, k, e), Near(db[k], e), TimersOf(s, k),
           req.key = k /\ req.op # "DEL" => Stamps(s, k) = {}
    PROVE  \E f \in MaybeEntry : Leaves(Append(s, req), k, f) /\ Near(db[k], f)'
<1>1. db \in Entries /\ DOMAIN db = Keys /\ db[k] \in MaybeEntry
  BY DEF TypeOK, Entries, MaybeEntry
<1>2. CASE req.key # k
  <2>1. db'[k] = db[k]
    BY <1>1, <1>2 DEF Exec, AllRequests
  <2> QED BY <1>2, <2>1, LeavesOther DEF Near, Expired
<1>3. ASSUME Stamps(s, k) = {} PROVE db[k] = e /\ (e # None => e.expire = None)
  BY <1>3 DEF Near, Expired, Leaves
<1>4. CASE req.key = k /\ req.op = "SET"
  <2>1. db'[k] = [val |-> req.arg, expire |-> IF db[k] = None THEN None ELSE db[k].expire]
    BY <1>1, <1>4 DEF Exec
  <2>2. db'[k] = [val |-> req.arg, expire |-> None]
    BY <1>3, <1>4, <2>1
  <2> QED BY <1>4, <2>2, LeavesSet DEF Near, MaybeEntry
<1>5. CASE req.key = k /\ req.op = "DEL"
  <2>1. db'[k] = None
    BY <1>1, <1>5 DEF Exec
  <2> QED BY <1>5, <2>1, LeavesDel DEF Near, MaybeEntry
<1>6. CASE req.key = k /\ req.op = "EXPIRE"
  <2>1. CASE e = None
    <3>1. db'[k] = None
      BY <1>1, <1>3, <1>6, <2>1 DEF Exec
    <3> QED BY <1>6, <2>1, <3>1, LeavesExpire, Zenon DEF Near, MaybeEntry
  <2>2. CASE e # None
    <3>1. db[k] = e /\ e \in Entry /\ db' = [db EXCEPT ![k].expire = req.arg]
      BY <1>3, <1>6, <2>2 DEF Exec, MaybeEntry
    <3>2. db'[k] = [val |-> e.val, expire |-> req.arg]
      BY <1>1, <3>1 DEF Entry
    <3> QED BY <1>6, <2>2, <3>2, LeavesExpire DEF Near, MaybeEntry
  <2> QED BY <2>1, <2>2
<1> QED BY <1>2, <1>4, <1>5, <1>6 DEF AllRequests

\* The timers after it.
LEMMA ExecTimers ==
    ASSUME TypeOK, NEW req \in AllRequests, Exec(req), NEW s \in Seq(AllRequests), NEW k \in Keys,
           TimersOf(s, k)
    PROVE  \A t \in Queued' : t.key = k =>
             \E i \in Stamps(Append(s, req), k) : Append(s, req)[i].arg = t.at
<1> DEFINE u == Append(s, req)
<1>1. /\ Len(u) = Len(s) + 1 /\ u[Len(s) + 1] = req /\ \A i \in 1..Len(s) : u[i] = s[i]
      /\ Stamps(u, k) = IF req.key = k /\ req.op = "EXPIRE" THEN Stamps(s, k) \cup {Len(s) + 1}
                        ELSE Stamps(s, k)
  BY OneMore
<1> HIDE DEF u
<1>2. \A i \in Stamps(s, k) : i \in 1..Len(s) /\ i \in Stamps(u, k)
  BY <1>1 DEF Stamps
<1>3. ASSUME NEW t \in Queued', t.key = k PROVE \E i \in Stamps(u, k) : u[i].arg = t.at
  <2>1. CASE t \in Queued
    BY <1>1, <1>2, <1>3, <2>1 DEF TimersOf
  <2>2. CASE t \notin Queued
    <3>1. req.op = "EXPIRE" /\ t = [key |-> req.key, at |-> req.arg]
      BY <2>2 DEF Exec, Queued, TypeOK
    <3>2. req.key = k /\ t.at = req.arg
      BY <1>3, <3>1
    <3> QED BY <1>1, <3>1, <3>2
  <2> QED BY <2>1, <2>2
<1> QED BY <1>3, Zenon DEF u

\* Two sequences, without an EXPIRE of the key in either.
LEMMA BothStamps ==
    ASSUME NEW p \in Seq(AllRequests), NEW q \in Seq(AllRequests), NEW k
    PROVE  Stamps(p \o q, k) = {} <=> Stamps(p, k) = {} /\ Stamps(q, k) = {}
<1> DEFINE u == p \o q
<1>1. /\ Len(p) \in Nat /\ Len(q) \in Nat /\ Len(u) = Len(p) + Len(q)
      /\ \A i \in 1..Len(p) : u[i] = p[i] /\ i \in 1..Len(u)
      /\ \A i \in 1..Len(q) : u[Len(p) + i] = q[i] /\ Len(p) + i \in 1..Len(u)
      /\ \A i \in 1..Len(u) : i \in 1..Len(p) \/ (i - Len(p) \in 1..Len(q) /\ u[i] = q[i - Len(p)])
  OBVIOUS
<1> HIDE DEF u
<1>2. ASSUME Stamps(u, k) = {} PROVE Stamps(p, k) = {} /\ Stamps(q, k) = {}
  BY <1>1, <1>2 DEF Stamps
<1>3. ASSUME Stamps(p, k) = {}, Stamps(q, k) = {}, NEW i \in Stamps(u, k) PROVE FALSE
  <2>1. i \in 1..Len(u) /\ u[i].key = k /\ u[i].op = "EXPIRE"
    BY DEF Stamps
  <2>2. CASE i \in 1..Len(p)
    BY <1>1, <1>3, <2>1, <2>2 DEF Stamps
  <2>3. CASE i - Len(p) \in 1..Len(q) /\ u[i] = q[i - Len(p)]
    BY <1>3, <2>1, <2>3 DEF Stamps
  <2> QED BY <1>1, <2>1, <2>2, <2>3
<1> QED BY <1>2, <1>3 DEF u

\* What the later requests write counts.
LEMMA LaterLeaves ==
    ASSUME NEW p \in Seq(AllRequests), NEW q \in Seq(AllRequests), NEW k, NEW e,
           Stamps(p \o q, k) = {}, Writes(q, k) # {}
    PROVE  Leaves(p \o q, k, e) <=> Leaves(q, k, e)
<1> DEFINE u == p \o q
<1>1. /\ Len(p) \in Nat /\ Len(q) \in Nat /\ Len(u) = Len(p) + Len(q)
      /\ \A i \in 1..Len(q) : u[Len(p) + i] = q[i] /\ Len(p) + i \in 1..Len(u)
      /\ \A i \in 1..Len(u) : i > Len(p) => i - Len(p) \in 1..Len(q) /\ u[i] = q[i - Len(p)]
  OBVIOUS
<1>2. Stamps(u, k) = {} /\ Stamps(q, k) = {}
  BY BothStamps
<1> HIDE DEF u
<1>3. \A i \in Writes(q, k) : Len(p) + i \in Writes(u, k)
  BY <1>1 DEF Writes
<1>4. \A i \in Writes(u, k) : i > Len(p) => i - Len(p) \in Writes(q, k)
  BY <1>1 DEF Writes
<1>5. \A i : i \in Writes(q, k) \/ i \in Writes(u, k) => i \in Nat
  BY <1>1 DEF Writes
<1>6. ASSUME NEW i \in 1..Len(u), LastWrite(u, k, i)
      PROVE  i > Len(p) /\ LastWrite(q, k, i - Len(p))
  <2>1. i > Len(p)
    <3>1. PICK j \in Writes(q, k) : TRUE
      OBVIOUS
    <3>2. j \in 1..Len(q) /\ Len(p) + j <= i
      BY <1>3, <1>6 DEF LastWrite, Writes
    <3> QED BY <1>1, <3>2
  <2>2. i - Len(p) \in Writes(q, k)
    BY <1>4, <1>6, <2>1 DEF LastWrite
  <2>3. ASSUME NEW j \in Writes(q, k) PROVE j <= i - Len(p)
    <3>1. Len(p) + j <= i
      BY <1>3, <1>6 DEF LastWrite
    <3> QED BY <1>1, <1>5, <3>1
  <2> QED BY <2>1, <2>2, <2>3 DEF LastWrite
<1>7. ASSUME NEW i \in 1..Len(q), LastWrite(q, k, i) PROVE LastWrite(u, k, Len(p) + i)
  <2>1. ASSUME NEW j \in Writes(u, k) PROVE j <= Len(p) + i
    <3>1. CASE j > Len(p)
      BY <1>1, <1>4, <1>5, <1>7, <3>1 DEF LastWrite
    <3>2. CASE ~ (j > Len(p))
      BY <1>1, <1>5, <3>2
    <3> QED BY <3>1, <3>2
  <2> QED BY <1>3, <1>7, <2>1 DEF LastWrite
<1>8. ASSUME Leaves(u, k, e) PROVE Leaves(q, k, e)
  <2>1. Writes(u, k) # {}
    BY <1>3
  <2>2. PICK i \in 1..Len(u) : /\ LastWrite(u, k, i)
                               /\ e = None => u[i].op = "DEL"
                               /\ e # None => u[i].op = "SET" /\ e.val = u[i].arg
    BY <1>8, <2>1 DEF Leaves
  <2>3. i > Len(p) /\ LastWrite(q, k, i - Len(p))
    BY <1>6, <2>2, Zenon
  <2>4. PICK j \in 1..Len(q) : j = i - Len(p) /\ u[i] = q[j]
    BY <1>1, <2>3
  <2>5. LastWrite(q, k, j)
    BY <2>3, <2>4
  <2>6. CASE e = None
    BY <2>2, <2>4, <2>5, <2>6, Zenon DEF Leaves
  <2>7. CASE e # None
    <3>1. \E l \in 1..Len(q) : LastWrite(q, k, l) /\ q[l].op = "SET" /\ e.val = q[l].arg
      BY <2>2, <2>4, <2>5, <2>7
    <3> QED BY <1>2, <1>8, <2>7, <3>1 DEF Leaves
  <2> QED BY <2>6, <2>7
<1>9. ASSUME Leaves(q, k, e) PROVE Leaves(u, k, e)
  <2>1. PICK i \in 1..Len(q) : /\ LastWrite(q, k, i)
                               /\ e = None => q[i].op = "DEL"
                               /\ e # None => q[i].op = "SET" /\ e.val = q[i].arg
    BY <1>9 DEF Leaves
  <2>2. LastWrite(u, k, Len(p) + i)
    BY <1>7, <2>1, Zenon
  <2>3. PICK j \in 1..Len(u) : j = Len(p) + i /\ u[j] = q[i]
    BY <1>1
  <2>4. LastWrite(u, k, j)
    BY <2>2, <2>3
  <2>5. CASE e = None
    BY <2>1, <2>3, <2>4, <2>5, Zenon DEF Leaves
  <2>6. CASE e # None
    <3>1. \E l \in 1..Len(u) : LastWrite(u, k, l) /\ u[l].op = "SET" /\ e.val = u[l].arg
      BY <2>1, <2>3, <2>4, <2>6
    <3> QED BY <1>2, <1>9, <2>6, <3>1 DEF Leaves
  <2> QED BY <2>5, <2>6
<1> QED BY <1>8, <1>9 DEF u

\* If they write nothing, what the earlier ones leave stays.
LEMMA EarlierLeaves ==
    ASSUME NEW p \in Seq(AllRequests), NEW q \in Seq(AllRequests), NEW k, NEW e,
           Stamps(p \o q, k) = {}, Writes(q, k) = {}
    PROVE  Leaves(p \o q, k, e) <=> Leaves(p, k, e)
<1> DEFINE u == p \o q
<1>1. /\ Len(p) \in Nat /\ Len(q) \in Nat /\ Len(u) = Len(p) + Len(q)
      /\ \A i \in 1..Len(p) : u[i] = p[i] /\ i \in 1..Len(u)
      /\ \A i \in 1..Len(u) : i \in 1..Len(p) \/ (i - Len(p) \in 1..Len(q) /\ u[i] = q[i - Len(p)])
  OBVIOUS
<1>2. Stamps(u, k) = {} /\ Stamps(p, k) = {}
  BY BothStamps
<1> HIDE DEF u
<1>3. \A i \in 1..Len(q) : ~ (q[i].key = k /\ q[i].op # "EXPIRE")
  BY DEF Writes
<1>4. Writes(u, k) = Writes(p, k)
  BY <1>1, <1>3 DEF Writes
<1>5. \A i : LastWrite(u, k, i) <=> LastWrite(p, k, i)
  BY <1>4 DEF LastWrite
<1>6. \A i : LastWrite(p, k, i) => i \in 1..Len(p)
  BY DEF LastWrite, Writes
<1>7. Leaves(u, k, e) <=> Leaves(p, k, e)
  BY <1>1, <1>2, <1>4, <1>5, <1>6 DEF Leaves
<1> QED BY <1>7 DEF u

\* The requests Db::Fork makes leave the entries that are there, without their
\* deadlines.
LEMMA ForkLeaves ==
    ASSUME TypeOK, NEW k \in Keys, db[k] # None => db[k].expire = None
    PROVE  Stamps(Fork, k) = {} /\ Leaves(Fork, k, db[k])
<1> DEFINE present == {l \in Keys : db[l] # None}
           keys == SetToSeq(present)
<1>1. IsFiniteSet(present)
  BY RecoveryAssumption, FS_Subset
<1>2. /\ keys \in Seq(present)
      /\ \A i, j \in 1..Len(keys) : keys[i] = keys[j] => i = j
      /\ \A x \in present : \E i \in 1..Len(keys) : keys[i] = x
  BY <1>1, SetToSeqOnce, Zenon
<1>3. Fork = [i \in DOMAIN keys |-> Request("SET", keys[i], db[keys[i]].val)]
  BY DEF Fork
<1>4. k \in present <=> db[k] # None
  OBVIOUS
<1> HIDE DEF keys, present
<1>5. Len(keys) \in Nat /\ DOMAIN keys = 1..Len(keys)
  BY <1>2
<1>6. Len(Fork) = Len(keys)
  BY <1>3, <1>5
<1>7. \A i \in 1..Len(Fork) : /\ Fork[i].op = "SET" /\ Fork[i].key = keys[i]
                              /\ Fork[i].arg = db[keys[i]].val
  BY <1>3, <1>5, <1>6 DEF Request
<1>8. \A i \in 1..Len(Fork) : keys[i] \in present
  BY <1>2, <1>6
<1>9. Stamps(Fork, k) = {}
  BY <1>7 DEF Stamps
<1>10. CASE db[k] = None
  <2>1. Writes(Fork, k) = {}
    BY <1>4, <1>7, <1>8, <1>10 DEF Writes
  <2> QED BY <1>9, <1>10, <2>1 DEF Leaves
<1>11. CASE db[k] # None
  <2>1. PICK i \in 1..Len(Fork) : keys[i] = k
    BY <1>2, <1>4, <1>6, <1>11
  <2>2. i \in Writes(Fork, k)
    BY <1>7, <2>1 DEF Writes
  <2>3. ASSUME NEW j \in Writes(Fork, k) PROVE j <= i
    <3>1. j \in 1..Len(Fork) /\ keys[j] = k
      BY <1>7 DEF Writes
    <3>2. j = i
      BY <1>2, <1>6, <2>1, <3>1
    <3> QED BY <1>5, <1>6, <3>1, <3>2
  <2>4. LastWrite(Fork, k, i)
    BY <2>2, <2>3 DEF LastWrite
  <2>5. Fork[i].op = "SET" /\ db[k].val = Fork[i].arg
    BY <1>7, <2>1
  <2> QED BY <1>9, <1>11, <2>4, <2>5 DEF Leaves
<1> QED BY <1>9, <1>10, <1>11

\* REWRITE puts them in the place of the file; what is in the cache follows
\* them.
LEMMA RewriteLeaves ==
    ASSUME TypeOK, NEW k \in Keys, Stamps(log \o cache, k) = {}, Leaves(log \o cache, k, db[k])
    PROVE  /\ Fork \o cache \in Seq(AllRequests)
           /\ Stamps(Fork \o cache, k) = {} /\ Leaves(Fork \o cache, k, db[k])
<1>1. log \in Seq(AllRequests) /\ cache \in Seq(AllRequests)
  BY DEF TypeOK
<1>2. Fork \in Seq(AllRequests)
  BY ForkType
<1>3. db[k] # None => db[k].expire = None
  BY DEF Leaves
<1>4. Stamps(Fork, k) = {} /\ Leaves(Fork, k, db[k])
  BY <1>3, ForkLeaves
<1>5. Stamps(Fork \o cache, k) = {}
  BY <1>1, <1>2, <1>4, BothStamps
<1>6. CASE Writes(cache, k) = {}
  BY <1>1, <1>2, <1>4, <1>5, <1>6, EarlierLeaves
<1>7. CASE Writes(cache, k) # {}
  BY <1>1, <1>2, <1>5, <1>7, LaterLeaves
<1> QED BY <1>1, <1>2, <1>5, <1>6, <1>7

\* Requests from one sequence to the next.
LEMMA Concats ==
    ASSUME NEW p \in Seq(AllRequests), NEW q \in Seq(AllRequests), NEW r \in AllRequests
    PROVE  /\ p \o Append(q, r) = Append(p \o q, r)
           /\ p \o <<>> = p /\ <<>> \o p = p
           /\ q # <<>> => /\ Head(q) \in AllRequests /\ Tail(q) \in Seq(AllRequests)
                          /\ Append(p, Head(q)) \o Tail(q) = p \o q
<1>1. p \o Append(q, r) = Append(p \o q, r)
  OBVIOUS
<1>2. p \o <<>> = p /\ <<>> \o p = p
  OBVIOUS
<1>3. ASSUME q # <<>> 
      PROVE  /\ Head(q) \in AllRequests /\ Tail(q) \in Seq(AllRequests)
             /\ Append(p, Head(q)) \o Tail(q) = p \o q
  <2>1. /\ Head(q) \in AllRequests /\ Tail(q) \in Seq(AllRequests) /\ Len(q) > 0
        /\ Len(Tail(q)) = Len(q) - 1 /\ q[1] = Head(q)
        /\ \A i \in 1..Len(q) - 1 : Tail(q)[i] = q[i + 1]
    BY <1>3
  <2> DEFINE u == Append(p, Head(q))
             v == u \o Tail(q)
             w == p \o q
  <2>2. u \in Seq(AllRequests) /\ v \in Seq(AllRequests) /\ w \in Seq(AllRequests)
    BY <2>1
  <2>3. Len(v) = Len(p) + Len(q) /\ Len(w) = Len(p) + Len(q) /\ Len(p) \in Nat /\ Len(q) \in Nat
    BY <2>1
  <2>4. ASSUME NEW i \in 1..Len(w) PROVE v[i] = w[i]
    <3>1. CASE i <= Len(p)
      BY <2>1, <2>3, <3>1
    <3>2. CASE i = Len(p) + 1
      BY <2>1, <2>3, <3>2
    <3>3. CASE i > Len(p) + 1
      <4>1. v[i] = Tail(q)[i - Len(p) - 1] /\ w[i] = q[i - Len(p)]
        BY <2>1, <2>3, <3>3
      <4>2. i - Len(p) - 1 \in 1..Len(q) - 1
        BY <2>3, <3>3
      <4> QED BY <2>1, <2>3, <4>1, <4>2
    <3>4. i <= Len(p) \/ i = Len(p) + 1 \/ i > Len(p) + 1
      BY <2>3
    <3> HIDE DEF u, v, w
    <3> QED BY <3>1, <3>2, <3>3, <3>4
  <2> HIDE DEF u, v, w
  <2>5. v = w
    BY <2>2, <2>3, <2>4
  <2> QED BY <2>1, <2>5 DEF u, v, w
<1> QED BY <1>1, <1>2, <1>3, Zenon

\* Once its EXPIRE is there a key only gets DELs.
LEMMA StampedLastMore ==
    ASSUME NEW s \in Seq(AllRequests), NEW r \in AllRequests, NEW k, StampedLast(s, k),
           r.key = k /\ r.op # "DEL" => Stamps(s, k) = {}
    PROVE  StampedLast(Append(s, r), k)
<1> DEFINE u == Append(s, r)
           n == Len(s) + 1
<1>1. /\ Len(s) \in Nat /\ Len(u) = n /\ u[n] = r /\ \A i \in 1..Len(s) : u[i] = s[i]
      /\ Stamps(u, k) = IF r.key = k /\ r.op = "EXPIRE" THEN Stamps(s, k) \cup {n} ELSE Stamps(s, k)
  BY OneMore
<1> HIDE DEF u
<1>2. ASSUME NEW i \in Stamps(u, k), NEW j \in 1..Len(u), i < j, u[j].key = k PROVE u[j].op = "DEL"
  <2>1. i \in Stamps(s, k)
    <3>1. i # n
      BY <1>1, <1>2
    <3> QED BY <1>1, <3>1
  <2>2. CASE j = n
    BY <1>1, <1>2, <2>1, <2>2
  <2>3. CASE j \in 1..Len(s)
    BY <1>1, <1>2, <2>1, <2>3 DEF StampedLast
  <2> QED BY <1>1, <2>2, <2>3
<1>3. StampedLast(u, k)
  BY <1>2 DEF StampedLast
<1> QED BY <1>3 DEF u

\* What is in the file, in the cache and with the loader.
LEMMA LogTypes ==
    ASSUME TypeOK
    PROVE  /\ log \in Seq(AllRequests) /\ cache \in Seq(AllRequests) /\ replay \in Seq(AllRequests)
           /\ Logged \in Seq(AllRequests) /\ Coming \in Seq(AllRequests)
BY Beginning DEF TypeOK, Logged, Coming

\* A request of a client goes to the cache; one that may follow a timer of its
\* key drops the key.
LEMMA LogCommand ==
    ASSUME TypeOK, FromLog, aof, NEW req \in AllRequests, Command(req)
    PROVE  FromLog'
<1>1. /\ up /\ replay = <<>> /\ Exec(req) /\ Forget(req)
      /\ cache' = Append(cache, req) /\ log' = log /\ replay' = replay
      /\ up' = up /\ dump' = dump /\ want' = None /\ now' = now
  BY DEF Command
<1>2. Logged \in Seq(AllRequests) /\ log \in Seq(AllRequests) /\ cache \in Seq(AllRequests)
  BY LogTypes
<1>3. Coming = Logged /\ Logged' = Append(Logged, req) /\ Coming' = Append(Logged, req)
  <2>1. log \o Append(cache, req) = Append(log \o cache, req)
    BY <1>2, Concats
  <2>2. Append(Logged, req) \in Seq(AllRequests)
    BY <1>2
  <2>3. Append(Logged, req) \o <<>> = Append(Logged, req) /\ Logged \o <<>> = Logged
    BY <1>2, <2>2, Concats
  <2> QED BY <1>1, <2>1, <2>3 DEF Logged, Coming
<1>4. plain' \subseteq plain /\ plain \subseteq Keys /\ dump = NoEntries
  BY <1>1 DEF FromLog, Forget
<1> DEFINE u == Append(Logged, req)
<1>5. ASSUME NEW k \in plain' PROVE FromLogOf(k)'
  <2>1. k \in Keys /\ k \in plain /\ FromLogOf(k)
    BY <1>4 DEF FromLog
  <2>2. req.key = k /\ req.op # "DEL" => Stamps(Logged, k) = {}
    BY <1>1, <1>3, <1>5, <2>1 DEF Forget, FromLogOf
  <2>3. StampedLast(u, k)
    BY <1>2, <1>3, <2>1, <2>2, StampedLastMore DEF FromLogOf
  <2>4. ASSUME k \notin stamped' PROVE Stamps(u, k) = {}
    <3>1. ~ (req.key = k /\ req.op = "EXPIRE") /\ k \notin stamped
      BY <1>1, <2>4 DEF Forget
    <3>2. Stamps(u, k) = Stamps(Logged, k)
      BY <1>2, <3>1, OneMore
    <3> QED BY <1>3, <2>1, <3>1, <3>2 DEF FromLogOf
  <2>5. PICK e \in MaybeEntry : Leaves(Logged, k, e) /\ Near(db[k], e)
    BY <1>1, <2>1 DEF FromLogOf
  <2>6. TimersOf(Logged, k)
    BY <2>1 DEF FromLogOf
  <2>7. \E f \in MaybeEntry : Leaves(u, k, f) /\ Near(db[k], f)'
    BY <1>1, <1>2, <2>1, <2>2, <2>5, <2>6, ExecLeaves
  <2>8. \A t \in Queued' : t.key = k => \E i \in Stamps(u, k) : u[i].arg = t.at
    BY <1>1, <1>2, <2>1, <2>6, ExecTimers, Zenon
  <2> HIDE DEF u
  <2>9. Logged' = u /\ Coming' = u
    BY <1>3 DEF u
  <2>10. TimersOf(Logged, k)'
    BY <2>8, <2>9 DEF TimersOf
  <2> QED BY <1>1, <2>3, <2>4, <2>7, <2>9, <2>10 DEF FromLogOf
<1> QED BY <1>1, <1>4, <1>5 DEF FromLog

\* A request of the loader goes to the cache, and what is still to come is the
\* same.
LEMMA LogReplayStep ==
    ASSUME TypeOK, FromLog, aof, ReplayStep
    PROVE  FromLog'
<1> DEFINE req == Head(replay)
           u == Append(Logged, req)
<1>1. /\ up /\ replay # <<>> /\ Exec(req)
      /\ cache' = Append(cache, req) /\ log' = log /\ replay' = Tail(replay)
      /\ up' = up /\ dump' = dump /\ now' = now
      /\ want' = want /\ stamped' = stamped /\ plain' = plain
  BY DEF ReplayStep, history
<1>2. /\ Logged \in Seq(AllRequests) /\ log \in Seq(AllRequests) /\ cache \in Seq(AllRequests)
      /\ replay \in Seq(AllRequests)
  BY LogTypes
<1>3. req \in AllRequests /\ Tail(replay) \in Seq(AllRequests) /\ u \o Tail(replay) = Logged \o replay
  <2>1. PICK r \in AllRequests : r = Head(replay)
    BY <1>1, <1>2
  <2> QED BY <1>1, <1>2, <2>1, Concats
<1>4. Logged' = u
  <2>1. log \o Append(cache, req) = Append(log \o cache, req)
    BY <1>2, <1>3, Concats
  <2> QED BY <1>1, <2>1 DEF Logged
<1>5. Coming' = Coming
  BY <1>1, <1>3, <1>4 DEF Coming
<1>6. plain \subseteq Keys /\ dump = NoEntries
  BY DEF FromLog
<1>7. ASSUME NEW k \in plain PROVE FromLogOf(k)'
  <2>1. k \in Keys /\ FromLogOf(k)
    BY <1>6 DEF FromLog
  <2>2. req.key = k /\ req.op # "DEL" => Stamps(Logged, k) = {}
    BY <1>1, <1>2, <2>1, Beginning, Zenon DEF FromLogOf, Coming
  <2>3. PICK e \in MaybeEntry : Leaves(Logged, k, e) /\ Near(db[k], e)
    BY <1>1, <2>1 DEF FromLogOf
  <2>4. TimersOf(Logged, k)
    BY <2>1 DEF FromLogOf
  <2> HIDE DEF req
  <2>5. \E f \in MaybeEntry : Leaves(u, k, f) /\ Near(db[k], f)'
    BY <1>1, <1>2, <1>3, <2>1, <2>2, <2>3, <2>4, ExecLeaves
  <2>6. \A t \in Queued' : t.key = k => \E i \in Stamps(u, k) : u[i].arg = t.at
    BY <1>1, <1>2, <1>3, <2>1, <2>4, ExecTimers, Zenon
  <2> HIDE DEF u
  <2>7. TimersOf(Logged, k)'
    BY <1>4, <2>6 DEF TimersOf
  <2>8. ASSUME want # None PROVE \E f \in MaybeEntry : Leaves(Coming, k, f)' /\ Near(want[k], f)'
    BY <1>1, <1>5, <2>1, <2>8 DEF FromLogOf, Near, Expired
  <2>9. /\ StampedLast(Coming, k)'
        /\ k \notin stamped' => Stamps(Coming, k)' = {}
    BY <1>1, <1>5, <2>1 DEF FromLogOf
  <2> QED BY <1>1, <1>4, <2>5, <2>7, <2>8, <2>9 DEF FromLogOf
<1> QED BY <1>1, <1>6, <1>7 DEF FromLog

\* A timer that fires is that of an EXPIRE: what it removes has expired.
LEMMA LogFire ==
    ASSUME TypeOK, FromLog, aof, Fire
    PROVE  FromLog'
<1>1. /\ up /\ log' = log /\ cache' = cache /\ replay' = replay
      /\ up' = up /\ dump' = dump /\ now' = now
      /\ want' = want /\ stamped' = stamped /\ plain' = plain
  BY DEF Fire, files, loader, history
<1>2. Logged' = Logged /\ Coming' = Coming
  BY <1>1 DEF Logged, Coming
<1>3. PICK t \in Queued : /\ t.at <= now
                          /\ que' = [que EXCEPT ![t] = @ - 1]
                          /\ db' = [db EXCEPT ![t.key] = None]
  BY Zenon DEF Fire
<1>4. t \in DbExpireTimer /\ que[t] \in Nat /\ t.key \in Keys /\ t.at \in Times
  BY Zenon DEF Queued, TypeOK, DbExpireTimer
<1>5. Queued' \subseteq Queued
  BY <1>3, <1>4 DEF Queued, TypeOK
<1>6. plain \subseteq Keys /\ dump = NoEntries
  BY DEF FromLog
<1>7. ASSUME NEW k \in plain PROVE FromLogOf(k)'
  <2>1. k \in Keys /\ FromLogOf(k)
    BY <1>6 DEF FromLog
  <2>2. PICK e \in MaybeEntry : Leaves(Logged, k, e) /\ Near(db[k], e)
    BY <1>1, <2>1 DEF FromLogOf
  <2>3. Near(db[k], e)'
    <3>1. CASE t.key # k
      <4>1. db'[k] = db[k]
        BY <1>3, <2>1, <3>1 DEF TypeOK, Entries
      <4> QED BY <1>1, <2>2, <4>1 DEF Near, Expired
    <3>2. CASE t.key = k
      <4>1. db'[k] = None
        BY <1>3, <1>4, <3>2 DEF TypeOK, Entries
      <4>2. PICK i \in Stamps(Logged, k) : Logged[i].arg = t.at
        BY <2>1, <3>2 DEF FromLogOf, TimersOf
      <4>3. e # None => e.expire = t.at
        BY <2>2, <4>2 DEF Leaves
      <4> QED BY <1>1, <1>3, <1>4, <4>1, <4>3, RecoveryAssumption DEF Near, Expired
    <3> QED BY <3>1, <3>2
  <2>4. TimersOf(Logged, k)'
    BY <1>2, <1>5, <2>1 DEF FromLogOf, TimersOf
  <2>5. ASSUME want # None PROVE \E f \in MaybeEntry : Leaves(Coming, k, f)' /\ Near(want[k], f)'
    BY <1>1, <1>2, <2>1, <2>5 DEF FromLogOf, Near, Expired
  <2>6. \E f \in MaybeEntry : Leaves(Logged, k, f)' /\ Near(db[k], f)'
    BY <1>2, <2>2, <2>3
  <2>7. /\ StampedLast(Coming, k)'
        /\ k \notin stamped' => Stamps(Coming, k)' = {}
    BY <1>1, <1>2, <2>1 DEF FromLogOf
  <2> QED BY <1>1, <2>4, <2>5, <2>6, <2>7 DEF FromLogOf
<1> QED BY <1>1, <1>6, <1>7 DEF FromLog

\* What has expired stays so.
LEMMA LogTick ==
    ASSUME TypeOK, FromLog, aof, Tick
    PROVE  FromLog'
<1>1. UNCHANGED <<up, db, que, dump, log, cache, replay, want, stamped, plain>> /\ now' = now + 1
  BY DEF Tick, files, loader, history
<1>2. Logged' = Logged /\ Coming' = Coming /\ Queued' = Queued
  BY <1>1 DEF Logged, Coming, Queued
<1>3. ASSUME NEW e \in MaybeEntry, NEW x, Near(x, e) PROVE x = e \/ (x = None /\ Expired(e)')
  <2>1. ASSUME Expired(e) PROVE Expired(e)'
    <3>1. now \in Nat
      BY RecoveryAssumption DEF TypeOK, Times
    <3>2. e.expire \in Nat
      BY <2>1, RecoveryAssumption DEF Expired, MaybeEntry, Entry, Times
    <3> QED BY <1>1, <2>1, <3>1, <3>2 DEF Expired
  <2> QED BY <1>3, <2>1 DEF Near
<1>4. plain \subseteq Keys /\ dump = NoEntries
  BY DEF FromLog
<1>5. ASSUME NEW k \in plain PROVE FromLogOf(k)'
  <2>1. FromLogOf(k)
    BY DEF FromLog
  <2>2. ASSUME up PROVE \E e \in MaybeEntry : Leaves(Logged, k, e)' /\ Near(db[k], e)'
    BY <1>1, <1>2, <1>3, <2>1, <2>2 DEF FromLogOf, Near
  <2>3. ASSUME want # None PROVE \E e \in MaybeEntry : Leaves(Coming, k, e)' /\ Near(want[k], e)'
    BY <1>1, <1>2, <1>3, <2>1, <2>3 DEF FromLogOf, Near
  <2>4. TimersOf(Logged, k)'
    BY <1>2, <2>1 DEF FromLogOf, TimersOf
  <2> QED BY <1>1, <1>2, <2>1, <2>2, <2>3, <2>4 DEF FromLogOf
<1> QED BY <1>1, <1>4, <1>5 DEF FromLog

\* AofTimer::Exec moves requests from the cache to the file.
LEMMA LogFlush ==
    ASSUME TypeOK, FromLog, aof, Flush
    PROVE  FromLog'
<1>1. /\ log' = log \o cache /\ cache' = <<>>
      /\ UNCHANGED <<up, db, que, now, dump, replay, want, stamped, plain>> /\ up
  BY DEF Flush, loader, history
<1>2. Logged' = Logged /\ Coming' = Coming /\ Queued' = Queued
  <2>1. Logged \o <<>> = Logged
    BY LogTypes
  <2> QED BY <1>1, <2>1 DEF Logged, Coming, Queued
<1>3. ASSUME NEW k \in plain PROVE FromLogOf(k)'
  <2>1. FromLogOf(k)
    BY DEF FromLog
  <2>2. TimersOf(Logged, k)'
    BY <1>2, <2>1 DEF FromLogOf, TimersOf
  <2> QED BY <1>1, <1>2, <2>1, <2>2 DEF FromLogOf, Near, Expired
<1> QED BY <1>1, <1>3 DEF FromLog

\* REWRITE drops the deadlines: the keys that never had one are kept.
LEMMA LogRewrite ==
    ASSUME TypeOK, FromLog, aof, Rewrite
    PROVE  FromLog'
<1>1. /\ up /\ replay = <<>> /\ log' = Fork /\ plain' = plain \ stamped
      /\ UNCHANGED <<up, db, que, now, dump, cache, replay, want, stamped>>
  BY DEF Rewrite, loader
<1>2. Coming = Logged
  BY <1>1, LogTypes DEF Coming
<1>3. plain \subseteq Keys /\ dump = NoEntries
  BY DEF FromLog
<1> DEFINE u == Fork \o cache
<1>4. ASSUME NEW k \in plain' PROVE FromLogOf(k)'
  <2>1. k \in Keys /\ k \in plain /\ k \notin stamped /\ FromLogOf(k)
    BY <1>1, <1>3, <1>4 DEF FromLog
  <2>2. Stamps(Logged, k) = {}
    BY <1>2, <2>1 DEF FromLogOf
  <2>3. \A e \in MaybeEntry : Leaves(Logged, k, e) => ~ Expired(e)
    BY <2>2 DEF Leaves, Expired
  <2>4. Leaves(Logged, k, db[k]) /\ db[k] \in MaybeEntry
    <3>1. PICK e \in MaybeEntry : Leaves(Logged, k, e) /\ Near(db[k], e)
      BY <1>1, <2>1 DEF FromLogOf
    <3> QED BY <2>3, <3>1 DEF Near
  <2>5. u \in Seq(AllRequests) /\ Stamps(u, k) = {} /\ Leaves(u, k, db[k])
    BY <2>1, <2>2, <2>4, RewriteLeaves DEF Logged
  <2>6. ASSUME want # None PROVE want[k] = db[k]
    <3>1. PICK e \in MaybeEntry : Leaves(Logged, k, e) /\ Near(want[k], e)
      BY <1>2, <2>1, <2>6 DEF FromLogOf
    <3>2. e = db[k]
      BY <2>4, <3>1, LeavesOne, LogTypes
    <3> QED BY <2>3, <3>1, <3>2 DEF Near
  <2>7. u \o <<>> = u
    BY <2>5
  <2>8. Logged' = u /\ Coming' = u
    BY <1>1, <2>7 DEF Logged, Coming
  <2>9. TimersOf(Logged, k)'
    <3>1. \A t \in Queued : t.key # k
      BY <2>1, <2>2 DEF FromLogOf, TimersOf
    <3> QED BY <1>1, <3>1 DEF TimersOf, Queued
  <2> HIDE DEF u
  <2>10. StampedLast(u, k)
    BY <2>5 DEF StampedLast
  <2> QED BY <1>1, <2>4, <2>5, <2>6, <2>8, <2>9, <2>10 DEF FromLogOf, Near
<1> QED BY <1>1, <1>3, <1>4 DEF FromLog

\* A kill leaves the file.  What was there comes back from it if nothing was in
\* the cache or with the loader.
LEMMA LogCrash ==
    ASSUME TypeOK, FromLog, aof, Crash
    PROVE  FromLog'
<1>1. /\ up /\ ~ up' /\ que' = NoTimers /\ cache' = <<>> /\ replay' = <<>>
      /\ want' = (IF cache = <<>> /\ replay = <<>> THEN db ELSE None)
      /\ UNCHANGED <<now, dump, log, stamped, plain>>
  BY DEF Crash
<1>2. /\ log \in Seq(AllRequests) /\ cache \in Seq(AllRequests) /\ replay \in Seq(AllRequests)
      /\ Logged \in Seq(AllRequests)
  BY LogTypes
<1>3. Logged' = log /\ Coming' = log
  <2>1. log \o <<>> = log
    BY <1>2
  <2> QED BY <1>1, <2>1 DEF Logged, Coming
<1>4. Queued' = {}
  BY <1>1 DEF Queued, NoTimers
<1>5. ASSUME NEW k \in plain PROVE FromLogOf(k)'
  <2>1. FromLogOf(k)
    BY DEF FromLog
  <2>2. /\ StampedLast(log, k) /\ Stamps(log, k) \subseteq Stamps(Coming, k)
    <3>1. StampedLast(Logged, k) /\ Stamps(Logged, k) \subseteq Stamps(Coming, k)
      BY <1>2, <2>1, Beginning DEF FromLogOf, Coming
    <3>2. StampedLast(log, k) /\ Stamps(log, k) \subseteq Stamps(Logged, k)
      BY <1>2, <3>1, Beginning DEF Logged
    <3> QED BY <3>1, <3>2
  <2>3. ASSUME want' # None PROVE \E e \in MaybeEntry : Leaves(log, k, e) /\ Near(db[k], e) /\ want' = db
    <3>1. cache = <<>> /\ want' = db
      BY <1>1, <2>3
    <3>2. Logged = log
      BY <1>2, <3>1 DEF Logged
    <3> QED BY <1>1, <2>1, <3>1, <3>2 DEF FromLogOf
  <2>4. k \notin stamped' => Stamps(log, k) = {}
    BY <1>1, <2>1, <2>2 DEF FromLogOf
  <2>5. want' # None => (\E e \in MaybeEntry : Leaves(log, k, e) /\ Near(want[k], e)')
    BY <1>1, <2>3 DEF Near, Expired
  <2> QED BY <1>1, <1>3, <1>4, <2>2, <2>4, <2>5 DEF FromLogOf, TimersOf
<1> QED BY <1>1, <1>5 DEF FromLog

\* At a start the file goes to the loader.
LEMMA LogStart ==
    ASSUME TypeOK, FromLog, aof, Start
    PROVE  FromLog'
<1>1. /\ ~ up /\ up' /\ db' = dump /\ que' = LoadTimers(dump) /\ dump' = NoEntries
      /\ replay' = log /\ log' = <<>>
      /\ UNCHANGED <<now, cache, want, stamped, plain>>
  BY DEF Start, history
<1>2. cache = <<>> /\ replay = <<>> /\ dump = NoEntries /\ plain \subseteq Keys
  BY <1>1 DEF FromLog
<1>3. log \in Seq(AllRequests)
  BY LogTypes
<1>4. Logged' = <<>> /\ Coming' = log /\ Coming = log
  BY <1>1, <1>2, <1>3 DEF Logged, Coming
<1>5. Queued' = {}
  BY <1>1, <1>2 DEF Queued, LoadTimers, NoEntries, DbExpireTimer
<1>6. ASSUME NEW k \in plain PROVE FromLogOf(k)'
  <2>1. FromLogOf(k)
    BY DEF FromLog
  <2>2. db'[k] = None
    BY <1>1, <1>2 DEF NoEntries
  <2>3. Leaves(<<>>, k, None) /\ None \in MaybeEntry
    BY DEF Leaves, Writes, MaybeEntry
  <2>4. \E e \in MaybeEntry : Leaves(Logged, k, e)' /\ Near(db[k], e)'
    BY <1>4, <2>2, <2>3 DEF Near
  <2>5. TimersOf(Logged, k)'
    BY <1>5 DEF TimersOf
  <2> QED BY <1>1, <1>4, <2>1, <2>4, <2>5 DEF FromLogOf, Near, Expired
<1> QED BY <1>1, <1>2, <1>6 DEF FromLog

\* At first there are no requests.
LEMMA InitFromLog == Init => FromLog
<1> SUFFICES ASSUME Init PROVE FromLog
  OBVIOUS
<1>1. Logged = <<>> /\ Coming = <<>> /\ Queued = {} /\ want = None /\ plain = Keys
  BY DEF Init, Logged, Coming, Queued, NoTimers
<1>2. ASSUME NEW k \in Keys PROVE FromLogOf(k)
  <2>1. Leaves(<<>>, k, None) /\ None \in MaybeEntry /\ Stamps(<<>>, k) = {}
    BY DEF Leaves, Writes, Stamps, MaybeEntry
  <2>2. Near(db[k], None)
    BY DEF Init, NoEntries, Near
  <2> QED BY <1>1, <2>1, <2>2 DEF FromLogOf, TimersOf, StampedLast
<1> QED BY <1>1, <1>2 DEF FromLog, Init

\* Every step keeps what the log is good for.
LEMMA StepFromLog == TypeOK /\ FromLog /\ [Next]_vars => FromLog'
<1> SUFFICES ASSUME TypeOK, FromLog, [Next]_vars, aof' PROVE FromLog'
  BY DEF FromLog
<1>a. aof
  BY Zenon DEF Next, vars, Command, Fire, Tick, Save, Flush, Rewrite, Crash, Start,
         ReplayStep, LoaderLogout
<1>1. ASSUME NEW req \in Requests, Command(req) PROVE FromLog'
  <2>1. req \in AllRequests
    BY RequestsType
  <2> QED BY <1>a, <1>1, <2>1, LogCommand
<1>2. CASE Fire
  BY <1>a, <1>2, LogFire
<1>3. CASE Tick
  BY <1>a, <1>3, LogTick
<1>4. CASE Save
  BY <1>a, <1>4 DEF Save
<1>5. CASE Flush
  BY <1>a, <1>5, LogFlush
<1>6. CASE Rewrite
  BY <1>a, <1>6, LogRewrite
<1>7. CASE Crash
  BY <1>a, <1>7, LogCrash
<1>8. CASE Start
  BY <1>a, <1>8, LogStart
<1>9. CASE ReplayStep
  BY <1>a, <1>9, LogReplayStep
<1>10. CASE LoaderLogout
  BY <1>a, <1>10 DEF LoaderLogout, FromLog
<1>11. CASE UNCHANGED vars
  <2>1. /\ UNCHANGED <<up, db, now, dump, cache, replay, que, want, stamped, plain>>
        /\ Logged' = Logged /\ Coming' = Coming /\ Queued' = Queued
    BY <1>11 DEF vars, Logged, Coming, Queued
  <2>2. ASSUME NEW k \in plain PROVE FromLogOf(k)'
    <3>1. FromLogOf(k)
      BY <1>a DEF FromLog
    <3>2. TimersOf(Logged, k)'
      BY <2>1, <3>1 DEF FromLogOf, TimersOf
    <3> QED BY <2>1, <3>1, <3>2 DEF FromLogOf, Near, Expired
  <2> QED BY <1>a, <2>1, <2>2 DEF FromLog
<1> QED BY <1>1, <1>2, <1>3, <1>4, <1>5, <1>6, <1>7, <1>8, <1>9, <1>10, <1>11 DEF Next

\* A restart, with nothing sent since, once the loader is through and due
\* timers have fired.  From a dump file every entry is there, value and
\* deadline, exactly if its deadline has not passed (KeyValue::Encode,
\* Db::Load, DbExpireTimer::Exec); from a log every entry whose EXPIRE was
\* not followed by another request but DEL and not dropped by a REWRITE
\* (Handler::ioClient, AOFLoad, Db::Fork).
THEOREM FilesAreRestored == Spec => []Restored
<1>1. IInv /\ FromLog /\ aof => Restored
  <2> SUFFICES ASSUME IInv, FromLog, aof, Settled, want # None, NEW k \in plain
               PROVE db[k] = IF Expired(want[k]) THEN None ELSE want[k]
    BY DEF Restored
  <2>1. TypeOK /\ FromLogOf(k) /\ k \in Keys /\ up /\ replay = <<>>
    BY DEF IInv, FromLog, Settled
  <2>2. Coming = Logged /\ Logged \in Seq(AllRequests)
    BY <2>1, LogTypes DEF Coming
  <2>3. PICK e \in MaybeEntry : Leaves(Logged, k, e) /\ Near(db[k], e)
    BY <2>1 DEF FromLogOf
  <2>4. PICK f \in MaybeEntry : Leaves(Logged, k, f) /\ Near(want[k], f)
    BY <2>1, <2>2 DEF FromLogOf
  <2>5. e = f
    BY <2>2, <2>3, <2>4, LeavesOne
  <2>6. ASSUME Expired(e), db[k] = e PROVE FALSE
    <3> DEFINE t == [key |-> k, at |-> db[k].expire]
    <3>1. t \in Queued
      BY <2>1, <2>6 DEF IInv, DeadlinesCovered, Expired
    <3>2. t.at > now /\ t.at \in Nat /\ now \in Nat
      BY <2>1, <3>1, RecoveryAssumption DEF Settled, Queued, DbExpireTimer, Times, TypeOK
    <3> QED BY <2>6, <3>2 DEF Expired
  <2>7. CASE Expired(e)
    <3>1. db[k] = None
      BY <2>3, <2>6, <2>7 DEF Near
    <3>2. want[k] = e \/ want[k] = None
      BY <2>4, <2>5 DEF Near
    <3> QED BY <2>7, <3>1, <3>2
  <2>8. CASE ~ Expired(e)
    <3>1. db[k] = e /\ want[k] = e
      BY <2>3, <2>4, <2>5, <2>8 DEF Near
    <3> QED BY <2>8, <3>1
  <2> QED BY <2>7, <2>8
<1>2. FromLog /\ IInv /\ [Next]_vars => FromLog'
  BY StepFromLog DEF IInv
<1>3. Spec => []FromLog
  BY <1>2, InitFromLog, Invariance, PTL DEF Spec
<1>4. Spec => [](~aof => Restored)
  BY DumpIsRestored
<1> QED BY <1>1, <1>3, <1>4, Invariance, PTL
=============================================================================
