------------------------------ MODULE Recovery ------------------------------
(***************************************************************************)
(* Deadlines across kills and restarts: the keyspace and its expiry        *)
(* together with what a dump file or a log brings back.  Db::Load makes a  *)
(* timer for every deadline it reads; a replayed EXPIRE makes its timer    *)
(* again, and the timer thread runs while the replay is going on.          *)
(* Deletions by timers are not logged.                                     *)
(*                                                                         *)
(* A command, a save and a flush are one step each: Keyspace, Rdb and Aof  *)
(* take them apart.  There is one database.                                *)
(***************************************************************************)
EXTENDS Naturals, Sequences, SequencesExt, FiniteSets

CONSTANTS
    Keys,         \* keys
    Values,       \* values
    MaxTime,      \* bound: the clock and the deadlines
    MaxCommands,  \* bound: requests of clients
    MaxRewrites,  \* bound: REWRITE requests
    MaxCrashes,   \* bound: kills of the process
    None          \* no entry, no deadline

VARIABLES
    aof,       \* enable_aof_ of the configuration
    now,       \* UsTime()
    up,        \* the process runs
    db,        \* key_value_map_: key -> value and deadline, or None
    que,       \* timers in tmr_que_: how many of each
    dump,      \* the dump file: the entries of the last save
    log,       \* the log file
    cache,     \* aof_cache_
    replay,    \* requests of the loader that have not been executed
    replied,   \* a request of the loader has been executed
    left,      \* requests and kills clients have left
    want,      \* history: what the last kill left to come back, or None if
               \* some of it was on no file
    stamped,   \* history: keys EXPIRE has been sent for
    plain      \* history: keys the log is good for, see Forget

vars == <<aof, now, up, db, que, dump, log, cache, replay, replied, left, want,
          stamped, plain>>
files == <<dump, log, cache>>
loader == <<replay, replied>>
history == <<want, stamped, plain>>

Times == 0..MaxTime
Entry == [val : Values, expire : Times \cup {None}]
DbExpireTimer == [key : Keys, at : Times]

ASSUME RecoveryAssumption ==
    /\ MaxTime \in Nat
    /\ IsFiniteSet(Keys)
    /\ None \notin Entry /\ None \notin Times

Queued == {t \in DbExpireTimer : que[t] > 0}

Request(op, key, arg) == [op |-> op, key |-> key, arg |-> arg]

NoEntries == [k \in Keys |-> None]
NoTimers == [t \in DbExpireTimer |-> 0]

Init ==
    /\ aof \in BOOLEAN
    /\ now = 0
    /\ up = TRUE
    /\ db = NoEntries
    /\ que = NoTimers
    /\ dump = NoEntries
    /\ log = <<>> /\ cache = <<>> /\ replay = <<>>
    /\ replied = FALSE
    /\ left = [commands |-> MaxCommands, rewrites |-> MaxRewrites, crashes |-> MaxCrashes]
    /\ want = None
    /\ stamped = {}
    /\ plain = Keys

(***************************************************************************)
(* Commands.                                                               *)
(***************************************************************************)
\* SET writes into the object that is there, and the entry keeps its
\* deadline; EXPIRE of an entry stamps it and queues a timer.
Exec(req) ==
    LET k == req.key IN
    /\ db' = CASE req.op = "SET" ->
                    [db EXCEPT ![k] = [val |-> req.arg,
                                       expire |-> IF @ = None THEN None ELSE @.expire]]
               [] req.op = "EXPIRE" ->
                    IF db[k] = None THEN db ELSE [db EXCEPT ![k].expire = req.arg]
               [] req.op = "DEL" -> [db EXCEPT ![k] = None]
    /\ que' = IF req.op = "EXPIRE" /\ db[k] # None
              THEN [que EXCEPT ![[key |-> k, at |-> req.arg]] = @ + 1] ELSE que

\* A log is good for a key as long as its EXPIRE is the last request but for
\* DELs: its timer, made anew by the replay, may fire at any later request.
Forget(req) ==
    /\ stamped' = IF req.op = "EXPIRE" THEN stamped \cup {req.key} ELSE stamped
    /\ plain' = IF req.key \in stamped /\ req.op # "DEL" THEN plain \ {req.key} ELSE plain

\* A client's request: Handler::ioClient logs it, the command thread executes
\* it, behind those of the loader.
Command(req) ==
    /\ up /\ replay = <<>> /\ left.commands > 0
    /\ Exec(req)
    /\ cache' = IF aof THEN Append(cache, req) ELSE cache
    /\ Forget(req)
    /\ left' = [left EXCEPT !.commands = @ - 1]
    /\ want' = None
    /\ UNCHANGED <<aof, now, up, dump, log, replay, replied>>

\* Mutation: the queue gives the latest timer first.
FireLatest ==
    /\ up
    /\ \E t \in Queued :
         /\ t.at <= now
         /\ \A u \in Queued : t.at >= u.at
         /\ que' = [que EXCEPT ![t] = @ - 1]
         /\ db' = [db EXCEPT ![t.key] = None]
    /\ UNCHANGED <<aof, now, up, files, loader, left, history>>

\* The timer thread pops the earliest timer, which is due: Db::Del.
Fire ==
    /\ up
    /\ \E t \in Queued :
         /\ t.at <= now
         /\ \A u \in Queued : t.at <= u.at
         /\ que' = [que EXCEPT ![t] = @ - 1]
         /\ db' = [db EXCEPT ![t.key] = None]
    /\ UNCHANGED <<aof, now, up, files, loader, left, history>>

Tick ==
    /\ now < MaxTime
    /\ now' = now + 1
    /\ UNCHANGED <<aof, up, db, que, files, loader, left, history>>

(***************************************************************************)
(* Persistence.                                                            *)
(***************************************************************************)
\* RdbTimer::Exec.  KeyValue::Encode writes an entry with its deadline.
Save ==
    /\ up /\ ~aof /\ dump # db
    /\ dump' = db
    /\ UNCHANGED <<aof, now, up, db, que, log, cache, loader, left, history>>

\* AofTimer::Exec.
Flush ==
    /\ up /\ aof /\ cache # <<>>
    /\ log' = log \o cache
    /\ cache' = <<>>
    /\ UNCHANGED <<aof, now, up, db, que, dump, loader, left, history>>

\* The requests Db::Fork makes: values, and no deadlines.
Fork ==
    LET keys == SetToSeq({k \in Keys : db[k] # None})
    IN [i \in DOMAIN keys |-> Request("SET", keys[i], db[keys[i]].val)]

\* REWRITE, its timer included.
Rewrite ==
    /\ up /\ aof /\ replay = <<>> /\ left.rewrites > 0
    /\ log' = Fork
    /\ plain' = plain \ stamped
    /\ left' = [left EXCEPT !.rewrites = @ - 1]
    /\ UNCHANGED <<aof, now, up, db, que, dump, cache, loader, want, stamped>>

Crash ==
    /\ up /\ left.crashes > 0
    /\ up' = FALSE
    /\ left' = [left EXCEPT !.crashes = @ - 1]
    /\ db' = NoEntries /\ que' = NoTimers
    /\ cache' = <<>> /\ replay' = <<>> /\ replied' = FALSE
    /\ want' = IF ~aof THEN dump
               ELSE IF cache = <<>> /\ replay = <<>> THEN db ELSE None
    /\ UNCHANGED <<aof, now, dump, log, stamped, plain>>

\* Mutation: an entry whose deadline has passed is loaded without a timer.
LoadTimersAhead(entries) ==
    [t \in DbExpireTimer |->
        IF entries[t.key] # None /\ entries[t.key].expire = t.at /\ t.at > now
        THEN 1 ELSE 0]

\* The timers Db::Load queues.
LoadTimers(entries) ==
    [t \in DbExpireTimer |->
        IF entries[t.key] # None /\ entries[t.key].expire = t.at THEN 1 ELSE 0]

\* MainLoop::MainLoop: the file is read and truncated; RDBLoad restores the
\* entries before any thread runs, AOFLoad sends the log to the server itself.
Start ==
    /\ ~up
    /\ up' = TRUE
    /\ db' = dump
    /\ que' = LoadTimers(dump)
    /\ dump' = NoEntries
    /\ replay' = log
    /\ log' = <<>>
    /\ UNCHANGED <<aof, now, cache, replied, left, history>>

\* Mutation: the command thread holds back requests of the past.
ReplayStepSkipsPast ==
    /\ up /\ replay # <<>>
    /\ IF Head(replay).op = "EXPIRE" /\ Head(replay).arg < now
       THEN UNCHANGED <<db, que>>
       ELSE Exec(Head(replay))
    /\ cache' = Append(cache, Head(replay))
    /\ replay' = Tail(replay)
    /\ replied' = TRUE
    /\ UNCHANGED <<aof, now, up, dump, log, left, history>>

\* A request of the loader, which is logged again.
ReplayStep ==
    /\ up /\ replay # <<>>
    /\ Exec(Head(replay))
    /\ cache' = Append(cache, Head(replay))
    /\ replay' = Tail(replay)
    /\ replied' = TRUE
    /\ UNCHANGED <<aof, now, up, dump, log, left, history>>

\* The io thread logs the loader out while its requests are queued: they are
\* in the log and are not executed.
LoaderLogout ==
    /\ up /\ replay # <<>> /\ replied
    /\ cache' = cache \o replay
    /\ replay' = <<>>
    /\ want' = None
    /\ plain' = {}
    /\ UNCHANGED <<aof, now, up, db, que, dump, log, replied, left, stamped>>

Requests ==
    {Request("SET", k, v) : k \in Keys, v \in Values}
    \cup {Request("EXPIRE", k, at) : k \in Keys, at \in now..MaxTime}
    \cup {Request("DEL", k, None) : k \in Keys}

Next ==
    \/ \E req \in Requests : Command(req)
    \/ Fire \/ Tick
    \/ Save \/ Flush \/ Rewrite
    \/ Crash \/ Start \/ ReplayStep \/ LoaderLogout

Spec == Init /\ [][Next]_vars

\* The timer thread and the command thread run.  A process that was killed
\* need not be started again, nor a request sent.
FairSpec == Spec /\ WF_vars(Fire) /\ WF_vars(ReplayStep)

(***************************************************************************)
(* Properties.                                                             *)
(***************************************************************************)
\* Every deadline an entry carries has a timer, also after a restart from a
\* dump (Db::Load) and in the middle of a replay.
DeadlinesCovered ==
    \A k \in Keys :
        db[k] # None /\ db[k].expire # None => [key |-> k, at |-> db[k].expire] \in Queued

\* "Auto delete expired kv-obj when loading RDB/AOF file": an entry whose
\* deadline has passed, before the kill, while the server was down or since,
\* does not stay.
ExpiredGo ==
    \A k \in Keys :
        up /\ db[k] # None /\ db[k].expire # None /\ db[k].expire <= now
            ~> ~up \/ db[k] = None

Settled == up /\ replay = <<>> /\ \A t \in Queued : t.at > now

Expired(entry) == entry # None /\ entry.expire # None /\ entry.expire <= now

\* A restart brings back every entry that was on file, value and deadline,
\* but for those whose deadline has passed.  From a dump this holds for every
\* key.  A log gives it for the keys whose EXPIRE was not followed by another
\* request and not dropped by a REWRITE, if every earlier replay was executed
\* to its end.
Restored ==
    Settled /\ want # None =>
        \A k \in Keys : k \in plain \/ ~aof =>
            db[k] = IF Expired(want[k]) THEN None ELSE want[k]
=============================================================================
