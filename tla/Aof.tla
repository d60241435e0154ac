-------------------------------- MODULE Aof --------------------------------
(***************************************************************************)
(* AOF persistence.  The io thread logs every request in the cache of the  *)
(* database its client is in (Db::AppendAOF) and then queues the command;  *)
(* the command thread executes it; the timer thread moves the caches to    *)
(* the file (AofTimer::Exec) and replaces the file on REWRITE              *)
(* (DbRewriteTimer::Exec).  A start reads the file and truncates it, and a *)
(* thread of its own, the loader, sends the requests to the server over a  *)
(* connection; the main thread waits for the loader to end before it takes *)
(* the first request (CheckAOFLoad, then Run).                             *)
(*                                                                         *)
(* PUSH stands for LPUSHB on one list per database: it is not idempotent,  *)
(* so a request that is lost, repeated or misplaced shows in the list.     *)
(***************************************************************************)
EXTENDS Naturals, Sequences, SequencesExt, FiniteSets

CONSTANTS
    Clients,      \* connections of clients
    Loader,       \* the connection AOFLoad opens
    MaxDb,        \* database numbers are 0..MaxDb; a client starts in 0
    SockCap,      \* requests the buffers of a connection hold
    MaxPushes,    \* bound: PUSH requests
    Plans         \* bounds: SELECT and REWRITE requests of clients, kills

ASSUME AofAssumption == Plans \subseteq [selects : Nat, rewrites : Nat, crashes : Nat]

VARIABLES
    plan,      \* the bounds of this behaviour
    everySec,  \* aof_mode of the configuration: every_sec or always, or no
    up,        \* the process runs
    main,      \* main thread: "notice", "join" or "run"
    thread,    \* thread of AOFLoad: "write", "sync" or "done"
    unsent,    \* requests AOFLoad has not written
    dbs,       \* contents of the list of every database
    cur,       \* ClientInfo::GetDB of every connection
    loading,   \* requests in the loader's socket
    loader,    \* the loader's ClientInfo: "alive", "replied" or "gone"
    cache,     \* aof_cache_ of every database
    io,        \* io thread between AppendAOF and CommandQue::Push
    cmdQue,    \* cmd_que_: connection and request
    timer,     \* timer thread: program counter and locals
    due,       \* AofTimers in tmr_que_
    rewrites,  \* DbRewriteTimers in tmr_que_, by their cache_
    file,      \* the requests in the file; a file without "AOF" has none
    sent,      \* requests of each kind so far
    crashes,   \* kills so far
    dropped    \* history: a request of the loader was not executed

vars == <<plan, everySec, up, main, thread, unsent, dbs, cur, loading, loader, cache, io, cmdQue, timer, due,
          rewrites, file, sent, crashes, dropped>>

boot == <<plan, everySec, main, thread, unsent>>

Dbs == 0..MaxDb
Request(op, arg) == [op |-> op, arg |-> arg]
Select(d) == Request("SELECT", d)

IoIdle == [pc |-> "idle", conn |-> Loader, req |-> Select(0)]
TimerIdle == [pc |-> "pop", at |-> 0, pieces |-> <<>>]
NoLists == [d \in Dbs |-> <<>>]

Init ==
    /\ plan \in Plans
    /\ everySec \in BOOLEAN
    /\ up = TRUE
    /\ main = "run" /\ thread = "done" /\ unsent = <<>>
    /\ dbs = NoLists
    /\ cur = [c \in Clients \cup {Loader} |-> 0]
    /\ loading = <<>>
    /\ loader = "gone"
    /\ cache = NoLists
    /\ io = IoIdle
    /\ cmdQue = <<>>
    /\ timer = TimerIdle
    /\ due = 1
    /\ rewrites = <<>>
    /\ file = <<>>
    /\ sent = [push |-> 0, select |-> 0, rewrite |-> 0]
    /\ crashes = 0
    /\ dropped = FALSE

(***************************************************************************)
(* Io thread.                                                              *)
(***************************************************************************)
AppendAOF(d, req) == cache' = [cache EXCEPT ![d] = Append(@, req)]

Log(conn, req) ==
    /\ up /\ main = "run" /\ io.pc = "idle"
    /\ AppendAOF(cur[conn], req)
    /\ io' = [pc |-> "push", conn |-> conn, req |-> req]
    /\ UNCHANGED <<boot, up, dbs, cur, loader, cmdQue, timer, due, rewrites, file,
                   crashes, dropped>>

\* A client's request.  The loader connected first and its log was in the
\* socket before the first Wait, so the io thread takes it before any other.
ClientRequest(c) ==
    /\ loading = <<>>
    /\ \/ /\ sent.push < MaxPushes
          /\ Log(c, Request("PUSH", sent.push + 1))
          /\ sent' = [sent EXCEPT !.push = @ + 1]
       \/ /\ sent.select < plan.selects
          /\ \E d \in Dbs : Log(c, Select(d))
          /\ sent' = [sent EXCEPT !.select = @ + 1]
       \/ /\ sent.rewrite < plan.rewrites
          /\ Log(c, Request("REWRITE", 0))
          /\ sent' = [sent EXCEPT !.rewrite = @ + 1]
    /\ UNCHANGED loading

LoaderRequest ==
    /\ loading # <<>>
    /\ Log(Loader, Head(loading))
    /\ loading' = Tail(loading)
    /\ UNCHANGED sent

\* Mutation: with aof_mode no, the request starts no timer.
IoPushNoTimer ==
    /\ io.pc = "push"
    /\ cmdQue' = Append(cmdQue, [conn |-> io.conn, req |-> io.req])
    /\ io' = IoIdle
    /\ UNCHANGED <<boot, up, dbs, cur, loading, loader, cache, timer, due, rewrites,
                   file, sent, crashes, dropped>>

\* With aof_mode no every request starts a timer of its own; then the
\* command is queued.
IoPush ==
    /\ io.pc = "push"
    /\ due' = IF everySec THEN due ELSE due + 1
    /\ cmdQue' = Append(cmdQue, [conn |-> io.conn, req |-> io.req])
    /\ io' = IoIdle
    /\ UNCHANGED <<boot, up, dbs, cur, loading, loader, cache, timer, rewrites, file,
                   sent, crashes, dropped>>

\* The loader's end is closed already: once a reply has been sent to it the
\* io thread polls it for reading, reads nothing and logs it out.
LoaderLogout ==
    /\ up /\ io.pc = "idle" /\ loading = <<>>
    /\ loader = "replied"
    /\ loader' = "gone"
    /\ UNCHANGED <<boot, up, dbs, cur, loading, cache, io, cmdQue, timer, due,
                   rewrites, file, sent, crashes, dropped>>

(***************************************************************************)
(* Command thread.                                                         *)
(***************************************************************************)
\* The effect of a request of connection c on [dbs, cur].
Effect(s, c, req) ==
    CASE req.op = "PUSH"   -> [s EXCEPT !.dbs[s.cur[c]] = Append(@, req.arg)]
      [] req.op = "SELECT" -> [s EXCEPT !.cur[c] = req.arg]
      [] OTHER             -> s

\* Mutation: the objects of all databases follow a single SELECT.
ForkAllTogether ==
    <<Select(0)>> \o
    FlattenSeq([i \in 1..MaxDb + 1 |->
        [j \in DOMAIN dbs[i - 1] |-> Request("PUSH", dbs[i - 1][j])]])

\* MainLoop::DatabaseForkAll: per database a SELECT and its objects.
ForkAll ==
    FlattenSeq([i \in 1..MaxDb + 1 |->
        <<Select(i - 1)>> \o [j \in DOMAIN dbs[i - 1] |->
                                Request("PUSH", dbs[i - 1][j])]])

\* Handler::ExecCommand.  A command whose connection is gone is dropped.
ExecCommand ==
    /\ cmdQue # <<>>
    /\ LET cmd == Head(cmdQue)
           after == Effect([dbs |-> dbs, cur |-> cur], cmd.conn, cmd.req)
       IN IF cmd.conn = Loader /\ loader = "gone"
          THEN /\ dropped' = TRUE
               /\ UNCHANGED <<dbs, cur, loader, rewrites>>
          ELSE /\ dbs' = after.dbs
               /\ cur' = after.cur
               /\ rewrites' = IF cmd.req.op = "REWRITE"
                              THEN Append(rewrites, ForkAll) ELSE rewrites
               /\ loader' = IF cmd.conn = Loader THEN "replied" ELSE loader
               /\ UNCHANGED dropped
    /\ cmdQue' = Tail(cmdQue)
    /\ UNCHANGED <<boot, up, loading, cache, io, timer, due, file, sent, crashes>>

(***************************************************************************)
(* Timer thread.                                                           *)
(***************************************************************************)
\* AofTimer::Exec starts with DatabaseAppend.  A DbRewriteTimer has deadline
\* 0 and is popped before a periodic AofTimer.
AofBegin ==
    /\ timer.pc = "pop" /\ due > 0
    /\ everySec => rewrites = <<>>
    /\ due' = due - 1
    /\ timer' = [TimerIdle EXCEPT !.pc = "export"]
    /\ UNCHANGED <<boot, up, dbs, cur, loading, loader, cache, io, cmdQue, rewrites,
                   file, sent, crashes, dropped>>

\* Db::ExportAOF: take the cache of one database, with a SELECT ahead.
ExportAOF ==
    /\ timer.pc = "export" /\ timer.at \in Dbs
    /\ LET lines == cache[timer.at]
           piece == IF lines = <<>> THEN <<>> ELSE <<Select(timer.at)>> \o lines
       IN timer' = [timer EXCEPT !.at = @ + 1, !.pieces = Append(@, piece)]
    /\ cache' = [cache EXCEPT ![timer.at] = <<>>]
    /\ UNCHANGED <<boot, up, dbs, cur, loading, loader, io, cmdQue, due, rewrites,
                   file, sent, crashes, dropped>>

PushesOf(reqs) == {reqs[i].arg : i \in {j \in DOMAIN reqs : reqs[j].op = "PUSH"}}

\* Mutation: a write replaces what the file held.
AOFSaveOver ==
    /\ timer.pc = "export" /\ timer.at \notin Dbs /\ timer.pieces # <<>>
    /\ file' = IF Head(timer.pieces) = <<>> THEN file ELSE Head(timer.pieces)
    /\ timer' = [timer EXCEPT !.pieces = Tail(@)]
    /\ UNCHANGED <<boot, up, dbs, cur, loading, loader, cache, io, cmdQue, due,
                   rewrites, sent, crashes, dropped>>

\* AOFSave: append the next piece to the file.
AOFSave ==
    /\ timer.pc = "export" /\ timer.at \notin Dbs /\ timer.pieces # <<>>
    /\ file' = file \o Head(timer.pieces)
    /\ timer' = [timer EXCEPT !.pieces = Tail(@)]
    /\ UNCHANGED <<boot, up, dbs, cur, loading, loader, cache, io, cmdQue, due,
                   rewrites, sent, crashes, dropped>>

\* AofTimer::Exec queues itself again unless aof_mode is no.
AofDone ==
    /\ timer.pc = "export" /\ timer.at \notin Dbs /\ timer.pieces = <<>>
    /\ due' = IF everySec THEN due + 1 ELSE due
    /\ timer' = TimerIdle
    /\ UNCHANGED <<boot, up, dbs, cur, loading, loader, cache, io, cmdQue, rewrites,
                   file, sent, crashes, dropped>>

\* DbRewriteTimer::Exec, Truncate.
RewriteTruncate ==
    /\ timer.pc = "pop" /\ rewrites # <<>>
    /\ file' = <<>>
    /\ timer' = [TimerIdle EXCEPT !.pc = "rewrite", !.pieces = <<Head(rewrites)>>]
    /\ rewrites' = Tail(rewrites)
    /\ UNCHANGED <<boot, up, dbs, cur, loading, loader, cache, io, cmdQue, due, sent,
                   crashes, dropped>>

\* DbRewriteTimer::Exec, Write.
RewriteWrite ==
    /\ timer.pc = "rewrite"
    /\ file' = file \o Head(timer.pieces)
    /\ timer' = TimerIdle
    /\ UNCHANGED <<boot, up, dbs, cur, loading, loader, cache, io, cmdQue, due,
                   rewrites, sent, crashes, dropped>>

(***************************************************************************)
(* Kill and restart.                                                       *)
(***************************************************************************)
Crash ==
    /\ up /\ crashes < plan.crashes
    /\ up' = FALSE
    /\ crashes' = crashes + 1
    /\ dbs' = NoLists
    /\ cur' = [c \in DOMAIN cur |-> 0]
    /\ loading' = <<>> /\ loader' = "gone"
    /\ cache' = NoLists
    /\ io' = IoIdle /\ cmdQue' = <<>>
    /\ timer' = TimerIdle /\ due' = 0 /\ rewrites' = <<>>
    /\ unsent' = <<>>
    /\ UNCHANGED <<plan, everySec, main, thread, file, sent, dropped>>

\* MainLoop::MainLoop reads and truncates the file and starts the loader.
Start ==
    /\ ~up
    /\ up' = TRUE
    /\ main' = "notice" /\ thread' = "write"
    /\ unsent' = file
    /\ file' = <<>>
    /\ loader' = "alive"
    /\ UNCHANGED <<plan, everySec, dbs, cur, loading, cache, io, cmdQue, timer, due,
                   rewrites, sent, crashes, dropped>>

running == <<plan, everySec, up, dbs, cur, cache, io, cmdQue, timer, rewrites, file, sent,
             crashes, dropped>>

\* AOFLoad: write blocks while the buffers are full.
LoaderWrite ==
    /\ up /\ thread = "write"
    /\ IF unsent = <<>>
       THEN thread' = "sync" /\ UNCHANGED <<loading, unsent>>
       ELSE /\ Len(loading) < SockCap
            /\ loading' = Append(loading, Head(unsent))
            /\ unsent' = Tail(unsent)
            /\ UNCHANGED thread
    /\ UNCHANGED <<running, main, loader, due>>

\* AOFSyncWait returns once the main thread has given notice; AOFLoad closes
\* the connection and ends.
LoaderClose ==
    /\ up /\ thread = "sync" /\ main # "notice"
    /\ thread' = "done"
    /\ UNCHANGED <<running, main, unsent, loading, loader, due>>

\* Mutation: the notice is given to a loader that has ended.
AOFSyncNoticeLate ==
    /\ up /\ main = "notice" /\ thread = "done"
    /\ main' = "join"
    /\ UNCHANGED <<running, thread, unsent, loading, loader, due>>

\* CheckAOFLoad, AOFSyncNotice.
AOFSyncNotice ==
    /\ up /\ main = "notice"
    /\ main' = "join"
    /\ UNCHANGED <<running, thread, unsent, loading, loader, due>>

\* CheckAOFLoad: join the loader and queue the AofTimer; then Run.
CheckAOFLoad ==
    /\ up /\ main = "join" /\ thread = "done"
    /\ main' = "run"
    /\ due' = 1
    /\ UNCHANGED <<running, thread, unsent, loading, loader>>

Boot == LoaderWrite \/ LoaderClose \/ AOFSyncNotice \/ CheckAOFLoad
IoThread == LoaderRequest \/ IoPush \/ LoaderLogout
TimerThread ==
    AofBegin \/ ExportAOF \/ AOFSave \/ AofDone \/ RewriteTruncate \/ RewriteWrite

Next ==
    \/ \E c \in Clients : ClientRequest(c)
    \/ IoThread \/ ExecCommand \/ TimerThread
    \/ Crash \/ Start \/ Boot

Spec == Init /\ [][Next]_vars

\* The threads run whenever they can; nobody has to send, kill or restart.
FairSpec ==
    Spec /\ WF_vars(Boot) /\ WF_vars(IoThread) /\ WF_vars(ExecCommand) /\ WF_vars(TimerThread)

(***************************************************************************)
(* Properties.                                                             *)
(***************************************************************************)
\* What a server that starts with nothing makes of a log.
Replay(reqs) ==
    FoldLeft(LAMBDA s, req : Effect(s, Loader, req),
             [dbs |-> NoLists, cur |-> [c \in DOMAIN cur |-> 0]], reqs)

\* What the databases will be when the command thread has caught up.
Drained ==
    LET waiting == IF io.pc = "push"
                   THEN Append(cmdQue, [conn |-> io.conn, req |-> io.req])
                   ELSE cmdQue
    IN FoldLeft(LAMBDA s, cmd : Effect(s, cmd.conn, cmd.req),
                [dbs |-> dbs, cur |-> cur], waiting)

\* As long as nobody sends SELECT or REWRITE the log runs exactly ahead of execution:
\* at every moment file, pieces being written and cache, replayed, give what
\* the database will be once the queued commands are executed.  (A start
\* of a log whose requests were dropped is left out: AOFLoad hangs up early.)
WriteAhead ==
    up /\ ~dropped /\ sent.select = 0 /\ sent.rewrite = 0 =>
        Replay(file \o FlattenSeq(timer.pieces) \o cache[0]).dbs = Drained.dbs

Pushed(i) == \E d \in Dbs : Contains(dbs[d], i)
InFile(i) == i \in PushesOf(file)

\* An executed request reaches the file, in either mode, unless the process is
\* killed or a REWRITE is asked for.
EventuallyLogged ==
    \A i \in 1..MaxPushes :
        Pushed(i) ~> (InFile(i) \/ ~up \/ sent.rewrite > 0)

\* A start gets as far as Run if its log fits into the buffers of the
\* loader's connection, whatever the main thread and the loader do first.
\* (Nobody reads the connection before Run: a larger log stops the start.)
StartsUp ==
    up /\ main # "run" /\ Len(loading) + Len(unsent) <= SockCap ~> main = "run" \/ ~up

\* What REWRITE writes stands for the databases: replayed, it puts every
\* object into the database it came from and into no other.
ForkRebuilds == up => Replay(ForkAll).dbs = dbs

\* Nothing is under way: what the file holds is all there is to restart from.
Quiet ==
    /\ up /\ loading = <<>> /\ io.pc = "idle" /\ cmdQue = <<>>
    /\ cache = NoLists /\ timer.pc = "pop" /\ rewrites = <<>>

\* "RDB/AOF Persistence": when nothing is under way a replay of the file
\* gives the databases as they are; "AOF file rewrite": also after REWRITE.
ReplayRebuilds == Quiet /\ ~dropped => Replay(file).dbs = dbs
=============================================================================
