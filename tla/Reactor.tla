------------------------------ MODULE Reactor -------------------------------
(***************************************************************************)
(* The path of a request through the server's threads and back.            *)
(*                                                                         *)
(* The main thread collects edge-triggered epoll events (Server::Wait) and *)
(* queues them in cli_que_; the io threads (Handler::ioClient) read        *)
(* requests into cmd_que_ or send replies, one io thread at a time, since  *)
(* cli_mtx_ is held while the queue is worked off; the command thread      *)
(* (Handler::ExecCommand) executes requests and asks epoll for EPOLLOUT.   *)
(* A ClientInfo lives as long as client_map_ or a thread refers to it, and *)
(* its destructor closes the descriptor.                                   *)
(*                                                                         *)
(* A request is some segments long, a reply ReplyLen units.  How many      *)
(* connections there are and how they behave is a load, drawn at the start *)
(* from a given set.                                                       *)
(***************************************************************************)
EXTENDS Naturals, Sequences, FiniteSets, Subsequences

CONSTANTS
    Conns,      \* connections clients make, each at most once
    Loads,      \* what clients do, see Load
    IoThreads,  \* min(cpu, 3) io threads
    MaxFd,      \* bound: descriptors are 1..MaxFd
    ReplyLen,   \* units of a reply
    TxCap,      \* units a socket's send queue takes
    Listen,     \* listen_fd_ as an epoll item
    None

\* conns: the connections made; impatient: those whose client may hang up
\* before it has all its replies; requests: bound on those of a connection;
\* window: requests sent ahead of their replies; fragments: TCP segments of a
\* request.
Load == [conns : SUBSET Conns, impatient : SUBSET Conns, requests : Nat,
         window : Nat \ {0}, fragments : Nat \ {0}]

ASSUME ReactorAssumption ==
    /\ {MaxFd, ReplyLen, TxCap} \subseteq Nat \ {0}
    /\ Loads \subseteq Load
    /\ None \notin Conns \cup IoThreads \cup Nat \cup {"IN", "OUT"}
    /\ Listen \notin Conns \cup Nat \cup {None}

VARIABLES
    load,       \* the load of this behaviour
    client,     \* client programs: requests sent, segments of the next, units got, closed
    backlog,    \* connections not yet accepted
    sock,       \* kernel sockets: unread segments, send queue, full and reset flags,
                \* epoll interest
    ready,      \* epoll's ready list
    file,       \* kernel descriptor table: descriptor -> connection
    clientMap,  \* client_map_: descriptor -> ClientInfo
    info,       \* ClientInfo: fd_, segments in recv_buffer_, requests exported, send_buffer_
    main,       \* main thread: pc, events collected, clients returned by Wait
    cliMtx,     \* the io thread that holds cli_mtx_, or None
    cliQue,     \* cli_que_
    io,         \* io threads: pc, client, requests next..last to push
    eagain,     \* io threads: errno is EAGAIN
    cmdQue,     \* cmd_que_
    exec,       \* command thread: pc, client, request
    executed    \* requests executed, per connection

vars == <<load, client, backlog, sock, ready, file, clientMap, info, main, cliMtx,
          cliQue, io, eagain, cmdQue, exec, executed>>

Fds == 1..MaxFd
IoIdle == [pc |-> "idle", conn |-> None, next |-> 1, last |-> 0]
ExecIdle == [pc |-> "idle", conn |-> None, req |-> None]
MainIdle == [pc |-> "wait", evts |-> <<>>, ret |-> <<>>, next |-> 1]

Init ==
    /\ load \in Loads
    /\ client = [c \in Conns |-> [sent |-> 0, part |-> 0, got |-> 0, closed |-> FALSE]]
    /\ backlog = <<>>
    /\ sock = [c \in Conns |-> [rx |-> 0, tx |-> <<>>, full |-> FALSE, reset |-> FALSE,
                               interest |-> None]]
    /\ ready = <<>>
    /\ file = [f \in Fds |-> None]
    /\ clientMap = [f \in Fds |-> None]
    /\ info = [c \in Conns |-> [fd |-> None, recv |-> 0, parsed |-> 0, send |-> <<>>]]
    /\ main = MainIdle
    /\ cliMtx = None
    /\ cliQue = <<>>
    /\ io = [t \in IoThreads |-> IoIdle]
    /\ eagain = [t \in IoThreads |-> FALSE]
    /\ cmdQue = <<>>
    /\ exec = ExecIdle
    /\ executed = [c \in Conns |-> 0]

(***************************************************************************)
(* Sockets and epoll.                                                      *)
(***************************************************************************)
Readable(s, closed) == s.rx > 0 \/ closed
Writable(s) == Len(s.tx) < TxCap

\* What makes epoll report a socket; EPOLLHUP of a reset one is always
\* reported.
Fires(s, closed) == \/ s.interest = "IN" /\ Readable(s, closed)
                    \/ s.interest = "OUT" /\ Writable(s)
                    \/ s.interest # None /\ s.reset

\* A connection or an epoll item is in a sequence of them.
In(x, s) == \E i \in DOMAIN s : s[i] = x

Enqueue(item) == IF In(item, ready) THEN ready ELSE Append(ready, item)

\* epoll_ctl(EPOLL_CTL_MOD): change the interest and report what is pending.
\* It acts on the file the descriptor names now.
Modify(f, interest) ==
    LET c == file[f]
        s == [sock[c] EXCEPT !.interest = interest]
    IN  IF c = None \/ sock[c].interest = None
          THEN UNCHANGED <<sock, ready>>
          ELSE /\ sock' = [sock EXCEPT ![c] = s]
               /\ ready' = IF Fires(s, client[c].closed) THEN Enqueue(c) ELSE ready

(***************************************************************************)
(* ClientInfo's reference counts.  Commands and queued events hold weak    *)
(* references only.                                                        *)
(***************************************************************************)
Alive(c) == \/ \E f \in Fds : clientMap[f] = c
            \/ \E i \in DOMAIN main.ret : main.ret[i].conn = c
            \/ \E t \in IoThreads : io[t].conn = c
            \/ exec.conn = c

\* The connection whose socket a client's descriptor names, None when the
\* descriptor is closed.
Named(c) == file[info[c].fd]

\* ~ClientInfo of every client this step drops the last reference to: the
\* descriptor it holds is closed, which takes its socket off epoll.
Release ==
    LET dead == {c \in Conns : Alive(c) /\ ~Alive(c)'}
        shut == {info[c].fd : c \in dead}
    IN  file' = [f \in Fds |-> IF f \in shut THEN None ELSE file[f]]

(***************************************************************************)
(* Clients.                                                                *)
(***************************************************************************)
Connect(c) ==
    /\ c \in load.conns
    /\ info[c].fd = None
    /\ ~In(c, backlog)
    /\ backlog' = Append(backlog, c)
    /\ ready' = Enqueue(Listen)
    /\ UNCHANGED <<load, client, sock, file, clientMap, info, main, cliMtx, cliQue,
                   io, eagain, cmdQue, exec, executed>>

\* One segment of the next request arrives, the last one completes it.
SendSegment(c) ==
    /\ info[c].fd # None \/ In(c, backlog)
    /\ ~client[c].closed
    /\ client[c].sent < load.requests
    /\ client[c].part > 0 \/ client[c].sent < client[c].got \div ReplyLen + load.window
    /\ client' = [client EXCEPT
                    ![c].part = (@ + 1) % load.fragments,
                    ![c].sent = IF client[c].part + 1 = load.fragments THEN @ + 1 ELSE @]
    /\ sock' = [sock EXCEPT ![c].rx = @ + 1]
    /\ ready' = IF sock[c].interest = "IN" THEN Enqueue(c) ELSE ready
    /\ UNCHANGED <<load, backlog, file, clientMap, info, main, cliMtx, cliQue, io,
                   eagain, cmdQue, exec, executed>>

\* A unit of a reply reaches the client program; a send queue that was full
\* becomes writable.
Receive(c) ==
    /\ sock[c].tx # <<>>
    /\ client' = [client EXCEPT ![c].got = @ + 1]
    /\ sock' = [sock EXCEPT ![c].tx = Tail(@), ![c].full = FALSE]
    /\ ready' = IF sock[c].full /\ sock[c].interest = "OUT" THEN Enqueue(c) ELSE ready
    /\ UNCHANGED <<load, backlog, file, clientMap, info, main, cliMtx, cliQue, io,
                   eagain, cmdQue, exec, executed>>

\* The client hangs up, having read all that has arrived; a patient one
\* waits for the replies to all its requests.
Close(c) ==
    /\ info[c].fd # None
    /\ ~client[c].closed
    /\ sock[c].tx = <<>>
    /\ \/ c \in load.impatient
       \/ client[c].part = 0 /\ client[c].got = client[c].sent * ReplyLen
    /\ client' = [client EXCEPT ![c].closed = TRUE]
    /\ ready' = IF sock[c].interest = "IN" THEN Enqueue(c) ELSE ready
    /\ UNCHANGED <<load, backlog, sock, file, clientMap, info, main, cliMtx, cliQue,
                   io, eagain, cmdQue, exec, executed>>

(***************************************************************************)
(* Main thread: Server::Wait and MainLoop::Run.                            *)
(***************************************************************************)
FdOf(item) == IF item = Listen THEN Listen ELSE info[item].fd

\* What epoll has to report of an item; a closed socket is off epoll.
Reports(x) == IF x = Listen THEN backlog # <<>>
              ELSE Fires(sock[x], client[x].closed) /\ Named(x) = x

\* epoll_wait: every item on the ready list that still has something to
\* report.  The listening socket is level-triggered and stays listed while
\* connections wait.
EpollWait ==
    LET pending == Pick(ready, {i \in DOMAIN ready : Reports(ready[i])})
        Event(x) == [fd |-> FdOf(x), evt |-> IF x = Listen THEN "IN" ELSE sock[x].interest]
    IN  /\ main.pc = "wait"
        /\ pending # <<>>
        /\ main' = [MainIdle EXCEPT !.pc = "lookup",
                       !.evts = [i \in DOMAIN pending |-> Event(pending[i])]]
        /\ ready' = IF In(Listen, pending) THEN <<Listen>> ELSE <<>>
        /\ UNCHANGED <<load, client, backlog, sock, file, clientMap, info, cliMtx,
                       cliQue, io, eagain, cmdQue, exec, executed>>

\* The first event is the listening socket's: accept one connection on the
\* lowest free descriptor, register it for EPOLLIN, enter it in client_map_.
Accept ==
    /\ main.pc = "lookup"
    /\ main.evts # <<>> /\ Head(main.evts).fd = Listen
    /\ backlog # <<>>
    /\ LET c == Head(backlog)
           free == {f \in Fds : file[f] = None}
       IN  \E f \in free :
             /\ \A g \in free : f <= g
             /\ file' = [file EXCEPT ![f] = c]
             /\ clientMap' = [clientMap EXCEPT ![f] = IF @ = None THEN c ELSE @]
             /\ info' = [info EXCEPT ![c].fd = f]
             /\ sock' = [sock EXCEPT ![c].interest = "IN"]
             /\ ready' = IF Readable(sock[c], client[c].closed) THEN Enqueue(c) ELSE ready
    /\ backlog' = Tail(backlog)
    /\ main' = [main EXCEPT !.evts = Tail(@)]
    /\ UNCHANGED <<load, client, cliMtx, cliQue, io, eagain, cmdQue, exec, executed>>

\* The first event is a client's: Wait returns the client client_map_ has
\* under the descriptor; a descriptor it does not have is taken off epoll
\* and closed.
LookupClient ==
    /\ main.pc = "lookup"
    /\ main.evts # <<>> /\ Head(main.evts).fd # Listen
    /\ LET e == Head(main.evts)
           c == clientMap[e.fd]
       IN  \/ /\ c # None
              /\ main' = [main EXCEPT !.evts = Tail(@),
                                      !.ret = Append(@, [conn |-> c, evt |-> e.evt])]
              /\ UNCHANGED <<sock, file>>
           \/ /\ c = None
              /\ main' = [main EXCEPT !.evts = Tail(@)]
              /\ sock' = IF file[e.fd] = None THEN sock
                         ELSE [sock EXCEPT ![file[e.fd]].interest = None]
              /\ file' = [file EXCEPT ![e.fd] = None]
    /\ UNCHANGED <<load, client, backlog, ready, clientMap, info, cliMtx, cliQue, io,
                   eagain, cmdQue, exec, executed>>

WaitReturns ==
    /\ main.pc = "lookup"
    /\ main.evts = <<>>
    /\ main' = [main EXCEPT !.pc = "handle"]
    /\ UNCHANGED <<load, client, backlog, sock, ready, file, clientMap, info, cliMtx,
                   cliQue, io, eagain, cmdQue, exec, executed>>

\* Handler::Handle: needs cli_mtx_, which an io thread holds while it works.
Handle ==
    /\ main.pc = "handle"
    /\ main.next <= Len(main.ret)
    /\ cliMtx = None
    /\ cliQue' = Append(cliQue, main.ret[main.next])
    /\ main' = [main EXCEPT !.next = @ + 1]
    /\ UNCHANGED <<load, client, backlog, sock, ready, file, clientMap, info, cliMtx,
                   io, eagain, cmdQue, exec, executed>>

\* The vector of clients goes out of scope, and with it their references.
RunReturns ==
    /\ main.pc = "handle"
    /\ main.next > Len(main.ret)
    /\ main' = MainIdle
    /\ UNCHANGED <<load, client, backlog, sock, ready, clientMap, info, cliMtx, cliQue,
                   io, eagain, cmdQue, exec, executed>>
    /\ Release

(***************************************************************************)
(* Io threads: Handler::ioClient.                                          *)
(***************************************************************************)
IoTo(t, pc) == [io EXCEPT ![t].pc = pc]

\* The io thread is done with its client and goes back to cli_que_.
IoDone(t) == [io EXCEPT ![t] = [IoIdle EXCEPT !.pc = "loop"]]

\* Mutation: cli_mtx_ does not keep a second io thread out.
IoTakeUnlocked(t) ==
    /\ io[t].pc \in {"idle", "loop"}
    /\ cliQue # <<>>
    /\ cliMtx' = t
    /\ cliQue' = Tail(cliQue)
    /\ LET e == Head(cliQue)
       IN  io' = IF Alive(e.conn)
                   THEN [io EXCEPT ![t] = [IoIdle EXCEPT !.pc = e.evt, !.conn = e.conn]]
                   ELSE IoDone(t)
    /\ UNCHANGED <<load, client, backlog, sock, ready, file, clientMap, info, main,
                   eagain, cmdQue, exec, executed>>

\* Take cli_mtx_, or go on holding it, and the first event of cli_que_; an
\* event whose client is gone is skipped.
IoTake(t) ==
    /\ \/ io[t].pc = "idle" /\ cliMtx = None
       \/ io[t].pc = "loop"
    /\ cliQue # <<>>
    /\ cliMtx' = t
    /\ cliQue' = Tail(cliQue)
    /\ LET e == Head(cliQue)
       IN  io' = IF Alive(e.conn)
                   THEN [io EXCEPT ![t] = [IoIdle EXCEPT !.pc = e.evt, !.conn = e.conn]]
                   ELSE IoDone(t)
    /\ UNCHANGED <<load, client, backlog, sock, ready, file, clientMap, info, main,
                   eagain, cmdQue, exec, executed>>

\* cli_que_ is empty: wait on condv_, which gives cli_mtx_ up.
IoWait(t) ==
    /\ io[t].pc = "loop"
    /\ cliQue = <<>>
    /\ cliMtx' = None
    /\ io' = [io EXCEPT ![t] = IoIdle]
    /\ UNCHANGED <<load, client, backlog, sock, ready, file, clientMap, info, main,
                   cliQue, eagain, cmdQue, exec, executed>>

\* ClientInfo::Read takes all that has arrived, ExportMessages the complete
\* requests among it; the rest stays in recv_buffer_.
IoRead(t) ==
    LET c == io[t].conn
        s == Named(c)
        total == info[c].recv + sock[s].rx
    IN  /\ io[t].pc = "IN"
        /\ s # None
        /\ sock[s].rx > 0
        /\ sock' = [sock EXCEPT ![s].rx = 0]
        /\ info' = [info EXCEPT ![c].recv = total % load.fragments,
                                ![c].parsed = @ + total \div load.fragments]
        /\ io' = [io EXCEPT ![t].pc = "push", ![t].next = info[c].parsed + 1,
                            ![t].last = info[c].parsed + total \div load.fragments]
        /\ UNCHANGED <<load, client, backlog, ready, file, clientMap, main, cliMtx,
                       cliQue, eagain, cmdQue, exec, executed>>

\* recv has nothing to return and fails with EAGAIN.
IoReadNothing(t) ==
    LET s == Named(io[t].conn)
    IN  /\ io[t].pc = "IN"
        /\ s # None
        /\ sock[s].rx = 0 /\ ~client[s].closed
        /\ eagain' = [eagain EXCEPT ![t] = TRUE]
        /\ io' = IoDone(t)
        /\ UNCHANGED <<load, client, backlog, sock, ready, clientMap, info, main,
                       cliMtx, cliQue, cmdQue, exec, executed>>
        /\ Release

\* recv on a closed descriptor fails with EBADF; recv_buffer_ holds no
\* complete request to export.
IoReadBad(t) ==
    /\ io[t].pc = "IN"
    /\ Named(io[t].conn) = None
    /\ eagain' = [eagain EXCEPT ![t] = FALSE]
    /\ io' = IoDone(t)
    /\ UNCHANGED <<load, client, backlog, sock, ready, clientMap, info, main, cliMtx,
                   cliQue, cmdQue, exec, executed>>
    /\ Release

\* Mutation: the client is taken off epoll but kept in client_map_.
RemoveCliKeeps(f) ==
    /\ sock' = IF file[f] = None THEN sock
               ELSE [sock EXCEPT ![file[f]].interest = None]
    /\ UNCHANGED clientMap

\* Server::RemoveCli.
RemoveCli(f) ==
    /\ sock' = IF file[f] = None THEN sock
               ELSE [sock EXCEPT ![file[f]].interest = None]
    /\ clientMap' = [clientMap EXCEPT ![f] = None]

\* Mutation: RemoveCli closes the descriptor that others still refer to.
IoLogoutCloses(t) ==
    LET f == info[io[t].conn].fd
        s == file[f]
    IN  /\ io[t].pc = "IN"
        /\ s # None
        /\ sock[s].rx = 0 /\ client[s].closed
        /\ RemoveCli(f)
        /\ file' = [file EXCEPT ![f] = None]
        /\ io' = IoDone(t)
        /\ UNCHANGED <<load, client, backlog, ready, info, main, cliMtx, cliQue,
                       eagain, cmdQue, exec, executed>>

\* The client has hung up: ClientInfo::Logout.
IoLogout(t) ==
    LET f == info[io[t].conn].fd
        s == file[f]
    IN  /\ io[t].pc = "IN"
        /\ s # None
        /\ sock[s].rx = 0 /\ client[s].closed
        /\ RemoveCli(f)
        /\ io' = IoDone(t)
        /\ UNCHANGED <<load, client, backlog, ready, info, main, cliMtx, cliQue,
                       eagain, cmdQue, exec, executed>>
        /\ Release

\* RequestToCommandExec and CommandQue::Push, request by request.
IoPush(t) ==
    /\ io[t].pc = "push"
    /\ io[t].next <= io[t].last
    /\ cmdQue' = Append(cmdQue, [conn |-> io[t].conn, req |-> io[t].next])
    /\ io' = [io EXCEPT ![t].next = @ + 1]
    /\ UNCHANGED <<load, client, backlog, sock, ready, file, clientMap, info, main,
                   cliMtx, cliQue, eagain, exec, executed>>

IoPushed(t) ==
    /\ io[t].pc = "push"
    /\ io[t].next > io[t].last
    /\ io' = IoDone(t)
    /\ UNCHANGED <<load, client, backlog, sock, ready, clientMap, info, main, cliMtx,
                   cliQue, eagain, cmdQue, exec, executed>>
    /\ Release

\* Mutation: send_buffer_ is emptied although the socket took a part of it.
IoSendForgets(t) ==
    LET c == io[t].conn
        s == Named(c)
        room == TxCap - Len(sock[s].tx)
        n == IF Len(info[c].send) < room THEN Len(info[c].send) ELSE room
    IN  /\ io[t].pc = "OUT"
        /\ s # None
        /\ ~client[s].closed /\ info[c].send # <<>>
        /\ info' = [info EXCEPT ![c].send = <<>>]
        /\ sock' = [sock EXCEPT ![s].tx = @ \o SubSeq(info[c].send, 1, n)]
        /\ io' = IoTo(t, "sent")
        /\ UNCHANGED <<load, client, backlog, ready, file, clientMap, main, cliMtx,
                       cliQue, eagain, cmdQue, exec, executed>>

\* ClientInfo::Send: an empty send_buffer_ is not sent.
IoSendNothing(t) ==
    /\ io[t].pc = "OUT"
    /\ info[io[t].conn].send = <<>>
    /\ io' = IoTo(t, "sent")
    /\ UNCHANGED <<load, client, backlog, sock, ready, file, clientMap, info, main,
                   cliMtx, cliQue, eagain, cmdQue, exec, executed>>

\* ClientInfo::Send: as much of send_buffer_ as the socket takes; a full
\* socket fails with EAGAIN.
IoSend(t) ==
    LET c == io[t].conn
        s == Named(c)
        room == TxCap - Len(sock[s].tx)
        n == IF Len(info[c].send) < room THEN Len(info[c].send) ELSE room
    IN  /\ io[t].pc = "OUT"
        /\ s # None
        /\ ~client[s].closed /\ info[c].send # <<>>
        /\ info' = [info EXCEPT ![c].send = SubSeq(@, n + 1, Len(@))]
        /\ sock' = [sock EXCEPT ![s].tx = @ \o SubSeq(info[c].send, 1, n),
                                ![s].full = n < Len(info[c].send)]
        /\ eagain' = IF room = 0 THEN [eagain EXCEPT ![t] = TRUE] ELSE eagain
        /\ io' = IoTo(t, "sent")
        /\ UNCHANGED <<load, client, backlog, ready, file, clientMap, main, cliMtx,
                       cliQue, cmdQue, exec, executed>>

\* The first Send after the client hung up succeeds, and is answered by a
\* reset.
IoSendClosed(t) ==
    LET c == io[t].conn
        s == Named(c)
    IN  /\ io[t].pc = "OUT"
        /\ s # None
        /\ client[s].closed /\ ~sock[s].reset /\ info[c].send # <<>>
        /\ info' = [info EXCEPT ![c].send = <<>>]
        /\ sock' = [sock EXCEPT ![s].reset = TRUE]
        /\ ready' = IF sock[s].interest # None THEN Enqueue(s) ELSE ready
        /\ io' = IoTo(t, "sent")
        /\ UNCHANGED <<load, client, backlog, file, clientMap, main, cliMtx, cliQue,
                       eagain, cmdQue, exec, executed>>

\* A later Send fails with EPIPE: ClientInfo::Logout.
IoSendReset(t) ==
    LET c == io[t].conn
        f == info[c].fd
        s == file[f]
    IN  /\ io[t].pc = "OUT"
        /\ s # None
        /\ sock[s].reset /\ info[c].send # <<>>
        /\ RemoveCli(f)
        /\ eagain' = [eagain EXCEPT ![t] = FALSE]
        /\ io' = IoTo(t, "sent")
        /\ UNCHANGED <<load, client, backlog, ready, file, info, main, cliMtx, cliQue,
                       cmdQue, exec, executed>>

\* A Send on a closed descriptor fails with EBADF, and nobody is logged out.
IoSendBad(t) ==
    /\ io[t].pc = "OUT"
    /\ Named(io[t].conn) = None
    /\ info[io[t].conn].send # <<>>
    /\ eagain' = [eagain EXCEPT ![t] = FALSE]
    /\ io' = IoTo(t, "sent")
    /\ UNCHANGED <<load, client, backlog, sock, ready, file, clientMap, info, main,
                   cliMtx, cliQue, cmdQue, exec, executed>>

\* Mutation: IsSendOut() is not asked.
IoSentUnchecked(t) ==
    /\ io[t].pc = "sent"
    /\ io' = IF ~eagain[t] THEN IoTo(t, "enable") ELSE IoDone(t)
    /\ UNCHANGED <<load, client, backlog, sock, ready, clientMap, info, main, cliMtx,
                   cliQue, eagain, cmdQue, exec, executed>>
    /\ Release

\* IsSendOut() && errno != EAGAIN decides whether to listen for requests.
IoSent(t) ==
    /\ io[t].pc = "sent"
    /\ io' = IF info[io[t].conn].send = <<>> /\ ~eagain[t]
               THEN IoTo(t, "enable") ELSE IoDone(t)
    /\ UNCHANGED <<load, client, backlog, sock, ready, clientMap, info, main, cliMtx,
                   cliQue, eagain, cmdQue, exec, executed>>
    /\ Release

\* ClientInfo::EnableRead, Server::EnableRead.
IoEnableRead(t) ==
    /\ io[t].pc = "enable"
    /\ Modify(info[io[t].conn].fd, "IN")
    /\ io' = IoDone(t)
    /\ UNCHANGED <<load, client, backlog, clientMap, info, main, cliMtx, cliQue,
                   eagain, cmdQue, exec, executed>>
    /\ Release

(***************************************************************************)
(* Command thread: Handler::ExecCommand.                                   *)
(***************************************************************************)
\* CommandQue::BlockPop and Exec.  A command whose client is gone returns
\* nothing.
ExecPop ==
    /\ exec.pc = "idle"
    /\ cmdQue # <<>>
    /\ cmdQue' = Tail(cmdQue)
    /\ LET r == Head(cmdQue)
       IN  IF Alive(r.conn)
             THEN /\ exec' = [pc |-> "append", conn |-> r.conn, req |-> r.req]
                  /\ executed' = [executed EXCEPT ![r.conn] = @ + 1]
             ELSE UNCHANGED <<exec, executed>>
    /\ UNCHANGED <<load, client, backlog, sock, ready, file, clientMap, info, main,
                   cliMtx, cliQue, io, eagain>>

\* ClientInfo::Append of the reply.
ExecAppend ==
    LET c == exec.conn
        reply == [i \in 1..ReplyLen |-> [conn |-> c, req |-> exec.req]]
    IN  /\ exec.pc = "append"
        /\ info' = [info EXCEPT ![c].send = @ \o reply]
        /\ exec' = [exec EXCEPT !.pc = "enable"]
        /\ UNCHANGED <<load, client, backlog, sock, ready, file, clientMap, main,
                       cliMtx, cliQue, io, eagain, cmdQue, executed>>

\* ClientInfo::EnableSend, Server::EnableSend; the reference goes.
ExecEnableSend ==
    /\ exec.pc = "enable"
    /\ Modify(info[exec.conn].fd, "OUT")
    /\ exec' = ExecIdle
    /\ UNCHANGED <<load, client, backlog, clientMap, info, main, cliMtx, cliQue, io,
                   eagain, cmdQue, executed>>
    /\ Release

ClientSteps == \E c \in Conns : Connect(c) \/ SendSegment(c) \/ Close(c)
Network == \E c \in Conns : Receive(c)
MainThread == \/ EpollWait \/ Accept \/ LookupClient \/ WaitReturns
              \/ Handle \/ RunReturns
IoThread == \E t \in IoThreads :
              \/ IoTake(t) \/ IoWait(t) \/ IoRead(t) \/ IoReadNothing(t)
              \/ IoReadBad(t) \/ IoLogout(t) \/ IoPush(t) \/ IoPushed(t)
              \/ IoSendNothing(t) \/ IoSend(t) \/ IoSendClosed(t) \/ IoSendReset(t)
              \/ IoSendBad(t) \/ IoSent(t) \/ IoEnableRead(t)
ExecThread == ExecPop \/ ExecAppend \/ ExecEnableSend

Next == ClientSteps \/ Network \/ MainThread \/ IoThread \/ ExecThread

Spec == Init /\ [][Next]_vars

\* Every thread that can run is scheduled, and replies travel; no client is
\* obliged to send anything or to hang up.
FairSpec ==
    /\ Spec
    /\ WF_vars(Network)
    /\ WF_vars(MainThread)
    /\ WF_vars(IoThread)
    /\ WF_vars(ExecThread)

(***************************************************************************)
(* Properties.                                                             *)
(***************************************************************************)
\* Whatever io threads carried them, the commands of a client reach the
\* command thread in the order the client sent them, each once.
CommandsInOrder ==
    \A i \in DOMAIN cmdQue :
      LET c == cmdQue[i].conn
      IN  Alive(c) => cmdQue[i].req =
            executed[c] + Cardinality({j \in 1..i : cmdQue[j].conn = c})

\* No descriptor is given to a new connection while a ClientInfo holds it.
\* The code does not see to it by itself: Server::Wait may close the
\* descriptor of a client that was logged out while the command thread still
\* refers to it.
NotHandedOn == \A c \in Conns : Alive(c) => Named(c) \in {c, None}

\* The bytes on their way to a client are the replies to its own requests,
\* complete, in order and without repetition, starting where it stopped
\* reading: Append and Send share send_buffer_ without harm.  (This takes
\* descriptors that are not handed on.)
RepliesInOrder ==
    \A c \in {d \in Conns : ~client[d].closed} :
      LET wire == sock[c].tx \o info[c].send
          unreplied == IF exec.conn = c /\ exec.pc = "append" THEN 1 ELSE 0
      IN  /\ \A i \in DOMAIN wire : wire[i] =
                [conn |-> c, req |-> (client[c].got + i - 1) \div ReplyLen + 1]
          /\ client[c].got + Len(wire) = ReplyLen * (executed[c] - unreplied)

\* Clients wait for each reply, and for all of them before they hang up.
Waits == load.window = 1 /\ load.impatient = {}

\* A descriptor a ClientInfo still holds names the connection it was
\* accepted for: nobody has closed it, and nobody has been given it since, as
\* long as clients wait for their replies.  (Of a client that pipelines, or
\* hangs up in the middle of a request, Server::Wait may close the descriptor
\* first.)
DescriptorOwned == Waits => \A c \in Conns : Alive(c) => Named(c) = c

\* Every request is answered if its client waits for each reply and sends a
\* request in one segment.  (A second segment read with the first leaves an
\* event behind whose Read sets errno to EAGAIN, which no later call resets.)
Answered ==
    \A c \in Conns :
      client[c].got < client[c].sent * ReplyLen /\ Waits /\ load.fragments = 1
          ~> client[c].got = client[c].sent * ReplyLen

\* A client that hangs up with all its replies is logged out and its
\* descriptor given back.
HangUpReleased ==
    \A c \in Conns :
      client[c].closed /\ Waits /\ load.fragments = 1
          ~> ~Alive(c) /\ \A f \in Fds : file[f] # c
=============================================================================
