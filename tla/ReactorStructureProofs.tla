----------------------- MODULE ReactorStructureProofs -----------------------
(***************************************************************************)
(* The types of the variables of Reactor, and what holds between them at   *)
(* all times, for any number of connections, io threads and descriptors.   *)
(* Then what holds of clients that wait for a reply before they send       *)
(* again: the account of their bytes, where their events are, and their    *)
(* registration, which together keep their descriptors theirs.             *)
(***************************************************************************)
EXTENDS Reactor, SubsequencesProofs

Interest == {"IN", "OUT"}
MaybeInterest == Interest \cup {None}
MaybeConn == Conns \cup {None}
MaybeFd == Fds \cup {None}
Item == Conns \cup {Listen}
EventFd == Fds \cup {Listen}
Positive == Nat \ {0}
MaybeReq == Nat \cup {None}
MainPc == {"wait", "lookup", "handle"}
IoPc == {"idle", "loop", "IN", "push", "OUT", "sent", "enable"}
ExecPc == {"idle", "append", "enable"}

Unit == [conn : Conns, req : Nat]
Program == [sent : Nat, part : Nat, got : Nat, closed : BOOLEAN]
Socket == [rx : Nat, tx : Seq(Unit), full : BOOLEAN, reset : BOOLEAN,
           interest : MaybeInterest]
ClientInfo == [fd : MaybeFd, recv : Nat, parsed : Nat, send : Seq(Unit)]
Event == [fd : EventFd, evt : Interest]
Returned == [conn : Conns, evt : Interest]
Main == [pc : MainPc, evts : Seq(Event), ret : Seq(Returned), next : Positive]
Worker == [pc : IoPc, conn : MaybeConn, next : Nat, last : Nat]
Executor == [pc : ExecPc, conn : MaybeConn, req : MaybeReq]

TypeOK ==
    /\ load \in Load
    /\ client \in [Conns -> Program]
    /\ backlog \in Seq(Conns)
    /\ sock \in [Conns -> Socket]
    /\ ready \in Seq(Item)
    /\ file \in [Fds -> MaybeConn]
    /\ clientMap \in [Fds -> MaybeConn]
    /\ info \in [Conns -> ClientInfo]
    /\ main \in Main
    /\ cliMtx \in IoThreads \cup {None}
    /\ cliQue \in Seq(Returned)
    /\ io \in [IoThreads -> Worker]
    /\ eagain \in [IoThreads -> BOOLEAN]
    /\ cmdQue \in Seq(Unit)
    /\ exec \in Executor
    /\ executed \in [Conns -> Nat]

\* A thread has a client when it works for one; the io thread that is not
\* idle is the one that holds cli_mtx_.
Locals ==
    /\ \A t \in IoThreads : /\ io[t].pc \in {"idle", "loop"} <=> io[t].conn = None
                            /\ io[t].pc # "idle" <=> cliMtx = t
    /\ exec.pc = "idle" <=> exec.conn = None
    /\ exec.pc # "idle" => exec.req \in Nat

\* No socket takes more than its send queue has room for.
Room == \A c \in Conns : Len(sock[c].tx) <= TxCap

\* Connections that wait to be accepted have no descriptor yet, and each
\* waits once.
Waiting ==
    /\ \A i \in DOMAIN backlog : info[backlog[i]].fd = None
    /\ \A i, j \in DOMAIN backlog : backlog[i] = backlog[j] => i = j

\* Whoever is on epoll, in a table or a queue, or has a thread work for it,
\* has been accepted; a descriptor was given to the connection it names and
\* to the client that client_map_ has under it.
Accepted ==
    /\ \A c \in Conns : sock[c].interest # None => info[c].fd # None
    /\ \A f \in Fds : file[f] # None => info[file[f]].fd = f
    /\ \A f \in Fds : clientMap[f] # None => info[clientMap[f]].fd = f
    /\ \A i \in DOMAIN main.ret : info[main.ret[i].conn].fd # None
    /\ \A i \in DOMAIN cliQue : info[cliQue[i].conn].fd # None
    /\ \A t \in IoThreads : io[t].conn # None => info[io[t].conn].fd # None
    /\ \A i \in DOMAIN cmdQue : info[cmdQue[i].conn].fd # None
    /\ exec.conn # None => info[exec.conn].fd # None

\* Nothing has been done for a connection before it is accepted.
Untouched ==
    \A c \in Conns : info[c].fd = None =>
      /\ info[c].parsed = 0 /\ executed[c] = 0

Structure == TypeOK /\ Locals /\ Room /\ Waiting /\ Accepted /\ Untouched

(***************************************************************************)
(* Queues.                                                                 *)
(***************************************************************************)
\* What an element of a queue is after one is appended.
LEMMA AppendIndex ==
    ASSUME NEW S, NEW s \in Seq(S), NEW e \in S, NEW r, r = Append(s, e), NEW i \in DOMAIN r
    PROVE  \/ i \in DOMAIN s /\ r[i] = s[i]
           \/ i = Len(s) + 1 /\ r[i] = e
<1>1. DOMAIN r = 1..Len(s) + 1 /\ DOMAIN s = 1..Len(s) /\ Len(s) \in Nat
  OBVIOUS
<1>2. CASE i = Len(s) + 1
  BY <1>2
<1>3. CASE i \in 1..Len(s)
  <2>1. r[i] = s[i]
    BY <1>3
  <2> QED BY <1>1, <1>3, <2>1
<1> QED BY <1>1, <1>2, <1>3

\* What an element of a queue was before the first was taken.
LEMMA TailIndex ==
    ASSUME NEW S, NEW s \in Seq(S), s # <<>>, NEW r, r = Tail(s), NEW i \in DOMAIN r
    PROVE  i + 1 \in DOMAIN s /\ r[i] = s[i + 1] /\ i \in Nat /\ i + 1 # 1
OBVIOUS

\* Taking the first element of a queue.
LEMMA HeadTail ==
    ASSUME NEW S, NEW s \in Seq(S), s # <<>>
    PROVE  /\ Head(s) \in S /\ Head(s) = s[1] /\ Tail(s) \in Seq(S)
           /\ Len(s) \in Nat \ {0} /\ Len(Tail(s)) = Len(s) - 1
OBVIOUS

\* One queue after another.
LEMMA ConcatLen ==
    ASSUME NEW S, NEW s \in Seq(S), NEW q \in Seq(S)
    PROVE  Len(s \o q) = Len(s) + Len(q)
OBVIOUS

(***************************************************************************)
(* Types.                                                                  *)
(***************************************************************************)
\* The initial state has the types.
LEMMA InitTypes == Init => TypeOK
BY ReactorAssumption DEF Init, TypeOK, Program, Socket, ClientInfo, Main, MainIdle, Worker,
   IoIdle, Executor, ExecIdle, MaybeInterest, MaybeConn, MaybeFd, Positive, MaybeReq,
   MainPc, IoPc, ExecPc

\* The ready list stays one of epoll items.
LEMMA EnqueueType ==
    ASSUME ready \in Seq(Item), NEW item \in Item
    PROVE  Enqueue(item) \in Seq(Item)
BY DEF Enqueue

\* Records in which fields are replaced.
LEMMA ProgramSegment ==
    ASSUME NEW r \in Program, NEW m \in Nat, NEW n \in Nat
    PROVE  [r EXCEPT !.part = m, !.sent = n] \in Program
BY Zenon DEF Program

\* A client program that has sent a segment.
LEMMA ProgramPart ==
    ASSUME NEW r \in Program, NEW m \in Nat
    PROVE  [r EXCEPT !.part = m] \in Program
BY DEF Program

\* A client program that has got a unit.
LEMMA ProgramGot ==
    ASSUME NEW r \in Program, NEW m \in Nat
    PROVE  [r EXCEPT !.got = m] \in Program
BY DEF Program

\* A client program that has hung up.
LEMMA ProgramClosed ==
    ASSUME NEW r \in Program, NEW b \in BOOLEAN
    PROVE  [r EXCEPT !.closed = b] \in Program
BY DEF Program

\* A socket whose receive queue changes.
LEMMA SocketRx ==
    ASSUME NEW r \in Socket, NEW m \in Nat
    PROVE  [r EXCEPT !.rx = m] \in Socket
BY DEF Socket

\* A socket that is reset.
LEMMA SocketReset ==
    ASSUME NEW r \in Socket, NEW b \in BOOLEAN
    PROVE  [r EXCEPT !.reset = b] \in Socket
BY DEF Socket

\* A socket whose epoll interest changes.
LEMMA SocketInterest ==
    ASSUME NEW r \in Socket, NEW i \in MaybeInterest
    PROVE  [r EXCEPT !.interest = i] \in Socket
BY DEF Socket

\* A socket whose send queue changes.
LEMMA SocketTx ==
    ASSUME NEW r \in Socket, NEW q \in Seq(Unit), NEW b \in BOOLEAN
    PROVE  [r EXCEPT !.tx = q, !.full = b] \in Socket
BY Zenon DEF Socket

\* A ClientInfo that gets its descriptor.
LEMMA ClientInfoFd ==
    ASSUME NEW r \in ClientInfo, NEW f \in MaybeFd
    PROVE  [r EXCEPT !.fd = f] \in ClientInfo
BY DEF ClientInfo

\* A ClientInfo that has read.
LEMMA ClientInfoRecv ==
    ASSUME NEW r \in ClientInfo, NEW m \in Nat, NEW n \in Nat
    PROVE  [r EXCEPT !.recv = m, !.parsed = n] \in ClientInfo
BY Zenon DEF ClientInfo

\* A ClientInfo whose send_buffer_ changes.
LEMMA ClientInfoSend ==
    ASSUME NEW r \in ClientInfo, NEW q \in Seq(Unit)
    PROVE  [r EXCEPT !.send = q] \in ClientInfo
BY DEF ClientInfo

\* The main thread with other events to look at.
LEMMA MainEvts ==
    ASSUME NEW r \in Main, NEW q \in Seq(Event)
    PROVE  [r EXCEPT !.evts = q] \in Main
BY DEF Main

\* The main thread with one more client to return.
LEMMA MainRet ==
    ASSUME NEW r \in Main, NEW q \in Seq(Event), NEW p \in Seq(Returned)
    PROVE  [r EXCEPT !.evts = q, !.ret = p] \in Main
BY Zenon DEF Main

\* The main thread at another step.
LEMMA MainAt ==
    ASSUME NEW r \in Main, NEW p \in MainPc
    PROVE  [r EXCEPT !.pc = p] \in Main
BY DEF Main

\* The main thread at the next client to queue.
LEMMA MainNext ==
    ASSUME NEW r \in Main, NEW n \in Positive
    PROVE  [r EXCEPT !.next = n] \in Main
BY DEF Main

\* The main thread with a new batch of events.
LEMMA MainLookup ==
    ASSUME NEW r \in Main, NEW p \in MainPc, NEW q \in Seq(Event)
    PROVE  [r EXCEPT !.pc = p, !.evts = q] \in Main
BY Zenon DEF Main

\* An io thread at another step.
LEMMA WorkerAt ==
    ASSUME NEW r \in Worker, NEW p \in IoPc
    PROVE  [r EXCEPT !.pc = p] \in Worker
BY DEF Worker

\* An io thread that takes an event.
LEMMA WorkerTake ==
    ASSUME NEW r \in Worker, NEW p \in IoPc, NEW c \in MaybeConn
    PROVE  [r EXCEPT !.pc = p, !.conn = c] \in Worker
BY Zenon DEF Worker

\* An io thread that has requests to push.
LEMMA WorkerPush ==
    ASSUME NEW r \in Worker, NEW p \in IoPc, NEW m \in Nat, NEW n \in Nat
    PROVE  [r EXCEPT !.pc = p, !.next = m, !.last = n] \in Worker
BY Zenon DEF Worker

\* An io thread at the next request to push.
LEMMA WorkerNext ==
    ASSUME NEW r \in Worker, NEW m \in Nat
    PROVE  [r EXCEPT !.next = m] \in Worker
BY DEF Worker

\* The command thread at another step.
LEMMA ExecutorAt ==
    ASSUME NEW r \in Executor, NEW p \in ExecPc
    PROVE  [r EXCEPT !.pc = p] \in Executor
BY DEF Executor

\* A table in which one entry is replaced is a table of the same kind.
LEMMA Update ==
    ASSUME NEW S, NEW R, NEW g \in [S -> R], NEW x \in S, NEW r \in R
    PROVE  [g EXCEPT ![x] = r] \in [S -> R]
OBVIOUS

\* Closing descriptors keeps a descriptor table.
LEMMA ReleaseType ==
    ASSUME TypeOK, Release
    PROVE  file' \in [Fds -> MaybeConn]
BY DEF TypeOK, Release, MaybeConn

\* EPOLL_CTL_MOD keeps the sockets and the ready list well-formed.
LEMMA ModifyType ==
    ASSUME TypeOK, NEW f \in Fds, NEW i \in Interest, Modify(f, i)
    PROVE  sock' \in [Conns -> Socket] /\ ready' \in Seq(Item)
<1>1. CASE file[f] = None \/ sock[file[f]].interest = None
  BY <1>1 DEF TypeOK, Modify
<1>2. CASE ~ (file[f] = None \/ sock[file[f]].interest = None)
  <2>1. file[f] \in Conns /\ file[f] \in Item
    BY <1>2 DEF TypeOK, MaybeConn, Item
  <2>2. [sock[file[f]] EXCEPT !.interest = i] \in Socket
    <3>1. sock[file[f]] \in Socket /\ i \in MaybeInterest
      BY <2>1 DEF TypeOK, MaybeInterest
    <3> QED BY <3>1, SocketInterest
  <2>3. sock' = [sock EXCEPT ![file[f]] = [sock[file[f]] EXCEPT !.interest = i]]
    BY <1>2 DEF Modify
  <2>4. sock' \in [Conns -> Socket]
    BY <2>1, <2>2, <2>3, Update DEF TypeOK
  <2> QED BY <1>2, <2>1, <2>4, EnqueueType DEF TypeOK, Modify
<1> QED BY <1>1, <1>2

\* Taking a socket off epoll keeps the sockets well-formed.
LEMMA OffEpollType ==
    ASSUME TypeOK, NEW f \in Fds,
           sock' = IF file[f] = None THEN sock
                   ELSE [sock EXCEPT ![file[f]].interest = None]
    PROVE  sock' \in [Conns -> Socket]
<1>1. CASE file[f] = None
  BY <1>1 DEF TypeOK
<1>2. CASE file[f] # None
  <2>1. file[f] \in Conns
    BY <1>2 DEF TypeOK, MaybeConn
  <2>2. [sock[file[f]] EXCEPT !.interest = None] \in Socket
    <3>1. sock[file[f]] \in Socket /\ None \in MaybeInterest
      BY <2>1 DEF TypeOK, MaybeInterest
    <3> QED BY <3>1, SocketInterest
  <2>3. sock' = [sock EXCEPT ![file[f]] = [sock[file[f]] EXCEPT !.interest = None]]
    BY <1>2
  <2> QED BY <2>1, <2>2, <2>3, Update DEF TypeOK
<1> QED BY <1>1, <1>2

\* So does RemoveCli, and it keeps client_map_.
LEMMA RemoveCliType ==
    ASSUME TypeOK, NEW f \in Fds, RemoveCli(f)
    PROVE  sock' \in [Conns -> Socket] /\ clientMap' \in [Fds -> MaybeConn]
<1>1. sock' \in [Conns -> Socket]
  BY OffEpollType DEF RemoveCli
<1> QED BY <1>1 DEF TypeOK, RemoveCli, MaybeConn

\* An io thread that is done with its client.
LEMMA IoDoneType ==
    ASSUME TypeOK, NEW t \in IoThreads
    PROVE  IoDone(t) \in [IoThreads -> Worker]
<1>1. [IoIdle EXCEPT !.pc = "loop"] \in Worker
  BY DEF IoIdle, Worker, IoPc, MaybeConn
<1> QED BY <1>1, Update DEF TypeOK, IoDone

\* An io thread that goes on.
LEMMA IoToType ==
    ASSUME TypeOK, NEW t \in IoThreads, NEW pc \in {"push", "sent", "enable"}
    PROVE  IoTo(t, pc) \in [IoThreads -> Worker]
<1>1. io[t] \in Worker /\ pc \in IoPc
  BY DEF TypeOK, IoPc
<1>2. [io[t] EXCEPT !.pc = pc] \in Worker
  BY <1>1, WorkerAt
<1>3. IoTo(t, pc) = [io EXCEPT ![t] = [io[t] EXCEPT !.pc = pc]]
  BY DEF IoTo
<1> QED BY <1>2, <1>3, Update DEF TypeOK

\* A client a thread works for was accepted: its descriptor is one.
LEMMA Held ==
    ASSUME TypeOK, Accepted
    PROVE  /\ \A t \in IoThreads : io[t].conn # None =>
                io[t].conn \in Conns /\ info[io[t].conn].fd \in Fds
           /\ exec.conn # None => exec.conn \in Conns /\ info[exec.conn].fd \in Fds
BY DEF TypeOK, Accepted, ClientInfo, Worker, Executor, MaybeConn, MaybeFd

\* The steps of clients and of the network keep the types.
LEMMA ClientTypes ==
    ASSUME TypeOK, NEW c \in Conns,
           Connect(c) \/ SendSegment(c) \/ Receive(c) \/ Close(c)
    PROVE  TypeOK'
<1>1. c \in Item /\ Listen \in Item
  BY DEF Item
<1>2. client[c] \in Program /\ sock[c] \in Socket
  BY DEF TypeOK
<1>3. ready \in Seq(Item) /\ Enqueue(c) \in Seq(Item) /\ Enqueue(Listen) \in Seq(Item)
  BY <1>1, EnqueueType DEF TypeOK
<1>4. CASE Connect(c)
  BY <1>3, <1>4 DEF TypeOK, Connect
<1>5. CASE SendSegment(c)
  <2>1. client' \in [Conns -> Program]
    <3> DEFINE part == (client[c].part + 1) % load.fragments
               sent == IF client[c].part + 1 = load.fragments
                         THEN client[c].sent + 1 ELSE client[c].sent
    <3>1. part \in Nat /\ sent \in Nat
      <4>1. /\ client[c].part \in Nat /\ client[c].sent \in Nat
            /\ load.fragments \in Nat \ {0}
        BY <1>2 DEF Program, TypeOK, Load
      <4> QED BY <4>1
    <3>2. client' = [client EXCEPT ![c] = [client[c] EXCEPT !.part = part, !.sent = sent]]
      BY <1>5, Zenon DEF SendSegment
    <3> HIDE DEF part, sent
    <3>3. [client[c] EXCEPT !.part = part, !.sent = sent] \in Program
      BY <1>2, <3>1, ProgramSegment, Zenon
    <3> QED BY <3>2, <3>3, Update DEF TypeOK
  <2>2. sock' \in [Conns -> Socket]
    <3>1. sock[c].rx + 1 \in Nat
      BY <1>2 DEF Socket
    <3>2. [sock[c] EXCEPT !.rx = @ + 1] \in Socket
      BY <1>2, <3>1, SocketRx, Zenon
    <3>3. sock' = [sock EXCEPT ![c] = [sock[c] EXCEPT !.rx = @ + 1]]
      BY <1>5 DEF SendSegment
    <3> QED BY <3>2, <3>3, Update DEF TypeOK
  <2> QED BY <1>3, <1>5, <2>1, <2>2 DEF TypeOK, SendSegment
<1>6. CASE Receive(c)
  <2>1. client' \in [Conns -> Program]
    <3>1. client[c].got + 1 \in Nat
      BY <1>2 DEF Program
    <3>2. [client[c] EXCEPT !.got = @ + 1] \in Program
      BY <1>2, <3>1, ProgramGot, Zenon
    <3>3. client' = [client EXCEPT ![c] = [client[c] EXCEPT !.got = @ + 1]]
      BY <1>6 DEF Receive
    <3> QED BY <3>2, <3>3, Update DEF TypeOK
  <2>2. sock' \in [Conns -> Socket]
    <3>1. sock[c].tx \in Seq(Unit) /\ sock[c].tx # <<>>
      BY <1>2, <1>6 DEF Socket, Receive
    <3>2. Tail(sock[c].tx) \in Seq(Unit) /\ FALSE \in BOOLEAN
      BY <3>1
    <3>3. [sock[c] EXCEPT !.tx = Tail(@), !.full = FALSE] \in Socket
      BY <1>2, <3>2, SocketTx, Zenon
    <3>4. sock' = [sock EXCEPT ![c] = [sock[c] EXCEPT !.tx = Tail(@), !.full = FALSE]]
      BY <1>6, Zenon DEF Receive
    <3> QED BY <3>3, <3>4, Update DEF TypeOK
  <2> QED BY <1>3, <1>6, <2>1, <2>2 DEF TypeOK, Receive
<1>7. CASE Close(c)
  <2>1. client' \in [Conns -> Program]
    <3>1. [client[c] EXCEPT !.closed = TRUE] \in Program
      BY <1>2, ProgramClosed, Zenon
    <3>2. client' = [client EXCEPT ![c] = [client[c] EXCEPT !.closed = TRUE]]
      BY <1>7 DEF Close
    <3> QED BY <3>1, <3>2, Update DEF TypeOK
  <2> QED BY <1>3, <1>7, <2>1 DEF TypeOK, Close
<1> QED BY <1>4, <1>5, <1>6, <1>7

\* The main thread's steps keep the types.
LEMMA MainTypes ==
    ASSUME TypeOK, Accepted, MainThread
    PROVE  TypeOK'
<1>1. CASE EpollWait
  <2> DEFINE I == {i \in DOMAIN ready : Reports(ready[i])}
             pending == Pick(ready, I)
             ev(x) == [fd |-> FdOf(x), evt |-> IF x = Listen THEN "IN" ELSE sock[x].interest]
  <2>1. /\ pending \in Seq(Item)
        /\ \A j \in 1..Len(pending) : \E i \in I \cap 1..Len(ready) : pending[j] = ready[i]
    <3>1. ready \in Seq(Item)
      BY DEF TypeOK
    <3> HIDE DEF I
    <3> QED BY <3>1, PickElements
  <2>2. ASSUME NEW j \in DOMAIN pending PROVE ev(pending[j]) \in Event
    <3>1. PICK i \in I \cap 1..Len(ready) : pending[j] = ready[i]
      <4> HIDE DEF pending, I
      <4> QED BY <2>1, <2>2
    <3>2. ready[i] \in Item /\ Reports(ready[i])
      BY <3>1 DEF TypeOK
    <3> DEFINE x == pending[j]
    <3>3. Reports(x) /\ x \in Item
      BY <3>1, <3>2
    <3> HIDE DEF x
    <3>4. CASE x = Listen
      <4>1. Listen \in EventFd /\ "IN" \in Interest
        BY DEF EventFd, Interest
      <4> QED BY <3>4, <4>1 DEF x, FdOf, Event
    <3>5. CASE x # Listen
      <4>1. x \in Conns /\ sock[x].interest # None
        BY <3>3, <3>5, ReactorAssumption DEF Reports, Fires, Item
      <4>2. sock[x] \in Socket /\ info[x] \in ClientInfo
        BY <4>1 DEF TypeOK
      <4>3. sock[x].interest \in Interest /\ info[x].fd \in EventFd
        BY <4>1, <4>2 DEF Accepted, Socket, ClientInfo, MaybeInterest, MaybeFd, EventFd
      <4> QED BY <3>5, <4>3 DEF x, FdOf, Event
    <3> QED BY <3>4, <3>5
  <2> DEFINE evts == [i \in DOMAIN pending |-> ev(pending[i])]
  <2>3. evts \in Seq(Event)
    <3> HIDE DEF ev, pending
    <3> QED BY <2>1, <2>2
  <2>4. main' = [MainIdle EXCEPT !.pc = "lookup", !.evts = evts]
    BY <1>1 DEF EpollWait
  <2>5. main' \in Main
    <3> HIDE DEF evts
    <3>1. MainIdle \in Main /\ "lookup" \in MainPc
      BY DEF Main, MainIdle, MainPc, Positive
    <3>2. [MainIdle EXCEPT !.pc = "lookup", !.evts = evts] \in Main
      BY <2>3, <3>1, MainLookup, Zenon
    <3> QED BY <2>4, <3>2
  <2>6. ready' \in Seq(Item)
    <3>1. <<Listen>> \in Seq(Item) /\ <<>> \in Seq(Item)
      BY DEF Item
    <3>2. ready' = <<Listen>> \/ ready' = <<>>
      BY <1>1, Zenon DEF EpollWait
    <3> QED BY <3>1, <3>2, Zenon
  <2> QED BY <1>1, <2>5, <2>6 DEF TypeOK, EpollWait
<1>2. CASE Accept
  <2> DEFINE c == Head(backlog)
  <2>1. c \in Conns /\ c \in Item /\ Tail(backlog) \in Seq(Conns)
    BY <1>2 DEF TypeOK, Accept, Item
  <2>2. PICK f \in Fds :
          /\ file' = [file EXCEPT ![f] = c]
          /\ clientMap' = [clientMap EXCEPT ![f] = IF @ = None THEN c ELSE @]
          /\ info' = [info EXCEPT ![c].fd = f]
          /\ sock' = [sock EXCEPT ![c].interest = "IN"]
          /\ ready' = IF Readable(sock[c], client[c].closed) THEN Enqueue(c) ELSE ready
    BY <1>2, Zenon DEF Accept
  <2> HIDE DEF c
  <2>3. info' \in [Conns -> ClientInfo]
    <3>1. info[c] \in ClientInfo /\ f \in MaybeFd
      BY <2>1 DEF TypeOK, MaybeFd
    <3>2. [info[c] EXCEPT !.fd = f] \in ClientInfo
      BY <3>1, ClientInfoFd
    <3>3. info' = [info EXCEPT ![c] = [info[c] EXCEPT !.fd = f]]
      BY <2>2
    <3> QED BY <2>1, <3>2, <3>3, Update DEF TypeOK
  <2>4. sock' \in [Conns -> Socket]
    <3>1. sock[c] \in Socket /\ "IN" \in MaybeInterest
      BY <2>1 DEF TypeOK, MaybeInterest, Interest
    <3>2. [sock[c] EXCEPT !.interest = "IN"] \in Socket
      BY <3>1, SocketInterest
    <3>3. sock' = [sock EXCEPT ![c] = [sock[c] EXCEPT !.interest = "IN"]]
      BY <2>2
    <3> QED BY <2>1, <3>2, <3>3, Update DEF TypeOK
  <2>5. main' \in Main
    <3>1. main \in Main /\ main.evts \in Seq(Event) /\ main.evts # <<>>
      BY <1>2 DEF TypeOK, Accept, Main
    <3>2. Tail(main.evts) \in Seq(Event)
      BY <3>1
    <3>3. [main EXCEPT !.evts = Tail(@)] \in Main
      BY <3>1, <3>2, MainEvts, Zenon
    <3> QED BY <1>2, <3>3 DEF Accept
  <2>6. file' \in [Fds -> MaybeConn] /\ clientMap' \in [Fds -> MaybeConn]
    BY <2>1, <2>2 DEF TypeOK, MaybeConn
  <2>7. ready' \in Seq(Item)
    BY <2>1, <2>2, EnqueueType DEF TypeOK
  <2>8. backlog' \in Seq(Conns)
    BY <1>2, <2>1 DEF Accept
  <2> QED BY <1>2, <2>3, <2>4, <2>5, <2>6, <2>7, <2>8 DEF TypeOK, Accept
<1>3. CASE LookupClient
  <2> DEFINE e == Head(main.evts)
             c == clientMap[e.fd]
  <2>1. /\ main \in Main /\ main.ret \in Seq(Returned)
        /\ e \in Event /\ e.fd \in Fds /\ e.evt \in Interest
        /\ Tail(main.evts) \in Seq(Event)
    <3>1. /\ main \in Main /\ main.evts \in Seq(Event) /\ main.ret \in Seq(Returned)
          /\ main.evts # <<>> /\ e.fd # Listen
      BY <1>3 DEF TypeOK, LookupClient, Main
    <3>2. e \in Event /\ Tail(main.evts) \in Seq(Event)
      BY <3>1
    <3> QED BY <3>1, <3>2 DEF Event, EventFd
  <2>2. c \in MaybeConn
    BY <2>1 DEF TypeOK
  <2>3. CASE c # None
    <3>1. [conn |-> c, evt |-> e.evt] \in Returned
      BY <2>1, <2>2, <2>3 DEF Returned, MaybeConn
    <3>2. Append(main.ret, [conn |-> c, evt |-> e.evt]) \in Seq(Returned)
      BY <2>1, <3>1
    <3>3. main' = [main EXCEPT !.evts = Tail(@), !.ret = Append(@, [conn |-> c, evt |-> e.evt])]
      BY <1>3, <2>3 DEF LookupClient
    <3>4. main' \in Main
      BY <2>1, <3>2, <3>3, MainRet, Zenon
    <3> QED BY <1>3, <2>3, <3>4 DEF TypeOK, LookupClient
  <2>4. CASE c = None
    <3>1. main' = [main EXCEPT !.evts = Tail(@)]
      BY <1>3, <2>4 DEF LookupClient
    <3>2. main' \in Main
      BY <2>1, <3>1, MainEvts, Zenon
    <3>3. sock' = IF file[e.fd] = None THEN sock
                  ELSE [sock EXCEPT ![file[e.fd]].interest = None]
      BY <1>3, <2>4 DEF LookupClient
    <3>4. sock' \in [Conns -> Socket]
      BY <2>1, <3>3, OffEpollType, Zenon
    <3>5. file' \in [Fds -> MaybeConn]
      BY <1>3, <2>1, <2>4, Zenon DEF TypeOK, LookupClient, MaybeConn
    <3> QED BY <1>3, <3>2, <3>4, <3>5 DEF TypeOK, LookupClient
  <2> QED BY <2>3, <2>4
<1>4. CASE WaitReturns
  <2>1. main' \in Main
    BY <1>4, MainAt, Zenon DEF TypeOK, WaitReturns, MainPc
  <2> QED BY <1>4, <2>1 DEF TypeOK, WaitReturns
<1>5. CASE Handle
  <2>1. /\ main \in Main /\ main.ret \in Seq(Returned)
        /\ main.next \in 1..Len(main.ret) /\ main.next + 1 \in Positive
    BY <1>5 DEF TypeOK, Handle, Main, Positive
  <2>2. cliQue' \in Seq(Returned)
    BY <1>5, <2>1 DEF TypeOK, Handle
  <2>3. [main EXCEPT !.next = @ + 1] \in Main
    BY <2>1, MainNext, Zenon
  <2> QED BY <1>5, <2>2, <2>3 DEF TypeOK, Handle
<1>6. CASE RunReturns
  <2>1. MainIdle \in Main
    BY DEF Main, MainIdle, MainPc, Positive
  <2> QED BY <1>6, <2>1, ReleaseType DEF TypeOK, RunReturns
<1> QED BY <1>1, <1>2, <1>3, <1>4, <1>5, <1>6 DEF MainThread

\* What an io thread that works for a client sees.
LEMMA Works ==
    ASSUME TypeOK, Locals, Accepted, NEW t \in IoThreads, io[t].pc \notin {"idle", "loop"}
    PROVE  /\ io[t].conn \in Conns /\ info[io[t].conn].fd \in Fds
           /\ io[t] \in Worker /\ info[io[t].conn] \in ClientInfo
           /\ Named(io[t].conn) \in MaybeConn
           /\ Named(io[t].conn) # None => /\ Named(io[t].conn) \in Conns
                                          /\ sock[Named(io[t].conn)] \in Socket
<1>1. io[t].conn \in Conns /\ info[io[t].conn].fd \in Fds
  BY Held DEF Locals
<1>2. Named(io[t].conn) \in MaybeConn
  BY <1>1 DEF TypeOK, Named
<1> QED BY <1>1, <1>2 DEF TypeOK, MaybeConn

\* The io threads' steps keep the types.
LEMMA IoTypes ==
    ASSUME TypeOK, Locals, Room, Accepted, NEW t \in IoThreads,
           \/ IoTake(t) \/ IoWait(t) \/ IoRead(t) \/ IoReadNothing(t) \/ IoReadBad(t)
           \/ IoLogout(t) \/ IoPush(t) \/ IoPushed(t) \/ IoSendNothing(t) \/ IoSend(t)
           \/ IoSendClosed(t) \/ IoSendReset(t) \/ IoSendBad(t) \/ IoSent(t)
           \/ IoEnableRead(t)
    PROVE  TypeOK'
<1> DEFINE c == io[t].conn
           s == Named(c)
<1>1. CASE IoTake(t)
  <2> DEFINE e == Head(cliQue)
  <2>1. e \in Returned /\ Tail(cliQue) \in Seq(Returned)
    BY <1>1 DEF TypeOK, IoTake
  <2>2. [IoIdle EXCEPT !.pc = e.evt, !.conn = e.conn] \in Worker
    <3>1. IoIdle \in Worker
      BY DEF IoIdle, Worker, IoPc, MaybeConn
    <3>2. e.evt \in IoPc /\ e.conn \in MaybeConn
      BY <2>1 DEF Returned, Interest, IoPc, MaybeConn
    <3> QED BY <3>1, <3>2, WorkerTake, Zenon
  <2>3. [io EXCEPT ![t] = [IoIdle EXCEPT !.pc = e.evt, !.conn = e.conn]] \in [IoThreads -> Worker]
    BY <2>2, Update DEF TypeOK
  <2>4. io' \in [IoThreads -> Worker]
    BY <1>1, <2>3, IoDoneType DEF IoTake
  <2> QED BY <1>1, <2>1, <2>4 DEF TypeOK, IoTake
<1>2. CASE IoWait(t)
  <2>1. IoIdle \in Worker
    BY DEF IoIdle, Worker, IoPc, MaybeConn
  <2>2. io' \in [IoThreads -> Worker]
    BY <1>2, <2>1, Update DEF TypeOK, IoWait
  <2> QED BY <1>2, <2>2 DEF TypeOK, IoWait
<1>3. CASE IoRead(t)
  <2> DEFINE total == info[c].recv + sock[s].rx
             left == total % load.fragments
             more == total \div load.fragments
             parsed == info[c].parsed + more
  <2>1. /\ c \in Conns /\ s \in Conns /\ io[t] \in Worker /\ info[c] \in ClientInfo
        /\ sock[s] \in Socket
    BY <1>3, Works DEF IoRead
  <2>2. left \in Nat /\ parsed \in Nat /\ info[c].parsed + 1 \in Nat
    <3>1. /\ info[c].recv \in Nat /\ info[c].parsed \in Nat /\ sock[s].rx \in Nat
          /\ load.fragments \in Nat \ {0}
      BY <2>1 DEF ClientInfo, Socket, TypeOK, Load
    <3>2. left \in Nat /\ more \in Nat
      BY <3>1
    <3> HIDE DEF more, left
    <3> QED BY <3>1, <3>2
  <2>3. /\ sock' = [sock EXCEPT ![s] = [sock[s] EXCEPT !.rx = 0]]
        /\ info' = [info EXCEPT ![c] = [info[c] EXCEPT !.recv = left, !.parsed = parsed]]
        /\ io' = [io EXCEPT ![t] = [io[t] EXCEPT !.pc = "push", !.next = info[c].parsed + 1,
                                                 !.last = parsed]]
    BY <1>3, Zenon DEF IoRead
  <2> HIDE DEF left, parsed
  <2>4. sock' \in [Conns -> Socket]
    <3>1. [sock[s] EXCEPT !.rx = 0] \in Socket
      BY <2>1, SocketRx
    <3> QED BY <2>1, <2>3, <3>1, Update DEF TypeOK
  <2>5. info' \in [Conns -> ClientInfo]
    <3>1. [info[c] EXCEPT !.recv = left, !.parsed = parsed] \in ClientInfo
      BY <2>1, <2>2, ClientInfoRecv, Zenon
    <3> QED BY <2>1, <2>3, <3>1, Update DEF TypeOK
  <2>6. io' \in [IoThreads -> Worker]
    <3>1. "push" \in IoPc
      BY DEF IoPc
    <3>2. [io[t] EXCEPT !.pc = "push", !.next = info[c].parsed + 1, !.last = parsed] \in Worker
      BY <2>1, <2>2, <3>1, WorkerPush, Zenon
    <3> QED BY <2>3, <3>2, Update DEF TypeOK
  <2> QED BY <1>3, <2>4, <2>5, <2>6, Zenon DEF TypeOK, IoRead
<1>4. CASE IoReadNothing(t)
  BY <1>4, IoDoneType, ReleaseType DEF TypeOK, IoReadNothing
<1>5. CASE IoReadBad(t)
  BY <1>5, IoDoneType, ReleaseType DEF TypeOK, IoReadBad
<1>6. CASE IoLogout(t)
  <2>1. sock' \in [Conns -> Socket] /\ clientMap' \in [Fds -> MaybeConn]
    BY <1>6, Works, RemoveCliType, Zenon DEF IoLogout
  <2> QED BY <1>6, <2>1, IoDoneType, ReleaseType DEF TypeOK, IoLogout
<1>7. CASE IoPush(t)
  <2>1. c \in Conns /\ io[t] \in Worker /\ io[t].next \in Nat /\ io[t].next + 1 \in Nat
    BY <1>7, Works DEF IoPush, Worker
  <2>2. [conn |-> c, req |-> io[t].next] \in Unit
    BY <2>1 DEF Unit
  <2>3. cmdQue' \in Seq(Unit)
    BY <1>7, <2>2 DEF TypeOK, IoPush
  <2>4. [io[t] EXCEPT !.next = @ + 1] \in Worker
    BY <2>1, WorkerNext, Zenon
  <2>5. io' = [io EXCEPT ![t] = [io[t] EXCEPT !.next = @ + 1]]
    BY <1>7 DEF IoPush
  <2>6. io' \in [IoThreads -> Worker]
    BY <2>4, <2>5, Update DEF TypeOK
  <2> QED BY <1>7, <2>3, <2>6 DEF TypeOK, IoPush
<1>8. CASE IoPushed(t)
  BY <1>8, IoDoneType, ReleaseType DEF TypeOK, IoPushed
<1>9. CASE IoSendNothing(t)
  BY <1>9, IoToType, Zenon DEF TypeOK, IoSendNothing
<1>10. CASE IoSend(t)
  <2> DEFINE send == info[c].send
             room == TxCap - Len(sock[s].tx)
             n == IF Len(send) < room THEN Len(send) ELSE room
             rest == SubSeq(send, n + 1, Len(send))
             tx == sock[s].tx \o SubSeq(send, 1, n)
  <2>1. /\ c \in Conns /\ s \in Conns /\ info[c] \in ClientInfo /\ sock[s] \in Socket
        /\ send \in Seq(Unit) /\ sock[s].tx \in Seq(Unit)
    BY <1>10, Works, Zenon DEF IoSend, ClientInfo, Socket
  <2>2. n \in Nat /\ n <= Len(send)
    <3>1. Len(sock[s].tx) \in Nat /\ Len(send) \in Nat /\ TxCap \in Nat
      BY <2>1, ReactorAssumption
    <3>2. Len(sock[s].tx) <= TxCap
      BY <2>1 DEF Room
    <3> QED BY <3>1, <3>2
  <2>3. rest \in Seq(Unit) /\ tx \in Seq(Unit) /\ (n < Len(send)) \in BOOLEAN
    <3> HIDE DEF n
    <3> QED BY <2>1, <2>2
  <2>4. /\ info' = [info EXCEPT ![c] = [info[c] EXCEPT !.send = rest]]
        /\ sock' = [sock EXCEPT ![s] = [sock[s] EXCEPT !.tx = tx, !.full = n < Len(send)]]
    BY <1>10, Zenon DEF IoSend
  <2>5. eagain' \in [IoThreads -> BOOLEAN]
    BY <1>10, Zenon DEF TypeOK, IoSend
  <2> HIDE DEF rest, tx, n, send
  <2>6. info' \in [Conns -> ClientInfo]
    <3>1. [info[c] EXCEPT !.send = rest] \in ClientInfo
      BY <2>1, <2>3, ClientInfoSend
    <3> QED BY <2>1, <2>4, <3>1, Update DEF TypeOK
  <2>7. sock' \in [Conns -> Socket]
    <3>1. [sock[s] EXCEPT !.tx = tx, !.full = n < Len(send)] \in Socket
      BY <2>1, <2>3, SocketTx, Zenon
    <3> QED BY <2>1, <2>4, <3>1, Update DEF TypeOK
  <2> QED BY <1>10, <2>5, <2>6, <2>7, IoToType, Zenon DEF TypeOK, IoSend
<1>11. CASE IoSendClosed(t)
  <2>1. c \in Conns /\ s \in Conns /\ info[c] \in ClientInfo /\ sock[s] \in Socket
    BY <1>11, Works DEF IoSendClosed
  <2>2. s \in Item /\ <<>> \in Seq(Unit)
    BY <2>1 DEF Item
  <2>3. ready' \in Seq(Item)
    BY <1>11, <2>2, EnqueueType DEF TypeOK, IoSendClosed
  <2>4. info' \in [Conns -> ClientInfo]
    <3>1. [info[c] EXCEPT !.send = <<>>] \in ClientInfo
      BY <2>1, <2>2, ClientInfoSend, Zenon
    <3>2. info' = [info EXCEPT ![c] = [info[c] EXCEPT !.send = <<>>]]
      BY <1>11 DEF IoSendClosed
    <3> QED BY <2>1, <3>1, <3>2, Update DEF TypeOK
  <2>5. sock' \in [Conns -> Socket]
    <3>1. [sock[s] EXCEPT !.reset = TRUE] \in Socket
      BY <2>1, SocketReset, Zenon
    <3>2. sock' = [sock EXCEPT ![s] = [sock[s] EXCEPT !.reset = TRUE]]
      BY <1>11 DEF IoSendClosed
    <3> QED BY <2>1, <3>1, <3>2, Update DEF TypeOK
  <2> QED BY <1>11, <2>3, <2>4, <2>5, IoToType DEF TypeOK, IoSendClosed
<1>12. CASE IoSendReset(t)
  <2>1. sock' \in [Conns -> Socket] /\ clientMap' \in [Fds -> MaybeConn]
    BY <1>12, Works, RemoveCliType, Zenon DEF IoSendReset
  <2> QED BY <1>12, <2>1, IoToType, Zenon DEF TypeOK, IoSendReset
<1>13. CASE IoSendBad(t)
  BY <1>13, IoToType, Zenon DEF TypeOK, IoSendBad
<1>14. CASE IoSent(t)
  BY <1>14, IoToType, IoDoneType, ReleaseType, Zenon DEF TypeOK, IoSent
<1>15. CASE IoEnableRead(t)
  <2>1. sock' \in [Conns -> Socket] /\ ready' \in Seq(Item)
    BY <1>15, Works, ModifyType, Zenon DEF IoEnableRead, Interest
  <2> QED BY <1>15, <2>1, IoDoneType, ReleaseType DEF TypeOK, IoEnableRead
<1> QED BY <1>1, <1>2, <1>3, <1>4, <1>5, <1>6, <1>7, <1>8, <1>9, <1>10, <1>11, <1>12,
           <1>13, <1>14, <1>15

\* The command thread's steps keep the types.
LEMMA ExecTypes ==
    ASSUME TypeOK, Locals, Accepted, ExecThread
    PROVE  TypeOK'
<1>1. CASE ExecPop
  <2> DEFINE r == Head(cmdQue)
  <2>0. cmdQue \in Seq(Unit) /\ cmdQue # <<>>
    BY <1>1, Zenon DEF TypeOK, ExecPop
  <2>1. r \in Unit /\ Tail(cmdQue) \in Seq(Unit)
    BY <2>0, HeadTail
  <2>2. r.conn \in Conns /\ r.req \in Nat
    BY <2>1 DEF Unit
  <2>3. CASE Alive(r.conn)
    <3>1. exec' = [pc |-> "append", conn |-> r.conn, req |-> r.req]
      BY <1>1, <2>3, Zenon DEF ExecPop
    <3>2. exec' \in Executor
      BY <2>2, <3>1 DEF Executor, ExecPc, MaybeConn, MaybeReq
    <3>3. executed' \in [Conns -> Nat]
      <4>1. executed' = [executed EXCEPT ![r.conn] = @ + 1]
        BY <1>1, <2>3 DEF ExecPop
      <4> QED BY <2>2, <4>1 DEF TypeOK
    <3> QED BY <1>1, <2>1, <3>2, <3>3, Zenon DEF TypeOK, ExecPop
  <2>4. CASE ~ Alive(r.conn)
    BY <1>1, <2>1, <2>4, Zenon DEF TypeOK, ExecPop
  <2> QED BY <2>3, <2>4
<1>2. CASE ExecAppend
  <2> DEFINE c == exec.conn
             reply == [i \in 1..ReplyLen |-> [conn |-> c, req |-> exec.req]]
  <2>1. c \in Conns /\ exec.req \in Nat /\ info[c] \in ClientInfo /\ exec \in Executor
    BY <1>2, Held DEF TypeOK, Locals, ExecAppend
  <2>2. reply \in Seq(Unit)
    <3>1. [conn |-> c, req |-> exec.req] \in Unit
      BY <2>1 DEF Unit
    <3> QED BY <3>1, ReactorAssumption
  <2>3. info' = [info EXCEPT ![c] = [info[c] EXCEPT !.send = @ \o reply]]
    BY <1>2 DEF ExecAppend
  <2> HIDE DEF reply
  <2>4. info[c].send \o reply \in Seq(Unit)
    BY <2>1, <2>2 DEF ClientInfo
  <2>5. [info[c] EXCEPT !.send = @ \o reply] \in ClientInfo
    BY <2>1, <2>4, ClientInfoSend, Zenon
  <2>6. info' \in [Conns -> ClientInfo]
    BY <2>1, <2>3, <2>5, Update DEF TypeOK
  <2>7. exec' \in Executor
    BY <1>2, <2>1, ExecutorAt, Zenon DEF ExecAppend, ExecPc
  <2> QED BY <1>2, <2>6, <2>7 DEF TypeOK, ExecAppend
<1>3. CASE ExecEnableSend
  <2>1. sock' \in [Conns -> Socket] /\ ready' \in Seq(Item)
    BY <1>3, Held, ModifyType DEF ExecEnableSend, Locals, Interest
  <2>2. exec' \in Executor
    BY <1>3 DEF ExecEnableSend, ExecIdle, Executor, ExecPc, MaybeConn, MaybeReq
  <2> QED BY <1>3, <2>1, <2>2, ReleaseType DEF TypeOK, ExecEnableSend
<1> QED BY <1>1, <1>2, <1>3 DEF ExecThread

\* Every step keeps the types.
LEMMA TypeStep ==
    ASSUME TypeOK, Locals, Room, Accepted, Next
    PROVE  TypeOK'
BY ClientTypes, MainTypes, IoTypes, ExecTypes DEF Next, ClientSteps, Network, IoThread

(***************************************************************************)
(* What a step other than Accept leaves as it is.                          *)
(***************************************************************************)
IoStep(t) ==
    \/ IoTake(t) \/ IoWait(t) \/ IoRead(t) \/ IoReadNothing(t) \/ IoReadBad(t)
    \/ IoLogout(t) \/ IoPush(t) \/ IoPushed(t) \/ IoSendNothing(t) \/ IoSend(t)
    \/ IoSendClosed(t) \/ IoSendReset(t) \/ IoSendBad(t) \/ IoSent(t)
    \/ IoEnableRead(t)

ClientStep(c) == Connect(c) \/ SendSegment(c) \/ Receive(c) \/ Close(c)

\* The steps there are.
LEMMA Steps ==
    ASSUME Next
    PROVE  \/ \E c \in Conns : ClientStep(c)
           \/ EpollWait \/ Accept \/ LookupClient \/ WaitReturns \/ Handle \/ RunReturns
           \/ \E t \in IoThreads : IoStep(t)
           \/ ExecPop \/ ExecAppend \/ ExecEnableSend
BY DEF Next, ClientSteps, Network, MainThread, IoThread, ExecThread, ClientStep, IoStep

\* Only Accept gives a client its descriptor.
LEMMA FdKept ==
    ASSUME TypeOK, Locals, Accepted, Next, ~ Accept, NEW d \in Conns
    PROVE  info'[d].fd = info[d].fd
<1>1. CASE \E c \in Conns : ClientStep(c)
  BY <1>1 DEF ClientStep, Connect, SendSegment, Receive, Close
<1>2. CASE EpollWait \/ LookupClient \/ WaitReturns \/ Handle \/ RunReturns
  BY <1>2 DEF EpollWait, LookupClient, WaitReturns, Handle, RunReturns
<1>3. ASSUME NEW t \in IoThreads, IoStep(t) PROVE info'[d].fd = info[d].fd
  <2>1. CASE info' = info
    BY <2>1
  <2>2. CASE IoRead(t)
    BY <2>2, Works DEF IoRead, TypeOK, ClientInfo
  <2>3. CASE IoSend(t)
    BY <2>3, Works, Zenon DEF IoSend, TypeOK, ClientInfo
  <2>4. CASE IoSendClosed(t)
    BY <2>4, Works DEF IoSendClosed, TypeOK, ClientInfo
  <2> QED BY <1>3, <2>1, <2>2, <2>3, <2>4, Zenon DEF IoStep, IoTake, IoWait, IoReadNothing,
             IoReadBad, IoLogout, IoPush, IoPushed, IoSendNothing, IoSendReset, IoSendBad,
             IoSent, IoEnableRead
<1>4. CASE ExecPop \/ ExecEnableSend
  BY <1>4 DEF ExecPop, ExecEnableSend
<1>5. CASE ExecAppend
  BY <1>5, Held DEF ExecAppend, Locals, TypeOK, ClientInfo
<1> QED BY <1>1, <1>2, <1>3, <1>4, <1>5, Steps

\* Descriptors are only closed, and clients only removed from client_map_.
LEMMA TablesShrink ==
    ASSUME TypeOK, Locals, Accepted, Next, ~ Accept, NEW f \in Fds
    PROVE  file'[f] \in {file[f], None} /\ clientMap'[f] \in {clientMap[f], None}
<1>1. ASSUME Release PROVE file'[f] \in {file[f], None}
  BY <1>1 DEF Release
<1>2. CASE \E c \in Conns : ClientStep(c)
  BY <1>2 DEF ClientStep, Connect, SendSegment, Receive, Close
<1>3. CASE EpollWait \/ WaitReturns \/ Handle \/ RunReturns
  BY <1>1, <1>3 DEF EpollWait, WaitReturns, Handle, RunReturns
<1>4. CASE LookupClient
  <2>1. CASE file' = file
    BY <1>4, <2>1 DEF LookupClient
  <2>2. CASE file' = [file EXCEPT ![Head(main.evts).fd] = None]
    BY <1>4, <2>2 DEF LookupClient, TypeOK
  <2> QED BY <1>4, <2>1, <2>2 DEF LookupClient
<1>5. ASSUME NEW t \in IoThreads, IoStep(t)
      PROVE  file'[f] \in {file[f], None} /\ clientMap'[f] \in {clientMap[f], None}
  <2>1. CASE file' = file \/ Release
    <3>1. file'[f] \in {file[f], None}
      BY <1>1, <2>1
    <3>2. CASE clientMap' = clientMap
      BY <3>1, <3>2
    <3>3. CASE IoLogout(t) \/ IoSendReset(t)
      <4>1. clientMap' = [clientMap EXCEPT ![info[io[t].conn].fd] = None]
        BY <3>3, Zenon DEF IoLogout, IoSendReset, RemoveCli
      <4> QED BY <3>1, <4>1 DEF TypeOK
    <3> QED BY <1>5, <3>2, <3>3, Zenon DEF IoStep, IoTake, IoWait, IoRead, IoReadNothing,
               IoReadBad, IoPush, IoPushed, IoSendNothing, IoSend, IoSendClosed, IoSendBad,
               IoSent, IoEnableRead
  <2> QED BY <1>5, <2>1, Zenon DEF IoStep, IoTake, IoWait, IoRead, IoReadNothing, IoReadBad,
             IoLogout, IoPush, IoPushed, IoSendNothing, IoSend, IoSendClosed, IoSendReset,
             IoSendBad, IoSent, IoEnableRead
<1>6. CASE ExecPop \/ ExecAppend \/ ExecEnableSend
  BY <1>1, <1>6 DEF ExecPop, ExecAppend, ExecEnableSend
<1> QED BY <1>2, <1>3, <1>4, <1>5, <1>6, Steps

\* Modify and taking a socket off epoll change interests only, and give one
\* to no socket that has none.
LEMMA ModifyKeeps ==
    ASSUME TypeOK, NEW f \in Fds, NEW i \in Interest, Modify(f, i), NEW d \in Conns
    PROVE  /\ sock'[d].tx = sock[d].tx /\ sock'[d].rx = sock[d].rx
           /\ sock'[d].full = sock[d].full /\ sock'[d].reset = sock[d].reset
           /\ sock'[d].interest # None => sock[d].interest # None
<1>1. CASE sock' = sock
  BY <1>1
<1>2. CASE /\ sock[file[f]].interest # None
           /\ sock' = [sock EXCEPT ![file[f]] = [sock[file[f]] EXCEPT !.interest = i]]
  BY <1>2 DEF TypeOK, Socket
<1> QED BY <1>1, <1>2 DEF Modify

\* Taking a socket off epoll changes nothing else of the sockets.
LEMMA OffEpollKeeps ==
    ASSUME TypeOK, NEW f \in Fds, NEW d \in Conns,
           sock' = IF file[f] = None THEN sock
                   ELSE [sock EXCEPT ![file[f]].interest = None]
    PROVE  /\ sock'[d].tx = sock[d].tx /\ sock'[d].rx = sock[d].rx
           /\ sock'[d].full = sock[d].full /\ sock'[d].reset = sock[d].reset
           /\ sock'[d].interest # None => sock[d].interest # None
<1>1. CASE sock' = sock
  BY <1>1
<1>2. CASE sock' = [sock EXCEPT ![file[f]] = [sock[file[f]] EXCEPT !.interest = None]]
  BY <1>2 DEF TypeOK, Socket
<1> QED BY <1>1, <1>2

\* The event LookupClient looks at is a client's.
LEMMA HeadEvent ==
    ASSUME TypeOK, LookupClient
    PROVE  /\ Head(main.evts).fd \in Fds /\ Head(main.evts).evt \in Interest
           /\ main.ret \in Seq(Returned)
<1>1. main.evts \in Seq(Event) /\ main.evts # <<>> /\ main.ret \in Seq(Returned)
  BY DEF LookupClient, TypeOK, Main
<1>2. Head(main.evts) \in Event /\ Head(main.evts).fd # Listen
  BY <1>1, HeadTail DEF LookupClient
<1> QED BY <1>1, <1>2 DEF Event, EventFd

\* Only Accept puts a socket on epoll, and only IoSend puts units into it.
LEMMA SocketsKept ==
    ASSUME TypeOK, Locals, Accepted, Next, NEW d \in Conns
    PROVE  /\ ~ Accept /\ sock'[d].interest # None => sock[d].interest # None
           /\ \/ sock'[d].tx = sock[d].tx
              \/ Receive(d) /\ sock'[d].tx = Tail(sock[d].tx)
              \/ \E t \in IoThreads : IoSend(t)
<1> DEFINE Kept == /\ sock'[d].interest # None => sock[d].interest # None
                   /\ sock'[d].tx = sock[d].tx
<1>1. CASE \E c \in Conns : ClientStep(c)
  <2> PICK c \in Conns : ClientStep(c)
    BY <1>1
  <2>1. CASE Connect(c) \/ Close(c)
    BY <2>1 DEF Connect, Close
  <2>2. CASE SendSegment(c)
    BY <2>2 DEF SendSegment, TypeOK, Socket
  <2>3. CASE Receive(c)
    BY <2>3, Zenon DEF Receive, TypeOK, Socket
  <2> QED BY <2>1, <2>2, <2>3 DEF ClientStep
<1>2. CASE EpollWait \/ WaitReturns \/ Handle \/ RunReturns
  BY <1>2 DEF EpollWait, WaitReturns, Handle, RunReturns
<1>3. CASE Accept
  <2>1. PICK c \in Conns : sock' = [sock EXCEPT ![c].interest = "IN"]
    <3>1. Head(backlog) \in Conns
      BY <1>3 DEF Accept, TypeOK
    <3> QED BY <1>3, <3>1, Zenon DEF Accept
  <2> QED BY <1>3, <2>1 DEF TypeOK, Socket
<1>4. CASE LookupClient
  <2> DEFINE f == Head(main.evts).fd
  <2>1. f \in Fds
    BY <1>4, HeadEvent
  <2>2. CASE sock' = sock
    BY <2>2
  <2>3. CASE sock' = IF file[f] = None THEN sock
                     ELSE [sock EXCEPT ![file[f]].interest = None]
    BY <2>1, <2>3, OffEpollKeeps, Zenon
  <2> QED BY <1>4, <2>2, <2>3 DEF LookupClient
<1>5. ASSUME NEW t \in IoThreads, IoStep(t), ~ IoSend(t) PROVE Kept
  <2>1. CASE sock' = sock
    BY <2>1
  <2>2. CASE IoRead(t)
    BY <2>2, Works, Zenon DEF IoRead, TypeOK, Socket
  <2>3. CASE IoLogout(t) \/ IoSendReset(t)
    <3>1. info[io[t].conn].fd \in Fds /\ RemoveCli(info[io[t].conn].fd)
      BY <2>3, Works, Zenon DEF IoLogout, IoSendReset
    <3> QED BY <3>1, OffEpollKeeps, Zenon DEF RemoveCli
  <2>4. CASE IoSendClosed(t)
    BY <2>4, Works DEF IoSendClosed, TypeOK, Socket
  <2>5. CASE IoEnableRead(t)
    BY <2>5, Works, ModifyKeeps DEF IoEnableRead, Interest
  <2> QED BY <1>5, <2>1, <2>2, <2>3, <2>4, <2>5 DEF IoStep, IoTake, IoWait, IoReadNothing,
             IoReadBad, IoPush, IoPushed, IoSendNothing, IoSendBad, IoSent
<1>6. ASSUME NEW t \in IoThreads, IoSend(t)
      PROVE  sock'[d].interest # None => sock[d].interest # None
  BY <1>6, Works, Zenon DEF IoSend, TypeOK, Socket
<1>7. CASE ExecPop \/ ExecAppend
  BY <1>7 DEF ExecPop, ExecAppend
<1>8. CASE ExecEnableSend
  BY <1>8, Held, ModifyKeeps DEF ExecEnableSend, Locals, Interest
<1> QED BY <1>1, <1>2, <1>3, <1>4, <1>5, <1>6, <1>7, <1>8, Steps

\* An io thread that reads or pushes goes on with its client.
LEMMA PushingIo ==
    ASSUME TypeOK, NEW t \in IoThreads, IoRead(t) \/ IoPush(t)
    PROVE  \E m, n, pc : io' = [io EXCEPT ![t] = [io[t] EXCEPT !.pc = pc, !.next = m, !.last = n]]
<1>1. CASE IoRead(t)
  BY <1>1, Zenon DEF IoRead
<1>2. CASE IoPush(t)
  <2>1. io' = [io EXCEPT ![t] = [io[t] EXCEPT !.next = @ + 1]]
    BY <1>2 DEF IoPush
  <2>2. io[t] \in Worker
    BY DEF TypeOK
  <2>3. [io[t] EXCEPT !.next = @ + 1] =
        [io[t] EXCEPT !.pc = io[t].pc, !.next = io[t].next + 1, !.last = io[t].last]
    BY <2>2, Zenon DEF Worker
  <2> QED BY <2>1, <2>3, Zenon
<1> QED BY <1>1, <1>2, Zenon

\* A client that nobody refers to is not referred to again: only Accept makes
\* a client.
LEMMA NoRevival ==
    ASSUME TypeOK, Locals, Accepted, Next, ~ Accept, NEW d \in Conns, Alive(d)'
    PROVE  Alive(d)
<1>1. None # d
  BY ReactorAssumption
<1>2. (\E f \in Fds : clientMap'[f] = d) => Alive(d)
  BY <1>1, TablesShrink DEF Alive
<1>3. (\E i \in DOMAIN main'.ret : main'.ret[i].conn = d) => Alive(d)
  <2>1. CASE main'.ret = main.ret
    BY <2>1 DEF Alive
  <2>2. CASE main'.ret = <<>>
    BY <2>2
  <2>3. CASE LookupClient
    <3> DEFINE e == Head(main.evts)
    <3>1. e.fd \in Fds /\ main.ret \in Seq(Returned)
      BY <2>3, HeadEvent
    <3>2. CASE main' = [main EXCEPT !.evts = Tail(@),
                           !.ret = Append(@, [conn |-> clientMap[e.fd], evt |-> e.evt])]
      <4>1. main'.ret = Append(main.ret, [conn |-> clientMap[e.fd], evt |-> e.evt])
        BY <3>2 DEF TypeOK, Main
      <4>2. ASSUME NEW i \in DOMAIN main'.ret, main'.ret[i].conn = d PROVE Alive(d)
        <5>1. CASE i \in DOMAIN main.ret
          BY <3>1, <4>1, <4>2, <5>1 DEF Alive
        <5>2. CASE i = Len(main.ret) + 1
          BY <3>1, <4>1, <4>2, <5>2 DEF Alive
        <5> QED BY <3>1, <4>1, <5>1, <5>2
      <4> QED BY <4>2
    <3>3. CASE main' = [main EXCEPT !.evts = Tail(@)]
      BY <2>1, <3>3 DEF TypeOK, Main
    <3> QED BY <2>3, <3>2, <3>3 DEF LookupClient
  <2>4. CASE EpollWait \/ RunReturns
    <3>1. CASE RunReturns
      BY <2>2, <3>1 DEF RunReturns, MainIdle
    <3>2. CASE EpollWait
      <4>1. PICK q : main' = [MainIdle EXCEPT !.pc = "lookup", !.evts = q]
        BY <3>2, Zenon DEF EpollWait
      <4> QED BY <2>2, <4>1 DEF MainIdle
    <3> QED BY <2>4, <3>1, <3>2
  <2>5. CASE WaitReturns \/ Handle
    BY <2>1, <2>5 DEF WaitReturns, Handle, TypeOK, Main
  <2>6. CASE \E c \in Conns : ClientStep(c)
    BY <2>1, <2>6 DEF ClientStep, Connect, SendSegment, Receive, Close
  <2>7. CASE \E t \in IoThreads : IoStep(t)
    BY <2>1, <2>7, Zenon DEF IoStep, IoTake, IoWait, IoRead, IoReadNothing, IoReadBad,
       IoLogout, IoPush, IoPushed, IoSendNothing, IoSend, IoSendClosed, IoSendReset,
       IoSendBad, IoSent, IoEnableRead
  <2>8. CASE ExecPop \/ ExecAppend \/ ExecEnableSend
    BY <2>1, <2>8 DEF ExecPop, ExecAppend, ExecEnableSend
  <2> QED BY <2>3, <2>4, <2>5, <2>6, <2>7, <2>8, Steps
<1>4. (\E u \in IoThreads : io'[u].conn = d) => Alive(d)
  <2>1. CASE io' = io
    BY <2>1 DEF Alive
  <2>2. ASSUME NEW t \in IoThreads, IoStep(t), NEW u \in IoThreads, io'[u].conn = d
        PROVE  Alive(d)
    <3>1. CASE io'[u].conn = io[u].conn
      BY <2>2, <3>1 DEF Alive
    <3>2. CASE io' = IoDone(t) \/ IoWait(t)
      BY <1>1, <2>2, <3>1, <3>2 DEF IoDone, IoIdle, TypeOK, IoWait
    <3>3. CASE IoTake(t) /\ io' # IoDone(t)
      <4> DEFINE e == Head(cliQue)
      <4>1. Alive(e.conn) /\ io' = [io EXCEPT ![t] = [IoIdle EXCEPT !.pc = e.evt, !.conn = e.conn]]
        BY <3>3 DEF IoTake
      <4>2. io'[u].conn = e.conn \/ io'[u].conn = io[u].conn
        BY <4>1 DEF IoIdle, TypeOK
      <4> QED BY <2>2, <3>1, <4>1, <4>2
    <3>4. CASE \E pc \in {"sent", "enable"} : io' = IoTo(t, pc)
      <4>1. io'[u].conn = io[u].conn
        BY <3>4 DEF IoTo, TypeOK, Worker
      <4> QED BY <3>1, <4>1
    <3>5. CASE IoRead(t) \/ IoPush(t)
      <4>1. PICK m, n, pc : io' = [io EXCEPT ![t] = [io[t] EXCEPT !.pc = pc, !.next = m, !.last = n]]
        BY <3>5, PushingIo, Zenon
      <4>2. io'[u].conn = io[u].conn
        BY <4>1 DEF TypeOK, Worker
      <4> QED BY <3>1, <4>2
    <3> QED BY <2>2, <3>2, <3>3, <3>4, <3>5, Zenon DEF IoStep, IoReadNothing, IoReadBad,
               IoLogout, IoPushed, IoSendNothing, IoSend, IoSendClosed, IoSendReset,
               IoSendBad, IoSent, IoEnableRead
  <2>3. CASE \E c \in Conns : ClientStep(c)
    BY <2>1, <2>3 DEF ClientStep, Connect, SendSegment, Receive, Close
  <2>4. CASE EpollWait \/ LookupClient \/ WaitReturns \/ Handle \/ RunReturns
    BY <2>1, <2>4 DEF EpollWait, LookupClient, WaitReturns, Handle, RunReturns
  <2>5. CASE ExecPop \/ ExecAppend \/ ExecEnableSend
    BY <2>1, <2>5 DEF ExecPop, ExecAppend, ExecEnableSend
  <2> QED BY <2>2, <2>3, <2>4, <2>5, Steps
<1>5. exec'.conn = d => Alive(d)
  <2>1. CASE exec' = exec
    BY <2>1 DEF Alive
  <2>2. CASE ExecPop
    BY <2>1, <2>2 DEF ExecPop
  <2>3. CASE ExecAppend
    BY <2>3 DEF ExecAppend, Alive, TypeOK, Executor
  <2>4. CASE ExecEnableSend
    BY <1>1, <2>4 DEF ExecEnableSend, ExecIdle
  <2>5. CASE \E c \in Conns : ClientStep(c)
    BY <2>1, <2>5 DEF ClientStep, Connect, SendSegment, Receive, Close
  <2>6. CASE EpollWait \/ LookupClient \/ WaitReturns \/ Handle \/ RunReturns
    BY <2>1, <2>6 DEF EpollWait, LookupClient, WaitReturns, Handle, RunReturns
  <2>7. CASE \E t \in IoThreads : IoStep(t)
    BY <2>1, <2>7, Zenon DEF IoStep, IoTake, IoWait, IoRead, IoReadNothing, IoReadBad,
       IoLogout, IoPush, IoPushed, IoSendNothing, IoSend, IoSendClosed, IoSendReset,
       IoSendBad, IoSent, IoEnableRead
  <2> QED BY <2>2, <2>3, <2>4, <2>5, <2>6, <2>7, Steps
<1>6. \/ \E f \in Fds : clientMap'[f] = d
      \/ \E i \in DOMAIN main'.ret : main'.ret[i].conn = d
      \/ \E u \in IoThreads : io'[u].conn = d
      \/ exec'.conn = d
  BY DEF Alive
<1> QED BY <1>2, <1>3, <1>4, <1>5, <1>6

(***************************************************************************)
(* The structural invariants.                                              *)
(***************************************************************************)
\* The structural part of the invariant holds at the start.
LEMMA InitStructure == Init => Locals /\ Room /\ Waiting /\ Accepted /\ Untouched
<1> SUFFICES ASSUME Init PROVE Locals /\ Room /\ Waiting /\ Accepted /\ Untouched
  OBVIOUS
<1>1. Locals
  BY ReactorAssumption DEF Init, Locals, IoIdle, ExecIdle
<1>2. Room
  BY ReactorAssumption DEF Init, Room
<1>3. Waiting
  BY DEF Init, Waiting
<1>4. Accepted
  BY ReactorAssumption DEF Init, Accepted, MainIdle, IoIdle, ExecIdle
<1>5. Untouched
  BY DEF Init, Untouched
<1> QED BY <1>1, <1>2, <1>3, <1>4, <1>5

\* Every step keeps Locals.
LEMMA LocalsStep ==
    ASSUME TypeOK, Locals, Accepted, Next
    PROVE  Locals'
<1>1. CASE io' = io /\ cliMtx' = cliMtx /\ exec' = exec
  BY <1>1 DEF Locals
<1>2. CASE \E c \in Conns : ClientStep(c)
  BY <1>1, <1>2 DEF ClientStep, Connect, SendSegment, Receive, Close
<1>3. CASE EpollWait \/ Accept \/ LookupClient \/ WaitReturns \/ Handle \/ RunReturns
  BY <1>1, <1>3, Zenon DEF EpollWait, Accept, LookupClient, WaitReturns, Handle, RunReturns
<1>4. ASSUME NEW t \in IoThreads, IoStep(t) PROVE Locals'
  <2>1. exec' = exec
    BY <1>4, Zenon DEF IoStep, IoTake, IoWait, IoRead, IoReadNothing, IoReadBad,
       IoLogout, IoPush, IoPushed, IoSendNothing, IoSend, IoSendClosed, IoSendReset,
       IoSendBad, IoSent, IoEnableRead
  <2>2. \A u \in IoThreads : /\ io[u].pc \in {"idle", "loop"} <=> io[u].conn = None
                             /\ io[u].pc # "idle" <=> cliMtx = u
    BY DEF Locals
  <2>3. \A u \in IoThreads : u # None
    BY ReactorAssumption
  <2>4. SUFFICES \A u \in IoThreads : /\ io'[u].pc \in {"idle", "loop"} <=> io'[u].conn = None
                                      /\ io'[u].pc # "idle" <=> cliMtx' = u
    BY <2>1 DEF Locals
  <2>5. ASSUME io' = IoDone(t), cliMtx' = t, cliMtx = None \/ cliMtx = t, NEW u \in IoThreads
        PROVE  /\ io'[u].pc \in {"idle", "loop"} <=> io'[u].conn = None
               /\ io'[u].pc # "idle" <=> cliMtx' = u
    <3>1. io'[t].pc = "loop" /\ io'[t].conn = None
      BY <2>5 DEF TypeOK, IoDone, IoIdle
    <3>2. u # t => io'[u] = io[u]
      BY <2>5 DEF TypeOK, IoDone
    <3>3. CASE u = t
      BY <2>5, <3>1, <3>3
    <3>4. CASE u # t
      BY <2>2, <2>3, <2>5, <3>2, <3>4
    <3> QED BY <3>3, <3>4
  <2>6. CASE IoTake(t)
    <3> DEFINE e == Head(cliQue)
    <3>1. cliMtx' = t /\ (cliMtx = None \/ cliMtx = t)
      BY <2>2, <2>6 DEF IoTake
    <3>2. CASE io' = IoDone(t)
      BY <2>5, <3>1, <3>2
    <3>3. CASE io' = [io EXCEPT ![t] = [IoIdle EXCEPT !.pc = e.evt, !.conn = e.conn]]
      <4>1. cliQue \in Seq(Returned) /\ cliQue # <<>>
        BY <2>6 DEF IoTake, TypeOK
      <4>2. e \in Returned
        BY <4>1
      <4>3. e.evt \in {"IN", "OUT"} /\ e.conn # None
        BY <4>2, ReactorAssumption DEF Returned, Interest
      <4>4. io'[t].pc = e.evt /\ io'[t].conn = e.conn
        BY <3>3 DEF TypeOK, IoIdle
      <4>5. \A u \in IoThreads : u # t => io'[u] = io[u]
        BY <3>3 DEF TypeOK
      <4>6. ASSUME NEW u \in IoThreads
            PROVE  /\ io'[u].pc \in {"idle", "loop"} <=> io'[u].conn = None
                   /\ io'[u].pc # "idle" <=> cliMtx' = u
        <5>1. CASE u = t
          BY <3>1, <4>3, <4>4, <5>1
        <5>2. CASE u # t
          BY <2>2, <2>3, <3>1, <4>5, <5>2
        <5> QED BY <5>1, <5>2
      <4> QED BY <4>6
    <3> QED BY <2>6, <3>2, <3>3 DEF IoTake
  <2>7. CASE IoWait(t)
    <3>1. cliMtx' = None /\ cliMtx = t /\ io'[t].pc = "idle" /\ io'[t].conn = None
      BY <2>2, <2>7 DEF IoWait, TypeOK, IoIdle
    <3>2. \A u \in IoThreads : u # t => io'[u] = io[u]
      BY <2>7 DEF IoWait, TypeOK
    <3>3. ASSUME NEW u \in IoThreads
          PROVE  /\ io'[u].pc \in {"idle", "loop"} <=> io'[u].conn = None
                 /\ io'[u].pc # "idle" <=> cliMtx' = u
      <4>1. u # None
        BY ReactorAssumption
      <4> QED BY <2>2, <3>1, <3>2, <4>1
    <3> QED BY <3>3
  <2>8. CASE \E pc \in {"sent", "enable"} :
               io' = IoTo(t, pc) /\ cliMtx' = cliMtx /\ io[t].pc \notin {"idle", "loop"}
    BY <2>2, <2>8 DEF IoTo, TypeOK, Worker
  <2>9. CASE IoRead(t)
    <3>1. PICK m, n : io' = [io EXCEPT ![t] = [io[t] EXCEPT !.pc = "push", !.next = m, !.last = n]]
      BY <2>9, Zenon DEF IoRead
    <3>2. cliMtx' = cliMtx /\ io[t].pc = "IN"
      BY <2>9 DEF IoRead
    <3>3. io'[t].pc = "push" /\ io'[t].conn = io[t].conn /\ \A u \in IoThreads : u # t => io'[u] = io[u]
      BY <3>1 DEF TypeOK, Worker
    <3> QED BY <2>2, <3>2, <3>3
  <2>10. CASE IoPush(t)
    <3>1. \A u \in IoThreads : io'[u].pc = io[u].pc /\ io'[u].conn = io[u].conn
      BY <2>10 DEF IoPush, TypeOK, Worker
    <3> QED BY <2>2, <2>10, <3>1 DEF IoPush
  <2>11. CASE /\ io' = IoDone(t) /\ cliMtx' = cliMtx /\ io[t].pc \notin {"idle", "loop"}
    <3>1. cliMtx = t
      BY <2>2, <2>11
    <3> QED BY <2>5, <2>11, <3>1
  <2> QED BY <1>4, <2>6, <2>7, <2>8, <2>9, <2>10, <2>11, Zenon DEF IoStep, IoReadNothing, IoReadBad,
       IoLogout, IoPushed, IoSendNothing, IoSend, IoSendClosed, IoSendReset, IoSendBad,
       IoSent, IoEnableRead
<1>5. CASE ExecPop
  <2>1. io' = io /\ cliMtx' = cliMtx /\ cmdQue \in Seq(Unit) /\ cmdQue # <<>>
    BY <1>5 DEF ExecPop, TypeOK
  <2>2. Head(cmdQue) \in Unit
    BY <2>1
  <2>3. Head(cmdQue).conn # None /\ Head(cmdQue).req \in Nat
    BY <2>2, ReactorAssumption DEF Unit
  <2> QED BY <1>5, <2>1, <2>3 DEF ExecPop, Locals
<1>6. CASE ExecAppend
  <2>1. exec'.pc = "enable" /\ exec'.conn = exec.conn /\ exec'.req = exec.req
    BY <1>6 DEF ExecAppend, TypeOK, Executor
  <2> QED BY <1>6, <2>1 DEF ExecAppend, Locals
<1>7. CASE ExecEnableSend
  BY <1>7 DEF ExecEnableSend, Locals, ExecIdle
<1> QED BY <1>2, <1>3, <1>4, <1>5, <1>6, <1>7, Steps

\* Every step keeps Room: Send gives the socket what it has room for.
LEMMA RoomStep ==
    ASSUME TypeOK, Locals, Room, Accepted, Next
    PROVE  Room'
<1> SUFFICES ASSUME NEW d \in Conns PROVE Len(sock'[d].tx) <= TxCap
  BY DEF Room
<1>1. sock[d].tx \in Seq(Unit) /\ Len(sock[d].tx) <= TxCap /\ TxCap \in Nat
  BY ReactorAssumption DEF TypeOK, Socket, Room
<1>2. CASE sock'[d].tx = sock[d].tx
  BY <1>1, <1>2
<1>3. CASE Receive(d) /\ sock'[d].tx = Tail(sock[d].tx)
  <2>1. sock[d].tx # <<>>
    BY <1>3 DEF Receive
  <2>2. Len(Tail(sock[d].tx)) <= TxCap
    BY <1>1, <2>1
  <2> QED BY <1>3, <2>2
<1>4. ASSUME NEW t \in IoThreads, IoSend(t) PROVE Len(sock'[d].tx) <= TxCap
  <2> DEFINE c == io[t].conn
             s == Named(c)
             send == info[c].send
             room == TxCap - Len(sock[s].tx)
             n == IF Len(send) < room THEN Len(send) ELSE room
             part == SubSeq(send, 1, n)
  <2>1. s \in Conns /\ send \in Seq(Unit) /\ sock[s].tx \in Seq(Unit)
    BY <1>4, Works, Zenon DEF IoSend, ClientInfo, Socket
  <2>2. /\ n \in 0..Len(send) /\ n <= room /\ room \in Nat
        /\ Len(sock[s].tx) \in Nat /\ room + Len(sock[s].tx) = TxCap
    <3>1. Len(send) \in Nat /\ Len(sock[s].tx) \in Nat /\ Len(sock[s].tx) <= TxCap
      BY <2>1 DEF Room
    <3>2. room \in Nat /\ room + Len(sock[s].tx) = TxCap
      BY <1>1, <3>1
    <3> HIDE DEF room, send
    <3> QED BY <3>1, <3>2
  <2>3. part \in Seq(Unit) /\ Len(part) = n
    <3> HIDE DEF n, send
    <3> QED BY <2>1, <2>2
  <2>4. sock' = [sock EXCEPT ![s] = [sock[s] EXCEPT !.tx = @ \o part, !.full = n < Len(send)]]
    BY <1>4, Zenon DEF IoSend
  <2> HIDE DEF part, n, send, room
  <2>5. CASE d = s
    <3>1. sock'[d].tx = sock[s].tx \o part
      BY <2>1, <2>4, <2>5 DEF TypeOK, Socket
    <3>2. Len(sock'[d].tx) = Len(sock[s].tx) + n
      <4>1. Len(sock[s].tx \o part) = Len(sock[s].tx) + Len(part)
        BY <2>1, <2>3, ConcatLen, Zenon
      <4> QED BY <2>3, <3>1, <4>1
    <3> QED BY <1>1, <2>2, <3>2
  <2>6. CASE d # s
    BY <1>1, <2>1, <2>4, <2>6 DEF TypeOK
  <2> QED BY <2>5, <2>6
<1> QED BY <1>2, <1>3, <1>4, SocketsKept

\* What Accept does, by name: c is the connection, f its descriptor.
Accepts(c, f) ==
    /\ c = Head(backlog) /\ backlog' = Tail(backlog)
    /\ file[f] = None
    /\ file' = [file EXCEPT ![f] = c]
    /\ clientMap' = [clientMap EXCEPT ![f] = IF @ = None THEN c ELSE @]
    /\ info' = [info EXCEPT ![c].fd = f]
    /\ sock' = [sock EXCEPT ![c].interest = "IN"]
    /\ main' = [main EXCEPT !.evts = Tail(@)]
    /\ UNCHANGED <<load, client, cliMtx, cliQue, io, eagain, cmdQue, exec, executed>>

\* Accept is Accepts of a connection that had no descriptor.
LEMMA AcceptIs ==
    ASSUME TypeOK, Waiting, Accept
    PROVE  \E c \in Conns, f \in Fds : Accepts(c, f) /\ info[c].fd = None
<1>1. backlog \in Seq(Conns) /\ backlog # <<>>
  BY DEF TypeOK, Accept
<1>2. Head(backlog) \in Conns /\ 1 \in DOMAIN backlog /\ Head(backlog) = backlog[1]
  BY <1>1
<1>3. info[Head(backlog)].fd = None
  BY <1>2 DEF Waiting
<1>4. PICK f \in Fds : Accepts(Head(backlog), f)
  BY Zenon DEF Accept, Accepts
<1> QED BY <1>2, <1>3, <1>4

\* The descriptors after Accept.
LEMMA AcceptFds ==
    ASSUME TypeOK, NEW c \in Conns, NEW f \in Fds, Accepts(c, f)
    PROVE  /\ info'[c].fd = f
           /\ \A d \in Conns : d # c => info'[d] = info[d]
           /\ \A d \in Conns : info'[d].parsed = info[d].parsed /\ info'[d].send = info[d].send
BY DEF TypeOK, Accepts, ClientInfo

\* Every step keeps Waiting.
LEMMA WaitingStep ==
    ASSUME TypeOK, Locals, Accepted, Waiting, Next
    PROVE  Waiting'
<1>1. CASE Accept
  <2>1. PICK c \in Conns, f \in Fds : Accepts(c, f)
    BY <1>1, AcceptIs
  <2>2. backlog \in Seq(Conns) /\ backlog # <<>> /\ backlog' = Tail(backlog) /\ c = backlog[1]
    BY <1>1, <2>1 DEF TypeOK, Accept, Accepts
  <2>3. ASSUME NEW i \in DOMAIN backlog'
        PROVE  i + 1 \in DOMAIN backlog /\ backlog'[i] = backlog[i + 1] /\ i + 1 # 1 /\ i \in Nat
    BY <2>2, <2>3
  <2>4. 1 \in DOMAIN backlog
    BY <2>2
  <2>5. ASSUME NEW i \in DOMAIN backlog' PROVE info'[backlog'[i]].fd = None
    <3>1. backlog'[i] # c /\ backlog'[i] \in Conns /\ info[backlog'[i]].fd = None
      BY <2>2, <2>3, <2>4 DEF Waiting
    <3> QED BY <2>1, <3>1, AcceptFds
  <2>6. ASSUME NEW i \in DOMAIN backlog', NEW j \in DOMAIN backlog', backlog'[i] = backlog'[j]
        PROVE  i = j
    <3>1. i + 1 = j + 1 /\ i \in Nat /\ j \in Nat
      BY <2>3, <2>6 DEF Waiting
    <3> QED BY <3>1
  <2> QED BY <2>5, <2>6 DEF Waiting
<1>2. ASSUME ~ Accept, backlog' = backlog PROVE Waiting'
  <2>1. \A d \in Conns : info'[d].fd = info[d].fd
    BY <1>2, FdKept
  <2>2. \A i \in DOMAIN backlog : backlog[i] \in Conns
    BY DEF TypeOK
  <2> QED BY <1>2, <2>1, <2>2 DEF Waiting
<1>3. ASSUME NEW c \in Conns, Connect(c) PROVE Waiting'
  <2>1. /\ backlog \in Seq(Conns) /\ backlog' = Append(backlog, c) /\ info' = info
        /\ info[c].fd = None /\ \A i \in DOMAIN backlog : backlog[i] # c
    BY <1>3 DEF Connect, TypeOK, In
  <2>2. ASSUME NEW i \in DOMAIN backlog'
        PROVE  \/ i \in DOMAIN backlog /\ backlog'[i] = backlog[i]
               \/ i = Len(backlog) + 1 /\ backlog'[i] = c
    BY <2>1, AppendIndex
  <2>3. ASSUME NEW i \in DOMAIN backlog' PROVE info'[backlog'[i]].fd = None
    BY <2>1, <2>2 DEF Waiting
  <2>4. ASSUME NEW i \in DOMAIN backlog', NEW j \in DOMAIN backlog', backlog'[i] = backlog'[j]
        PROVE  i = j
    BY <2>1, <2>2, <2>4 DEF Waiting
  <2> QED BY <2>3, <2>4 DEF Waiting
<1>4. CASE \E c \in Conns : ClientStep(c) /\ ~ Connect(c)
  <2>1. PICK c \in Conns : SendSegment(c) \/ Receive(c) \/ Close(c)
    BY <1>4 DEF ClientStep
  <2>2. backlog' = backlog
    BY <2>1 DEF SendSegment, Receive, Close
  <2>3. CASE Accept
    BY <1>1, <2>3
  <2> QED BY <1>2, <2>2, <2>3
<1>5. CASE EpollWait \/ LookupClient \/ WaitReturns \/ Handle \/ RunReturns
  <2>1. backlog' = backlog
    BY <1>5 DEF EpollWait, LookupClient, WaitReturns, Handle, RunReturns
  <2> QED BY <1>1, <1>2, <2>1
<1>6. CASE \E t \in IoThreads : IoStep(t)
  <2>1. backlog' = backlog
    BY <1>6, Zenon DEF IoStep, IoTake, IoWait, IoRead, IoReadNothing, IoReadBad,
       IoLogout, IoPush, IoPushed, IoSendNothing, IoSend, IoSendClosed, IoSendReset,
       IoSendBad, IoSent, IoEnableRead
  <2> QED BY <1>1, <1>2, <2>1
<1>7. CASE ExecPop \/ ExecAppend \/ ExecEnableSend
  <2>1. backlog' = backlog
    BY <1>7 DEF ExecPop, ExecAppend, ExecEnableSend
  <2> QED BY <1>1, <1>2, <2>1
<1> QED BY <1>1, <1>3, <1>4, <1>5, <1>6, <1>7, Steps

\* Every step keeps Untouched.
LEMMA UntouchedStep ==
    ASSUME TypeOK, Locals, Accepted, Waiting, Untouched, Next
    PROVE  Untouched'
<1>1. CASE Accept
  <2>1. PICK c \in Conns, f \in Fds : Accepts(c, f)
    BY <1>1, AcceptIs
  <2>2. f # None
    BY ReactorAssumption DEF Fds
  <2> QED BY <2>1, <2>2, AcceptFds DEF Untouched, Accepts
<1>2. ASSUME ~ Accept PROVE Untouched'
  <2> SUFFICES ASSUME NEW d \in Conns, info'[d].fd = None
               PROVE  info'[d].parsed = 0 /\ executed'[d] = 0
    BY DEF Untouched
  <2>1. info[d].fd = None
    BY <1>2, FdKept
  <2>2. info[d].parsed = 0 /\ executed[d] = 0
    BY <2>1 DEF Untouched
  <2>3. CASE info' = info /\ executed' = executed
    BY <2>2, <2>3
  <2>4. CASE \E c \in Conns : ClientStep(c)
    BY <2>3, <2>4 DEF ClientStep, Connect, SendSegment, Receive, Close
  <2>5. CASE EpollWait \/ LookupClient \/ WaitReturns \/ Handle \/ RunReturns
    BY <2>3, <2>5 DEF EpollWait, LookupClient, WaitReturns, Handle, RunReturns
  <2>6. ASSUME NEW t \in IoThreads, IoStep(t) PROVE info'[d].parsed = 0 /\ executed'[d] = 0
    <3>1. executed' = executed
      BY <2>6, Zenon DEF IoStep, IoTake, IoWait, IoRead, IoReadNothing, IoReadBad,
         IoLogout, IoPush, IoPushed, IoSendNothing, IoSend, IoSendClosed, IoSendReset,
         IoSendBad, IoSent, IoEnableRead
    <3>2. CASE info' = info
      BY <2>3, <3>1, <3>2
    <3>3. CASE IoRead(t) \/ IoSend(t) \/ IoSendClosed(t)
      <4>1. info[io[t].conn].fd \in Fds /\ io[t].conn \in Conns
        BY <3>3, Works, Zenon DEF IoRead, IoSend, IoSendClosed
      <4>2. d # io[t].conn
        BY <2>1, <4>1, ReactorAssumption DEF Fds
      <4>3. info'[d] = info[d]
        BY <3>3, <4>2, Zenon DEF IoRead, IoSend, IoSendClosed, TypeOK
      <4> QED BY <2>2, <3>1, <4>3
    <3> QED BY <2>6, <3>2, <3>3, Zenon DEF IoStep, IoTake, IoWait, IoReadNothing, IoReadBad,
         IoLogout, IoPush, IoPushed, IoSendNothing, IoSendReset, IoSendBad, IoSent, IoEnableRead
  <2>7. CASE ExecPop
    <3>1. cmdQue \in Seq(Unit) /\ cmdQue # <<>>
      BY <2>7 DEF TypeOK, ExecPop
    <3>2. 1 \in DOMAIN cmdQue /\ Head(cmdQue) = cmdQue[1] /\ Head(cmdQue) \in Unit
      BY <3>1
    <3>3. Head(cmdQue).conn # d
      BY <2>1, <3>2 DEF Accepted
    <3>4. executed'[d] = executed[d] /\ info' = info
      BY <2>7, <3>3 DEF ExecPop, TypeOK
    <3> QED BY <2>2, <3>4
  <2>8. CASE ExecAppend
    <3>1. exec.conn # d
      BY <2>1, <2>8 DEF Accepted, ExecAppend, Locals
    <3>2. info'[d] = info[d] /\ executed' = executed
      BY <2>8, <3>1 DEF ExecAppend, TypeOK
    <3> QED BY <2>2, <3>2
  <2>9. CASE ExecEnableSend
    BY <2>3, <2>9 DEF ExecEnableSend
  <2> QED BY <1>2, <2>4, <2>5, <2>6, <2>7, <2>8, <2>9, Steps
<1> QED BY <1>1, <1>2

\* Whoever is referred to has a descriptor.
LEMMA AliveHasFd ==
    ASSUME TypeOK, Accepted, NEW d \in Conns, Alive(d)
    PROVE  info[d].fd \in Fds
<1>1. None # d
  BY ReactorAssumption
<1>2. info[d].fd # None
  BY <1>1, ReactorAssumption DEF Accepted, Alive, Fds
<1> QED BY <1>2 DEF TypeOK, ClientInfo, MaybeFd

\* Accept keeps Accepted: the descriptor it gives was free.
LEMMA AcceptedAccept ==
    ASSUME TypeOK, Waiting, Accepted, Accept
    PROVE  Accepted'
<1>1. PICK c \in Conns, f \in Fds : Accepts(c, f) /\ info[c].fd = None
  BY AcceptIs
<1>2. \A d \in Conns : info[d].fd # None => info'[d].fd = info[d].fd
  BY <1>1, AcceptFds
<1>3. f # None /\ c # None /\ info'[c].fd = f
  BY <1>1, AcceptFds, ReactorAssumption DEF Fds
<1>4. \A d \in Conns : sock'[d].interest # None => info'[d].fd # None
  <2> SUFFICES ASSUME NEW d \in Conns, sock'[d].interest # None PROVE info'[d].fd # None
    OBVIOUS
  <2>1. CASE d = c
    BY <1>3, <2>1
  <2>2. CASE d # c
    BY <1>1, <1>2, <2>2 DEF Accepts, Accepted, TypeOK
  <2> QED BY <2>1, <2>2
<1>5. \A g \in Fds : file'[g] # None => info'[file'[g]].fd = g
  <2> SUFFICES ASSUME NEW g \in Fds, file'[g] # None PROVE info'[file'[g]].fd = g
    OBVIOUS
  <2>1. CASE g = f
    BY <1>1, <1>3, <2>1 DEF Accepts, TypeOK
  <2>2. CASE g # f
    <3>1. file'[g] = file[g] /\ file[g] \in Conns /\ info[file[g]].fd = g
      BY <1>1, <2>2 DEF Accepts, TypeOK, Accepted, MaybeConn
    <3> QED BY <1>2, <3>1, ReactorAssumption DEF Fds
  <2> QED BY <2>1, <2>2
<1>6. \A g \in Fds : clientMap'[g] # None => info'[clientMap'[g]].fd = g
  <2> SUFFICES ASSUME NEW g \in Fds, clientMap'[g] # None PROVE info'[clientMap'[g]].fd = g
    OBVIOUS
  <2>1. CASE g = f /\ clientMap[g] = None
    <3>1. clientMap'[g] = c
      BY <1>1, <2>1 DEF Accepts, TypeOK
    <3> QED BY <1>3, <2>1, <3>1
  <2>2. CASE ~ (g = f /\ clientMap[g] = None)
    <3>1. clientMap'[g] = clientMap[g]
      BY <1>1, <2>2 DEF Accepts, TypeOK
    <3>2. clientMap[g] \in Conns /\ info[clientMap[g]].fd = g
      BY <3>1 DEF TypeOK, Accepted, MaybeConn
    <3> QED BY <1>2, <3>1, <3>2, ReactorAssumption DEF Fds
  <2> QED BY <2>1, <2>2
<1>7. main.ret \in Seq(Returned) /\ cliQue \in Seq(Returned) /\ cmdQue \in Seq(Unit)
  BY DEF TypeOK, Main
<1>8. /\ \A i \in DOMAIN main.ret : main.ret[i].conn \in Conns
      /\ \A i \in DOMAIN cliQue : cliQue[i].conn \in Conns
      /\ \A i \in DOMAIN cmdQue : cmdQue[i].conn \in Conns
  <2>1. /\ \A i \in DOMAIN main.ret : main.ret[i] \in Returned
        /\ \A i \in DOMAIN cliQue : cliQue[i] \in Returned
        /\ \A i \in DOMAIN cmdQue : cmdQue[i] \in Unit
    BY <1>7
  <2> QED BY <2>1 DEF Returned, Unit
<1>9. main'.ret = main.ret
  BY <1>1 DEF Accepts, TypeOK, Main
<1>10. /\ \A i \in DOMAIN main'.ret : info'[main'.ret[i].conn].fd # None
       /\ \A i \in DOMAIN cliQue' : info'[cliQue'[i].conn].fd # None
       /\ \A i \in DOMAIN cmdQue' : info'[cmdQue'[i].conn].fd # None
  BY <1>1, <1>2, <1>8, <1>9 DEF Accepts, Accepted
<1>11. /\ \A t \in IoThreads : io'[t].conn # None => info'[io'[t].conn].fd # None
       /\ exec'.conn # None => info'[exec'.conn].fd # None
  <2>1. io' = io /\ exec' = exec
    BY <1>1 DEF Accepts
  <2>2. /\ \A t \in IoThreads : io[t].conn # None => io[t].conn \in Conns
        /\ exec.conn # None => exec.conn \in Conns
    BY DEF TypeOK, Worker, Executor, MaybeConn
  <2> QED BY <1>2, <2>1, <2>2 DEF Accepted
<1> QED BY <1>4, <1>5, <1>6, <1>10, <1>11 DEF Accepted

\* What is in a queue was there, or is what a thread puts in.
LEMMA QueuesGrow ==
    ASSUME TypeOK, Locals, Accepted, Next
    PROVE  /\ \A i \in DOMAIN cliQue' :
                \/ \E j \in DOMAIN cliQue : cliQue'[i] = cliQue[j]
                \/ \E j \in DOMAIN main.ret : cliQue'[i] = main.ret[j]
           /\ \A i \in DOMAIN cmdQue' :
                \/ \E j \in DOMAIN cmdQue : cmdQue'[i] = cmdQue[j]
                \/ \E t \in IoThreads : /\ io[t].conn # None
                                        /\ cmdQue'[i].conn = io[t].conn
<1> DEFINE A == \A i \in DOMAIN cliQue' :
                  \/ \E j \in DOMAIN cliQue : cliQue'[i] = cliQue[j]
                  \/ \E j \in DOMAIN main.ret : cliQue'[i] = main.ret[j]
           B == \A i \in DOMAIN cmdQue' :
                  \/ \E j \in DOMAIN cmdQue : cmdQue'[i] = cmdQue[j]
                  \/ \E t \in IoThreads : io[t].conn # None /\ cmdQue'[i].conn = io[t].conn
<1> SUFFICES A /\ B
  OBVIOUS
<1>1. cliQue' = cliQue => A
  OBVIOUS
<1>2. cmdQue' = cmdQue => B
  OBVIOUS
<1>3. cliQue \in Seq(Returned) /\ main.ret \in Seq(Returned) /\ cmdQue \in Seq(Unit)
  BY DEF TypeOK, Main
<1>4. CASE Handle
  <2>1. main.next \in DOMAIN main.ret /\ main.ret[main.next] \in Returned
    BY <1>3, <1>4 DEF Handle, TypeOK, Main, Positive
  <2>2. cliQue' = Append(cliQue, main.ret[main.next]) /\ cmdQue' = cmdQue
    BY <1>4 DEF Handle
  <2>3. A
    BY <1>3, <2>1, <2>2, AppendIndex
  <2> QED BY <1>2, <2>2, <2>3
<1>5. ASSUME NEW t \in IoThreads, IoTake(t) PROVE A /\ B
  <2>1. cliQue # <<>> /\ cliQue' = Tail(cliQue) /\ cmdQue' = cmdQue
    BY <1>5 DEF IoTake
  <2>2. A
    BY <1>3, <2>1, TailIndex
  <2> QED BY <1>2, <2>1, <2>2
<1>6. ASSUME NEW t \in IoThreads, IoPush(t) PROVE A /\ B
  <2> DEFINE e == [conn |-> io[t].conn, req |-> io[t].next]
  <2>1. io[t].conn \in Conns /\ io[t].next \in Nat /\ io[t].conn # None
    BY <1>6, Works, ReactorAssumption DEF IoPush, Worker
  <2>2. cmdQue' = Append(cmdQue, e) /\ cliQue' = cliQue
    BY <1>6 DEF IoPush
  <2>3. e \in Unit /\ e.conn = io[t].conn
    BY <2>1 DEF Unit
  <2> HIDE DEF e
  <2>4. B
    BY <1>3, <2>1, <2>2, <2>3, AppendIndex
  <2> QED BY <1>1, <2>2, <2>4
<1>7. CASE ExecPop
  <2>1. cmdQue # <<>> /\ cmdQue' = Tail(cmdQue) /\ cliQue' = cliQue
    BY <1>7 DEF ExecPop
  <2>2. B
    BY <1>3, <2>1, TailIndex
  <2> QED BY <1>1, <2>1, <2>2
<1>8. CASE cliQue' = cliQue /\ cmdQue' = cmdQue
  BY <1>1, <1>2, <1>8
<1>9. CASE \E c \in Conns : ClientStep(c)
  BY <1>8, <1>9 DEF ClientStep, Connect, SendSegment, Receive, Close
<1>10. CASE EpollWait \/ Accept \/ LookupClient \/ WaitReturns \/ RunReturns
  BY <1>8, <1>10, Zenon DEF EpollWait, Accept, LookupClient, WaitReturns, RunReturns
<1>11. ASSUME NEW t \in IoThreads, IoStep(t) PROVE A /\ B
  BY <1>5, <1>6, <1>8, <1>11, Zenon DEF IoStep, IoWait, IoRead, IoReadNothing, IoReadBad,
     IoLogout, IoPushed, IoSendNothing, IoSend, IoSendClosed, IoSendReset, IoSendBad,
     IoSent, IoEnableRead
<1>12. CASE ExecAppend \/ ExecEnableSend
  BY <1>8, <1>12 DEF ExecAppend, ExecEnableSend
<1> HIDE DEF A, B
<1> QED BY <1>4, <1>7, <1>9, <1>10, <1>11, <1>12, Steps

\* Every step keeps Accepted.
LEMMA AcceptedStep ==
    ASSUME TypeOK, Locals, Waiting, Accepted, Next, TypeOK'
    PROVE  Accepted'
<1>1. CASE Accept
  BY <1>1, AcceptedAccept
<1>2. ASSUME ~ Accept PROVE Accepted'
  <2>1. \A d \in Conns : info'[d].fd = info[d].fd
    BY <1>2, FdKept
  <2>2. ASSUME NEW d \in Conns, Alive(d)' PROVE info'[d].fd # None
    BY <1>2, <2>1, <2>2, NoRevival, AliveHasFd, ReactorAssumption DEF Fds
  <2>3. \A d \in Conns : sock'[d].interest # None => info'[d].fd # None
    BY <1>2, <2>1, SocketsKept, Zenon DEF Accepted
  <2>4. \A f \in Fds : file'[f] # None => info'[file'[f]].fd = f
    BY <1>2, <2>1, TablesShrink, Zenon DEF Accepted, TypeOK, MaybeConn
  <2>5. \A f \in Fds : clientMap'[f] # None => info'[clientMap'[f]].fd = f
    BY <1>2, <2>1, TablesShrink, Zenon DEF Accepted, TypeOK, MaybeConn
  <2>6. /\ \A i \in DOMAIN main.ret : main.ret[i].conn \in Conns
        /\ \A i \in DOMAIN cliQue : cliQue[i].conn \in Conns
        /\ \A i \in DOMAIN cmdQue : cmdQue[i].conn \in Conns
    <3>1. main.ret \in Seq(Returned) /\ cliQue \in Seq(Returned) /\ cmdQue \in Seq(Unit)
      BY DEF TypeOK, Main
    <3>2. /\ \A i \in DOMAIN main.ret : main.ret[i] \in Returned
          /\ \A i \in DOMAIN cliQue : cliQue[i] \in Returned
          /\ \A i \in DOMAIN cmdQue : cmdQue[i] \in Unit
      BY <3>1
    <3> QED BY <3>2 DEF Returned, Unit
  <2>7. \A i \in DOMAIN main'.ret : info'[main'.ret[i].conn].fd # None
    <3>1. main'.ret \in Seq(Returned)
      BY DEF TypeOK, Main
    <3>2. \A i \in DOMAIN main'.ret : main'.ret[i] \in Returned
      BY <3>1
    <3>3. \A i \in DOMAIN main'.ret : main'.ret[i].conn \in Conns
      BY <3>2 DEF Returned
    <3> QED BY <2>2, <3>3 DEF Alive
  <2>8. \A i \in DOMAIN cliQue' : info'[cliQue'[i].conn].fd # None
    BY <2>1, <2>6, QueuesGrow DEF Accepted
  <2>9. \A i \in DOMAIN cmdQue' : info'[cmdQue'[i].conn].fd # None
    <3>1. \A t \in IoThreads : io[t].conn # None =>
            io[t].conn \in Conns /\ info[io[t].conn].fd # None
      BY Zenon DEF Accepted, TypeOK, Worker, MaybeConn
    <3>2. \A i \in DOMAIN cmdQue : info[cmdQue[i].conn].fd # None
      BY DEF Accepted
    <3> QED BY <2>1, <2>6, <3>1, <3>2, QueuesGrow
  <2>10. /\ \A t \in IoThreads : io'[t].conn # None => info'[io'[t].conn].fd # None
         /\ exec'.conn # None => info'[exec'.conn].fd # None
    <3>1. /\ \A t \in IoThreads : io'[t].conn # None => io'[t].conn \in Conns
          /\ exec'.conn # None => exec'.conn \in Conns
      BY DEF TypeOK, Worker, Executor, MaybeConn
    <3> QED BY <2>2, <3>1 DEF Alive
  <2> QED BY <2>3, <2>4, <2>5, <2>7, <2>8, <2>9, <2>10 DEF Accepted
<1> QED BY <1>1, <1>2

\* Every step keeps the structural part of the invariant.
LEMMA StructureStep ==
    ASSUME Structure, Next
    PROVE  Structure'
BY TypeStep, LocalsStep, RoomStep, WaitingStep, AcceptedStep, UntouchedStep DEF Structure

\* At most one io thread works, the one that has cli_mtx_.
LEMMA OneWorks ==
    ASSUME Locals, NEW t \in IoThreads, NEW u \in IoThreads,
           io[t].pc # "idle", io[u].pc # "idle"
    PROVE  t = u
BY DEF Locals

\* Only the client Accept makes is referred to anew.
LEMMA AcceptMakesOne ==
    ASSUME TypeOK, Waiting, Accept, NEW d \in Conns, Alive(d)', info[d].fd # None
    PROVE  Alive(d)
<1>1. PICK c \in Conns, f \in Fds : Accepts(c, f) /\ info[c].fd = None
  BY AcceptIs
<1>2. d # c /\ main'.ret = main.ret
  BY <1>1 DEF Accepts, TypeOK, Main
<1>3. \A g \in Fds : clientMap'[g] = d => clientMap[g] = d
  BY <1>1, <1>2 DEF Accepts, TypeOK
<1> QED BY <1>1, <1>2, <1>3 DEF Accepts, Alive

(***************************************************************************)
(* Waiting clients keep their descriptors.                                 *)
(***************************************************************************)
\* What the command thread is doing for a client.
Serving(c) == IF exec.conn = c THEN exec.pc ELSE "idle"

\* The account of a client that waits for its replies: with `size' segments to
\* a request, the segments sent are in requests exported, in recv_buffer_ or in
\* the socket; the replies to the requests executed have been received, or
\* are in the socket or in send_buffer_; a request is begun when the replies to
\* all before it have been received, and so is hanging up.
Account(size, p, s, i, n, at) ==
    /\ i.parsed * size + i.recv + s.rx = p.sent * size + p.part
    /\ i.recv < size /\ p.part < size
    /\ n <= i.parsed /\ (at # "idle" => n # 0)
    /\ p.got + Len(s.tx) + Len(i.send) + (IF at = "append" THEN ReplyLen ELSE 0) = ReplyLen * n
    /\ at = "enable" => Len(i.send) = ReplyLen
    /\ ReplyLen * p.sent <= p.got + ReplyLen
    /\ p.part # 0 \/ p.closed => ReplyLen * p.sent <= p.got
    /\ p.closed => p.part = 0

\* The account holds, and no reset has come.
Accounted(c) ==
    /\ Account(load.fragments, client[c], sock[c], info[c], executed[c], Serving(c))
    /\ ~ sock[c].reset

\* An exported request of c has no reply, or one that is not announced.
Fresh(c) == executed[c] < info[c].parsed \/ exec.conn = c

\* The event an io thread handles in each of its states.
Kind(e) == IF e = "IN" THEN {"IN", "push"} ELSE {"OUT", "sent", "enable"}

\* Where the events of a client are: with an io thread, at a place of
\* cli_que_, or in what epoll_wait reported.
AtIo(c, e) == \E t \in IoThreads : io[t].conn = c /\ io[t].pc \in Kind(e)
AtQue(c, e, k) == k \in DOMAIN cliQue /\ cliQue[k].conn = c /\ cliQue[k].evt = e
AtMain(c, e) ==
    \/ \E k \in DOMAIN main.ret : main.next <= k /\ main.ret[k].conn = c /\ main.ret[k].evt = e
    \/ \E k \in DOMAIN main.evts : main.evts[k].fd = info[c].fd /\ main.evts[k].evt = e

\* An event of the client has been reported and not handled to its end.
Flies(c, e) == AtIo(c, e) \/ (\E k \in DOMAIN cliQue : AtQue(c, e, k)) \/ AtMain(c, e)

\* An event d of the client is handled before an event e of its.
Before(c, d, e) ==
    \/ AtIo(c, d) /\ \E k \in DOMAIN cliQue : AtQue(c, e, k)
    \/ AtIo(c, d) /\ AtMain(c, e)
    \/ \E k, l \in DOMAIN cliQue : k < l /\ AtQue(c, d, k) /\ AtQue(c, e, l)
    \/ \E k \in DOMAIN cliQue : AtQue(c, d, k) /\ AtMain(c, e)

\* While a reply is not announced epoll is asked for input only, and no event
\* that says the socket can be written is under way.  Input that is under
\* way when epoll is asked for output has a whole reply in send_buffer_.  While
\* epoll is asked for input no input event is ahead of an output event, and the
\* other way round.
EventsInOrder(c) ==
    /\ Fresh(c) => sock[c].interest = "IN" /\ ~ Flies(c, "OUT")
    /\ sock[c].interest = "OUT" /\ Flies(c, "IN") => Len(info[c].send) = ReplyLen
    /\ sock[c].interest = "IN" => ~ Before(c, "IN", "OUT")
    /\ sock[c].interest = "OUT" => ~ Before(c, "OUT", "IN")

\* The descriptor leads to the client.  It is in client_map_ and watched, or
\* the client has hung up, is watched no more, and no report names it.
Registered(c) ==
    /\ Named(c) = c
    /\ clientMap[info[c].fd] = c => sock[c].interest # None
    /\ clientMap[info[c].fd] # c =>
         /\ client[c].closed /\ sock[c].interest = None
         /\ \A k \in DOMAIN main.evts : main.evts[k].fd # info[c].fd

\* A report names a descriptor once, as a queue of epoll has a socket once, and
\* so does the list of clients that the main thread makes of it.
Batch ==
    /\ main.pc = "wait" => main.evts = <<>> /\ main.ret = <<>> 
    /\ main.pc = "handle" => main.evts = <<>>
    /\ \A i, j \in DOMAIN ready : ready[i] = ready[j] => i = j
    /\ \A i, j \in DOMAIN main.evts :
         main.evts[i].fd # Listen /\ main.evts[i].fd = main.evts[j].fd => i = j
    /\ \A i, j \in DOMAIN main.ret : main.ret[i].conn = main.ret[j].conn => i = j
    /\ \A i \in DOMAIN main.ret, j \in DOMAIN main.evts :
         main.evts[j].fd # info[main.ret[i].conn].fd

\* Every client that is in use, or has never been accepted, has its account in
\* order; one in use its events and its registration as well.
Kept ==
    \A c \in Conns :
      /\ Alive(c) \/ info[c].fd = None => Accounted(c)
      /\ Alive(c) => EventsInOrder(c) /\ Registered(c)

\* The invariant of clients that wait.
WInv == Batch /\ (Waits => Kept)

\* Multiples of a positive number.
LEMMA Multiples ==
    ASSUME NEW k \in Nat \ {0}, NEW a \in Nat, NEW b \in Nat
    PROVE  /\ k * a \in Nat /\ k * (a + 1) = k * a + k
           /\ a <= b => k * a <= k * b
           /\ a < b => k * a + k <= k * b
<1>1. k * a \in Nat /\ k * (a + 1) = k * a + k
  OBVIOUS
<1>2. ASSUME a <= b PROVE k * a <= k * b
  <2>1. PICK m \in Nat : b = a + m
    <3>1. b - a \in Nat /\ b = a + (b - a)
      BY <1>2
    <3> QED BY <3>1
  <2>2. k * b = k * a + k * m /\ k * m \in Nat
    BY <2>1
  <2> QED BY <1>1, <2>2
<1>3. ASSUME a < b PROVE k * a + k <= k * b
  <2>1. PICK m \in Nat : b = (a + 1) + m
    <3>1. b - (a + 1) \in Nat /\ b = (a + 1) + (b - (a + 1))
      BY <1>3
    <3> QED BY <3>1
  <2>2. k * b = (k * a + k) + k * m /\ k * m \in Nat
    BY <2>1
  <2> QED BY <1>1, <2>2
<1> QED BY <1>1, <1>2, <1>3

\* Division with remainder.
LEMMA Division ==
    ASSUME NEW k \in Nat \ {0}, NEW a \in Nat
    PROVE  /\ a \div k \in Nat /\ a % k \in Nat /\ a % k < k
           /\ a = k * (a \div k) + (a % k)
<1>1. a % k \in 0..k - 1
  OBVIOUS
<1>2. a = k * (a \div k) + (a % k)
  OBVIOUS
<1>3. a \div k \in Nat
  OBVIOUS
<1> QED BY <1>1, <1>2, <1>3

\* A client that has all replies to what it has had exported: nothing is on
\* its way.
LEMMA Settled ==
    ASSUME NEW size \in Nat \ {0}, NEW p \in Program, NEW s \in Socket, NEW i \in ClientInfo,
           NEW n \in Nat, NEW at \in ExecPc, Account(size, p, s, i, n, at),
           ReplyLen * i.parsed <= p.got
    PROVE  Len(s.tx) = 0 /\ Len(i.send) = 0 /\ n = i.parsed /\ at = "idle"
<1> DEFINE k == ReplyLen
           m == i.parsed
           a == Len(s.tx)
           b == Len(i.send)
           g == p.got
<1>1. k \in Nat \ {0} /\ m \in Nat /\ a \in Nat /\ b \in Nat /\ g \in Nat
  BY ReactorAssumption DEF Program, Socket, ClientInfo
<1>2. n <= m /\ k * m <= g /\ (at = "enable" => b = k)
  BY DEF Account
<1>3. g + a + b + (IF at = "append" THEN k ELSE 0) = k * n
  BY DEF Account
<1> HIDE DEF k, m, a, b, g
<1>4. /\ k * n \in Nat /\ k * m \in Nat /\ k * n <= k * m
      /\ n < m => k * n + k <= k * m
  BY <1>1, <1>2, Multiples
<1>5. CASE at = "append"
  BY <1>1, <1>2, <1>3, <1>4, <1>5
<1>6. CASE at # "append"
  <2>1. a = 0 /\ b = 0 /\ n = m
    BY <1>1, <1>2, <1>3, <1>4, <1>6
  <2> QED BY <1>1, <1>2, <1>6, <2>1 DEF ExecPc, a, b, m
<1> QED BY <1>5, <1>6

\* What has been exported was sent; a client with segments that are not
\* exported has all its replies, and so has one that hung up.
LEMMA Exported ==
    ASSUME NEW size \in Nat \ {0}, NEW p \in Program, NEW s \in Socket, NEW i \in ClientInfo,
           NEW n \in Nat, NEW at \in ExecPc, Account(size, p, s, i, n, at)
    PROVE  /\ i.parsed <= p.sent
           /\ s.rx # 0 \/ i.recv # 0 \/ p.part # 0 \/ p.closed => ReplyLen * i.parsed <= p.got
           /\ p.closed => s.rx = 0
<1> DEFINE k == ReplyLen
           m == i.parsed
           r == i.recv
           x == s.rx
           e == p.sent
           q == p.part
           g == p.got
<1>1. /\ k \in Nat \ {0} /\ m \in Nat /\ r \in Nat /\ x \in Nat /\ e \in Nat /\ q \in Nat
      /\ g \in Nat
  BY ReactorAssumption DEF Program, Socket, ClientInfo
<1>2. m * size + r + x = e * size + q /\ q < size
  BY DEF Account
<1>3. k * e <= g + k /\ (q # 0 \/ p.closed => k * e <= g)
  BY DEF Account
<1> HIDE DEF k, m, r, x, e, q, g
<1>4. /\ e < m => size * e + size <= size * m
      /\ size * e = e * size /\ size * m = m * size /\ size * e \in Nat /\ size * m \in Nat
  BY <1>1, Multiples
<1>5. m <= e
  <2>1. CASE e < m
    BY <1>1, <1>2, <1>4, <2>1
  <2> QED BY <1>1, <2>1
<1>6. k * m \in Nat /\ k * e \in Nat /\ k * m <= k * e /\ (m < e => k * m + k <= k * e)
  BY <1>1, <1>5, Multiples
<1>7. ASSUME x # 0 \/ r # 0 \/ q # 0 \/ p.closed PROVE k * m <= g
  <2>1. CASE m < e
    BY <1>1, <1>3, <1>6, <2>1
  <2>2. CASE q # 0 \/ p.closed
    BY <1>1, <1>3, <1>6, <2>2
  <2>3. CASE m = e /\ q = 0
    BY <1>1, <1>2, <1>4, <1>7, <2>2, <2>3
  <2> QED BY <1>1, <1>5, <2>1, <2>2, <2>3
<1>8. ASSUME p.closed PROVE x = 0
  <2>1. k * e <= g /\ q = 0 /\ k * m <= g
    BY <1>3, <1>7, <1>8 DEF Account, q
  <2>2. n = m /\ g = k * n
    <3>1. Len(s.tx) = 0 /\ Len(i.send) = 0 /\ n = m /\ at = "idle"
      BY <2>1, Settled DEF k, m, g
    <3>2. g + Len(s.tx) + Len(i.send) + (IF at = "append" THEN k ELSE 0) = k * n
      BY Zenon DEF Account, k, g
    <3> QED BY <1>1, <3>1, <3>2
  <2>3. m = e
    BY <1>1, <1>5, <1>6, <2>1, <2>2
  <2> QED BY <1>1, <1>2, <1>4, <2>1, <2>3
<1> QED BY <1>5, <1>7, <1>8 DEF k, m, r, x, e, q, g

\* The account is of these fields only.
LEMMA AccountSame ==
    ASSUME NEW size, NEW p, NEW s, NEW i, NEW n, NEW at, Account(size, p, s, i, n, at),
           NEW r, NEW j, r.rx = s.rx, r.tx = s.tx,
           j.recv = i.recv, j.parsed = i.parsed, j.send = i.send
    PROVE  Account(size, p, r, j, n, at)
BY Zenon DEF Account

\* A segment arrives.
LEMMA AccountSegment ==
    ASSUME NEW size \in Nat \ {0}, NEW p \in Program, NEW s \in Socket, NEW i \in ClientInfo,
           NEW n \in Nat, NEW at \in ExecPc, Account(size, p, s, i, n, at),
           ~ p.closed, p.part > 0 \/ p.sent < p.got \div ReplyLen + 1,
           NEW q \in Program, NEW r \in Socket,
           q.part = (p.part + 1) % size, q.got = p.got, q.closed = p.closed,
           q.sent = IF p.part + 1 = size THEN p.sent + 1 ELSE p.sent,
           r.rx = s.rx + 1, r.tx = s.tx
    PROVE  Account(size, q, r, i, n, at)
<1>1. ReplyLen \in Nat \ {0}
  BY ReactorAssumption
<1>2. /\ p.sent \in Nat /\ p.part \in Nat /\ p.got \in Nat /\ q.part \in Nat /\ s.rx \in Nat
      /\ i.parsed \in Nat /\ i.recv \in Nat
  BY DEF Program, Socket, ClientInfo
<1>3. /\ i.parsed * size + i.recv + s.rx = p.sent * size + p.part /\ p.part < size
      /\ ReplyLen * p.sent <= p.got + ReplyLen
      /\ p.part # 0 \/ p.closed => ReplyLen * p.sent <= p.got
  BY DEF Account
<1>4. q.part < size /\ q.sent * size + q.part = p.sent * size + p.part + 1
  <2>1. CASE p.part + 1 = size
    <3>1. (p.part + 1) % size = 0
      BY <1>2, <2>1
    <3>2. (p.sent + 1) * size = p.sent * size + size /\ p.sent * size \in Nat
      BY <1>2
    <3> QED BY <1>2, <2>1, <3>1, <3>2
  <2>2. CASE p.part + 1 # size
    <3>1. p.part + 1 \in 0..size - 1
      <4>1. p.part < size
        BY <1>3
      <4>2. \A m \in Nat : m < size /\ m + 1 # size => m + 1 \in 0..size - 1
        OBVIOUS
      <4> QED BY <1>2, <2>2, <4>1, <4>2
    <3>2. \A m \in 0..size - 1 : m % size = m
      OBVIOUS
    <3>3. p.sent * size \in Nat
      BY <1>2
    <3> QED BY <1>2, <2>2, <3>1, <3>2, <3>3
  <2> QED BY <2>1, <2>2
<1>5. i.parsed * size + i.recv + r.rx = q.sent * size + q.part
  <2>1. i.parsed * size \in Nat /\ p.sent * size \in Nat
    BY <1>2
  <2> QED BY <1>2, <1>3, <1>4, <2>1
<1>6. ReplyLen * p.sent <= p.got
  <2>1. CASE p.part > 0
    BY <1>2, <1>3, <2>1
  <2>2. CASE p.sent < p.got \div ReplyLen + 1
    <3> DEFINE v == p.got \div ReplyLen
    <3>1. v \in Nat /\ ReplyLen * v <= p.got
      BY <1>1, <1>2
    <3>2. p.sent <= v
      BY <1>2, <2>2, <3>1
    <3> HIDE DEF v
    <3>3. ReplyLen * p.sent <= ReplyLen * v /\ ReplyLen * p.sent \in Nat /\ ReplyLen * v \in Nat
      BY <1>1, <1>2, <3>1, <3>2, Multiples
    <3> QED BY <1>2, <3>1, <3>3
  <2> QED BY <2>1, <2>2
<1>7. ReplyLen * (p.sent + 1) = ReplyLen * p.sent + ReplyLen /\ ReplyLen * p.sent \in Nat
  BY <1>1, <1>2, Multiples
<1>8. ReplyLen * q.sent <= q.got + ReplyLen
  BY <1>1, <1>2, <1>6, <1>7
<1>9. q.part # 0 \/ q.closed => ReplyLen * q.sent <= q.got
  <2>1. CASE p.part + 1 = size
    <3>1. q.part = 0
      BY <1>2, <2>1
    <3> QED BY <3>1
  <2>2. CASE p.part + 1 # size
    BY <1>6, <2>2
  <2> QED BY <2>1, <2>2
<1> QED BY <1>4, <1>5, <1>8, <1>9 DEF Account

\* The client program takes a unit of a reply; one that hung up has none to take.
LEMMA AccountReceive ==
    ASSUME NEW size \in Nat \ {0}, NEW p \in Program, NEW s \in Socket, NEW i \in ClientInfo,
           NEW n \in Nat, NEW at \in ExecPc, Account(size, p, s, i, n, at),
           s.tx # <<>>, NEW q, NEW r,
           q.part = p.part, q.got = p.got + 1, q.closed = p.closed, q.sent = p.sent,
           r.rx = s.rx, r.tx = Tail(s.tx)
    PROVE  Account(size, q, r, i, n, at)
<1>1. ReplyLen \in Nat \ {0} /\ p.got \in Nat /\ p.sent \in Nat /\ Len(i.send) \in Nat
  BY ReactorAssumption DEF Program, ClientInfo
<1>2. Len(s.tx) \in Nat \ {0} /\ Len(r.tx) = Len(s.tx) - 1
  BY HeadTail DEF Socket
<1>3. ReplyLen * p.sent \in Nat
  BY <1>1
<1>4. p.got + Len(s.tx) + Len(i.send) = q.got + Len(r.tx) + Len(i.send)
  BY <1>1, <1>2
<1>5. /\ ReplyLen * q.sent <= q.got + ReplyLen
      /\ q.part # 0 \/ q.closed => ReplyLen * q.sent <= q.got
  <2>1. /\ ReplyLen * p.sent <= p.got + ReplyLen
        /\ p.part # 0 \/ p.closed => ReplyLen * p.sent <= p.got
    BY DEF Account
  <2> QED BY <1>1, <1>3, <2>1
<1> QED BY <1>4, <1>5 DEF Account

\* The client hangs up.
LEMMA AccountClose ==
    ASSUME NEW size \in Nat \ {0}, NEW p \in Program, NEW s, NEW i,
           NEW n, NEW at, Account(size, p, s, i, n, at),
           p.part = 0, p.got = p.sent * ReplyLen, NEW q,
           q.part = p.part, q.got = p.got, q.sent = p.sent
    PROVE  Account(size, q, s, i, n, at)
<1>1. ReplyLen * p.sent <= p.got
  BY ReactorAssumption DEF Program
<1> QED BY <1>1 DEF Account

\* Read takes what has arrived, ExportMessages the whole requests.
LEMMA AccountRead ==
    ASSUME NEW size \in Nat \ {0}, NEW p, NEW s \in Socket, NEW i \in ClientInfo,
           NEW n \in Nat, NEW at, Account(size, p, s, i, n, at), NEW r, NEW j,
           r.rx = 0, r.tx = s.tx, j.recv = (i.recv + s.rx) % size,
           j.parsed = i.parsed + (i.recv + s.rx) \div size, j.send = i.send
    PROVE  Account(size, p, r, j, n, at)
<1> DEFINE x == i.recv + s.rx
           v == x \div size
           w == x % size
<1>0. i.parsed \in Nat /\ i.recv \in Nat /\ s.rx \in Nat
  BY DEF Socket, ClientInfo
<1>1. x \in Nat
  BY <1>0
<1>2. v \in Nat /\ w \in Nat /\ w < size /\ x = size * v + w
  BY <1>1, Division
<1>3. i.parsed * size + i.recv + s.rx = i.parsed * size + x /\ i.parsed * size \in Nat
  BY <1>0
<1> HIDE DEF x, v, w
<1>4. (i.parsed + v) * size = i.parsed * size + size * v /\ size * v \in Nat
  BY <1>0, <1>2
<1>5. j.parsed = i.parsed + v /\ j.recv = w
  BY DEF v, w, x
<1>8. j.parsed * size + j.recv + r.rx = i.parsed * size + i.recv + s.rx
  BY <1>1, <1>2, <1>3, <1>4, <1>5
<1>6. n <= i.parsed => n <= j.parsed
  BY <1>0, <1>2, <1>5
<1>7. j.recv < size
  BY <1>2, <1>5
<1> QED BY <1>6, <1>7, <1>8 DEF Account

\* Send moves units from send_buffer_ to the socket.
LEMMA AccountSend ==
    ASSUME NEW size, NEW p \in Program, NEW s \in Socket, NEW i \in ClientInfo,
           NEW n, NEW at, Account(size, p, s, i, n, at), at # "enable",
           NEW r \in Socket, NEW j \in ClientInfo, NEW m \in Nat,
           r.rx = s.rx, Len(r.tx) = Len(s.tx) + m, j.recv = i.recv, j.parsed = i.parsed,
           Len(j.send) + m = Len(i.send)
    PROVE  Account(size, p, r, j, n, at)
<1>1. /\ p.got \in Nat /\ Len(s.tx) \in Nat /\ Len(i.send) \in Nat /\ Len(j.send) \in Nat
  BY DEF Program, Socket, ClientInfo
<1>2. p.got + Len(r.tx) + Len(j.send) = p.got + Len(s.tx) + Len(i.send)
  BY <1>1
<1> QED BY <1>2 DEF Account

\* A request is executed.
LEMMA AccountPop ==
    ASSUME NEW size, NEW p \in Program, NEW s \in Socket, NEW i \in ClientInfo,
           NEW n \in Nat, Account(size, p, s, i, n, "idle"), n < i.parsed
    PROVE  Account(size, p, s, i, n + 1, "append")
<1>1. ReplyLen \in Nat \ {0}
  BY ReactorAssumption
<1>2. p.got \in Nat /\ Len(s.tx) \in Nat /\ Len(i.send) \in Nat /\ i.parsed \in Nat
  BY DEF Program, Socket, ClientInfo
<1>3. ReplyLen * (n + 1) = ReplyLen * n + ReplyLen /\ ReplyLen * n \in Nat
  BY <1>1, Multiples
<1>4. p.got + Len(s.tx) + Len(i.send) = ReplyLen * n
  BY <1>2 DEF Account
<1>5. p.got + Len(s.tx) + Len(i.send) + ReplyLen = ReplyLen * (n + 1)
  BY <1>1, <1>2, <1>3, <1>4
<1>6. n + 1 <= i.parsed /\ n + 1 # 0
  BY <1>2
<1> QED BY <1>5, <1>6 DEF Account

\* Its reply is appended to an empty send_buffer_.
LEMMA AccountAppend ==
    ASSUME NEW size \in Nat \ {0}, NEW p \in Program, NEW s \in Socket, NEW i \in ClientInfo,
           NEW n \in Nat, Account(size, p, s, i, n, "append"), NEW j \in ClientInfo,
           j.recv = i.recv, j.parsed = i.parsed, Len(j.send) = Len(i.send) + ReplyLen
    PROVE  Account(size, p, s, j, n, "enable")
<1> DEFINE k == ReplyLen
           a == Len(s.tx)
           b == Len(i.send)
           g == p.got
<1>1. k \in Nat \ {0} /\ a \in Nat /\ b \in Nat /\ g \in Nat /\ p.sent \in Nat /\ i.parsed \in Nat
  BY ReactorAssumption DEF Program, Socket, ClientInfo
<1>2. i.parsed <= p.sent
  BY Exported DEF ExecPc
<1>3. n <= i.parsed /\ g + a + b + k = k * n /\ k * p.sent <= g + k
  BY DEF Account
<1>4. n <= p.sent
  BY <1>1, <1>2, <1>3
<1> HIDE DEF k, a, b, g
<1>5. k * n <= k * p.sent /\ k * n \in Nat /\ k * p.sent \in Nat
  BY <1>1, <1>4, Multiples
<1>6. b = 0
  BY <1>1, <1>3, <1>5
<1>7. Len(j.send) = ReplyLen /\ p.got + Len(s.tx) + Len(j.send) + 0 = ReplyLen * n
  BY <1>1, <1>3, <1>6 DEF k, a, b, g
<1> QED BY <1>7 DEF Account

\* Once it is announced no exported request is without a reply.
LEMMA AccountAnnounce ==
    ASSUME NEW size \in Nat \ {0}, NEW p \in Program, NEW s \in Socket, NEW i \in ClientInfo,
           NEW n \in Nat, Account(size, p, s, i, n, "enable")
    PROVE  Account(size, p, s, i, n, "idle") /\ n = i.parsed
<1> DEFINE k == ReplyLen
           a == Len(s.tx)
           g == p.got
<1>1. k \in Nat \ {0} /\ a \in Nat /\ g \in Nat /\ p.sent \in Nat /\ i.parsed \in Nat
  BY ReactorAssumption DEF Program, Socket, ClientInfo
<1>2. i.parsed <= p.sent
  BY Exported DEF ExecPc
<1>3. n <= i.parsed /\ g + a + k + 0 = k * n /\ k * p.sent <= g + k
  BY DEF Account
<1> HIDE DEF k, a, g
<1>4. n < p.sent => k * n + k <= k * p.sent
  BY <1>1, Multiples
<1>5. k * n \in Nat /\ k * p.sent \in Nat
  BY <1>1
<1>6. n = i.parsed
  BY <1>1, <1>2, <1>3, <1>4, <1>5
<1>7. Account(size, p, s, i, n, "idle")
  BY DEF Account
<1> QED BY <1>6, <1>7

\* The elements of a queue stay distinct when one is added that is not among
\* them.
LEMMA AppendDistinct ==
    ASSUME NEW S, NEW q \in Seq(S), NEW e \in S, \A i \in DOMAIN q : q[i] # e,
           \A i, j \in DOMAIN q : q[i] = q[j] => i = j
    PROVE  \A i, j \in DOMAIN Append(q, e) : Append(q, e)[i] = Append(q, e)[j] => i = j
<1>1. DOMAIN Append(q, e) = 1..Len(q) + 1 /\ DOMAIN q = 1..Len(q) /\ Len(q) \in Nat
  OBVIOUS
<1>2. Append(q, e)[Len(q) + 1] = e /\ \A i \in 1..Len(q) : Append(q, e)[i] = q[i]
  OBVIOUS
<1> DEFINE r == Append(q, e)
<1> HIDE DEF r
<1>3. ASSUME NEW i \in 1..Len(q) + 1, NEW j \in 1..Len(q) + 1, r[i] = r[j] PROVE i = j
  BY <1>1, <1>2, <1>3 DEF r
<1> QED BY <1>1, <1>3 DEF r

\* Elements that differ still differ when some are skipped.
LEMMA PickDistinct ==
    ASSUME NEW S, NEW s \in Seq(S), NEW I,
           \A i, j \in DOMAIN s : s[i] = s[j] => i = j
    PROVE  \A i, j \in DOMAIN Pick(s, I) : Pick(s, I)[i] = Pick(s, I)[j] => i = j
<1> DEFINE p == Picked(s, I)
           T == {n \in 0..Len(s) : \A i, j \in DOMAIN p[n] : p[n][i] = p[n][j] => i = j}
<1>1. /\ p \in [0..Len(s) -> Seq(S)] /\ p[0] = <<>> /\ Len(s) \in Nat
      /\ \A i \in 1..Len(s) : p[i] = IF i \in I THEN Append(p[i - 1], s[i]) ELSE p[i - 1]
  BY PickedDef
<1>2. \A n \in 0..Len(s) : Elements(p[n]) = {s[i] : i \in I \cap 1..n}
  BY PickedElements, Zenon
<1> HIDE DEF p
<1>3. 0 \in T
  BY <1>1
<1>4. ASSUME NEW n \in 0..Len(s), n \in T, n < Len(s) PROVE n + 1 \in T
  <2>1. /\ n + 1 \in 1..Len(s) /\ n + 1 \in 0..Len(s) /\ n \in Nat /\ (n + 1) - 1 = n
        /\ p[n] \in Seq(S) /\ s[n + 1] \in S
    BY <1>1, <1>4
  <2>2. CASE n + 1 \in I
    <3>1. p[n + 1] = Append(p[n], s[n + 1])
      BY <1>1, <2>1, <2>2, Zenon
    <3>2. ASSUME NEW i \in DOMAIN p[n] PROVE p[n][i] # s[n + 1]
      <4>1. p[n][i] \in Elements(p[n])
        BY <2>1 DEF Elements
      <4>2. PICK k \in I \cap 1..n : p[n][i] = s[k]
        BY <1>2, <4>1, Zenon
      <4>3. k \in DOMAIN s /\ n + 1 \in DOMAIN s /\ k # n + 1
        BY <1>1, <2>1
      <4> QED BY <4>2, <4>3
    <3> DEFINE q == p[n]
               e == s[n + 1]
    <3>3. /\ q \in Seq(S) /\ e \in S /\ \A i \in DOMAIN q : q[i] # e
          /\ \A i, j \in DOMAIN q : q[i] = q[j] => i = j
      BY <1>4, <2>1, <3>2
    <3> HIDE DEF q, e
    <3>4. \A i, j \in DOMAIN Append(q, e) : Append(q, e)[i] = Append(q, e)[j] => i = j
      BY <3>3, AppendDistinct
    <3> QED BY <2>1, <3>1, <3>4, Zenon DEF q, e
  <2>3. CASE n + 1 \notin I
    <3>1. p[n + 1] = p[n]
      BY <1>1, <2>1, <2>3
    <3> QED BY <1>4, <2>1, <3>1
  <2> QED BY <2>2, <2>3
<1>5. 0..Len(s) \subseteq T
  <2> HIDE DEF T
  <2> QED BY <1>1, <1>3, <1>4, InductUpTo, Zenon
<1>6. Len(s) \in T
  BY <1>1, <1>5
<1> QED BY <1>6 DEF Pick, p

\* The events epoll_wait reports: of sockets that are on epoll and whose
\* descriptor is open, as they are, and none twice.
LEMMA EpollIs ==
    ASSUME Structure, Batch, EpollWait
    PROVE  /\ main'.pc = "lookup" /\ main'.ret = <<>> /\ main'.next = 1
           /\ \A k \in DOMAIN main'.evts :
                \/ main'.evts[k].fd = Listen
                \/ \E x \in Conns : /\ Named(x) = x /\ sock[x].interest # None
                                    /\ main'.evts[k].fd = info[x].fd
                                    /\ main'.evts[k].evt = sock[x].interest
           /\ \A i, j \in DOMAIN main'.evts :
                main'.evts[i].fd # Listen /\ main'.evts[i].fd = main'.evts[j].fd => i = j
           /\ ready' = <<Listen>> \/ ready' = <<>>
<1> DEFINE I == {i \in DOMAIN ready : Reports(ready[i])}
           pending == Pick(ready, I)
           ev(x) == [fd |-> FdOf(x), evt |-> IF x = Listen THEN "IN" ELSE sock[x].interest]
           evts == [i \in DOMAIN pending |-> ev(pending[i])]
<1>1. /\ ready \in Seq(Item)
      /\ \A i, j \in DOMAIN ready : ready[i] = ready[j] => i = j
  BY Zenon DEF Structure, TypeOK, Batch
<1>2. /\ pending \in Seq(Item)
      /\ \A j \in 1..Len(pending) : \E i \in I \cap 1..Len(ready) : pending[j] = ready[i]
  <2> HIDE DEF I
  <2> QED BY <1>1, PickElements
<1>3. \A i, j \in DOMAIN pending : pending[i] = pending[j] => i = j
  <2> HIDE DEF I
  <2> QED BY <1>1, PickDistinct
<1>4. main' = [MainIdle EXCEPT !.pc = "lookup", !.evts = evts]
  BY DEF EpollWait
<1>5. ready' = <<Listen>> \/ ready' = <<>>
  BY Zenon DEF EpollWait
<1>6. ASSUME NEW k \in DOMAIN pending
      PROVE  \/ pending[k] = Listen
             \/ pending[k] \in Conns /\ Named(pending[k]) = pending[k] /\ sock[pending[k]].interest # None
  <2>1. PICK i \in I \cap 1..Len(ready) : pending[k] = ready[i]
    <3> HIDE DEF pending, I
    <3> QED BY <1>2, <1>6
  <2>2. ready[i] \in Item /\ Reports(ready[i])
    BY <1>1, <2>1
  <2> HIDE DEF pending
  <2> QED BY <2>1, <2>2, ReactorAssumption DEF Reports, Fires, Item
<1> HIDE DEF pending, I
<1>7. \A k \in DOMAIN pending :
        /\ evts[k].fd = FdOf(pending[k])
        /\ evts[k].evt = IF pending[k] = Listen THEN "IN" ELSE sock[pending[k]].interest
  BY Zenon
<1>8. DOMAIN evts = DOMAIN pending
  OBVIOUS
<1>9. \A k \in DOMAIN evts :
        \/ evts[k].fd = Listen
        \/ \E x \in Conns : /\ Named(x) = x /\ sock[x].interest # None
                            /\ evts[k].fd = info[x].fd /\ evts[k].evt = sock[x].interest
  <2> HIDE DEF evts
  <2> SUFFICES ASSUME NEW k \in DOMAIN pending
               PROVE  \/ evts[k].fd = Listen
                      \/ \E x \in Conns : /\ Named(x) = x /\ sock[x].interest # None
                                          /\ evts[k].fd = info[x].fd /\ evts[k].evt = sock[x].interest
    BY <1>8
  <2>1. CASE pending[k] = Listen
    BY <1>7, <2>1, Zenon DEF FdOf
  <2>2. CASE pending[k] # Listen
    BY <1>6, <1>7, <2>2, Zenon DEF FdOf
  <2> QED BY <2>1, <2>2
<1>10. ASSUME NEW i \in DOMAIN pending, NEW j \in DOMAIN pending,
              evts[i].fd # Listen, evts[i].fd = evts[j].fd
       PROVE  i = j
  <2> HIDE DEF evts
  <2>1. pending[i] # Listen /\ pending[j] # Listen
    BY <1>7, <1>10 DEF FdOf
  <2>2. info[pending[i]].fd = info[pending[j]].fd
    BY <1>7, <1>10, <2>1 DEF FdOf
  <2>3. pending[i] = pending[j]
    BY <1>6, <2>1, <2>2 DEF Named
  <2> QED BY <1>3, <2>3
<1>11. main'.pc = "lookup" /\ main'.ret = <<>> /\ main'.next = 1 /\ main'.evts = evts
  <2> HIDE DEF evts
  <2> QED BY <1>4 DEF MainIdle
<1> HIDE DEF evts
<1> QED BY <1>5, <1>8, <1>9, <1>10, <1>11

\* An item is on the ready list once.
LEMMA EnqueueOnce ==
    ASSUME TypeOK, Batch, NEW x \in Item
    PROVE  \A i, j \in DOMAIN Enqueue(x) : Enqueue(x)[i] = Enqueue(x)[j] => i = j
<1>1. ready \in Seq(Item) /\ \A i, j \in DOMAIN ready : ready[i] = ready[j] => i = j
  BY Zenon DEF TypeOK, Batch
<1>2. CASE In(x, ready)
  BY <1>1, <1>2 DEF Enqueue
<1>3. CASE ~ In(x, ready)
  <2>1. \A i \in DOMAIN ready : ready[i] # x
    BY <1>3 DEF In
  <2>2. Enqueue(x) = Append(ready, x)
    BY <1>3 DEF Enqueue
  <2> QED BY <1>1, <2>1, <2>2, AppendDistinct, Zenon
<1> QED BY <1>2, <1>3

\* What a step does to the ready list.
LEMMA ReadyGrows ==
    ASSUME Structure, Next
    PROVE  ready' = ready \/ EpollWait \/ \E x \in Item : ready' = Enqueue(x)
<1> USE DEF Item
<1>1. CASE \E c \in Conns : ClientStep(c)
  BY <1>1 DEF ClientStep, Connect, SendSegment, Receive, Close
<1>2. CASE Accept
  <2>1. Head(backlog) \in Conns
    BY <1>2 DEF Accept, Structure, TypeOK
  <2> QED BY <1>2, <2>1 DEF Accept
<1>3. ASSUME NEW f \in Fds, NEW i, Modify(f, i)
      PROVE  ready' = ready \/ \E x \in Item : ready' = Enqueue(x)
  <2>1. file[f] = None \/ file[f] \in Conns
    BY DEF Structure, TypeOK, MaybeConn
  <2> QED BY <1>3, <2>1 DEF Modify
<1>4. CASE ExecEnableSend
  BY <1>3, <1>4, Held, Zenon DEF ExecEnableSend, Structure, Locals
<1>5. ASSUME NEW t \in IoThreads, IoEnableRead(t)
      PROVE  ready' = ready \/ \E x \in Item : ready' = Enqueue(x)
  <2>1. info[io[t].conn].fd \in Fds
    BY <1>5, Works, Zenon DEF IoEnableRead, Structure
  <2> QED BY <1>3, <1>5, <2>1, Zenon DEF IoEnableRead
<1>6. ASSUME NEW t \in IoThreads, IoSendClosed(t)
      PROVE  ready' = ready \/ \E x \in Item : ready' = Enqueue(x)
  <2>1. Named(io[t].conn) \in Conns
    BY <1>6, Works DEF IoSendClosed, Structure
  <2> QED BY <1>6, <2>1, Zenon DEF IoSendClosed
<1> QED BY <1>1, <1>2, <1>4, <1>5, <1>6, Steps, Zenon DEF LookupClient, WaitReturns, Handle, RunReturns,
     IoStep, IoTake, IoWait, IoRead, IoReadNothing, IoReadBad, IoLogout, IoPush, IoPushed,
     IoSendNothing, IoSend, IoSendReset, IoSendBad, IoSent, ExecPop, ExecAppend

\* What LookupClient does, by name: f is the descriptor of the event, e what
\* it reports.
Looks(f, e) ==
    /\ main.pc = "lookup" /\ main.evts # <<>> /\ Head(main.evts).fd = f /\ Head(main.evts).evt = e
    /\ main'.pc = "lookup" /\ main'.evts = Tail(main.evts) /\ main'.next = main.next
    /\ \/ /\ clientMap[f] \in Conns /\ info[clientMap[f]].fd = f
          /\ main'.ret = Append(main.ret, [conn |-> clientMap[f], evt |-> e])
          /\ sock' = sock /\ file' = file
       \/ /\ clientMap[f] = None /\ main'.ret = main.ret
          /\ sock' = IF file[f] = None THEN sock ELSE [sock EXCEPT ![file[f]].interest = None]
          /\ file' = [file EXCEPT ![f] = None]

\* LookupClient is Looks of a descriptor.
LEMMA LookupIs ==
    ASSUME Structure, LookupClient
    PROVE  \E f \in Fds, e \in Interest : Looks(f, e)
<1> DEFINE f == Head(main.evts).fd
           e == Head(main.evts).evt
<1>1. f \in Fds /\ e \in Interest
  BY HeadEvent DEF Structure
<1>2. main \in Main /\ main.pc = "lookup" /\ main.evts # <<>>
  BY DEF LookupClient, Structure, TypeOK
<1>3. clientMap[f] \in Conns => info[clientMap[f]].fd = f
  BY <1>1, ReactorAssumption, Zenon DEF Structure, Accepted
<1>4. clientMap[f] \in Conns \/ clientMap[f] = None
  BY <1>1 DEF Structure, TypeOK, MaybeConn
<1>5. CASE clientMap[f] # None
  <2>1. /\ main' = [main EXCEPT !.evts = Tail(@),
                                !.ret = Append(@, [conn |-> clientMap[f], evt |-> e])]
        /\ sock' = sock /\ file' = file
    BY <1>5 DEF LookupClient
  <2>2. /\ main'.pc = main.pc /\ main'.evts = Tail(main.evts) /\ main'.next = main.next
        /\ main'.ret = Append(main.ret, [conn |-> clientMap[f], evt |-> e])
    BY <1>2, <2>1, Zenon DEF Main
  <2> HIDE DEF f, e
  <2>3. Looks(f, e)
    BY <1>2, <1>3, <1>4, <1>5, <2>1, <2>2, Zenon DEF Looks, f, e
  <2> QED BY <1>1, <2>3
<1>6. CASE clientMap[f] = None
  <2>1. /\ main' = [main EXCEPT !.evts = Tail(@)]
        /\ sock' = IF file[f] = None THEN sock ELSE [sock EXCEPT ![file[f]].interest = None]
        /\ file' = [file EXCEPT ![f] = None]
    BY <1>6 DEF LookupClient
  <2>2. /\ main'.pc = main.pc /\ main'.evts = Tail(main.evts) /\ main'.next = main.next
        /\ main'.ret = main.ret
    BY <1>2, <2>1, Zenon DEF Main
  <2> HIDE DEF f, e
  <2>3. Looks(f, e)
    BY <1>2, <1>6, <2>1, <2>2, Zenon DEF Looks, f, e
  <2> QED BY <1>1, <2>3
<1> QED BY <1>5, <1>6

\* What epoll_wait reported and Wait has not looked at, and what it returns,
\* are events of different clients.
BatchOnce ==
    /\ \A i, j \in DOMAIN main.evts :
         main.evts[i].fd # Listen /\ main.evts[i].fd = main.evts[j].fd => i = j
    /\ \A i, j \in DOMAIN main.ret : main.ret[i].conn = main.ret[j].conn => i = j
    /\ \A i \in DOMAIN main.ret, j \in DOMAIN main.evts :
         main.evts[j].fd # info[main.ret[i].conn].fd

\* Looking at an event moves it from the one to the other.
LEMMA BatchLookup ==
    ASSUME Structure, Batch, LookupClient
    PROVE  BatchOnce'
<1>1. PICK f \in Fds, e \in Interest : Looks(f, e)
  BY LookupIs
<1> DEFINE q == main.evts
           r == main.ret
<1>2. q \in Seq(Event) /\ q # <<>> /\ r \in Seq(Returned) /\ q[1].fd = f /\ 1 \in DOMAIN q
  BY <1>1 DEF Looks, Structure, TypeOK, Main
<1>3. main'.evts = Tail(q) /\ info' = info
  BY <1>1 DEF Looks, LookupClient
<1>4. f # Listen
  BY ReactorAssumption DEF Fds
<1>5. /\ \A i, j \in DOMAIN q : q[i].fd # Listen /\ q[i].fd = q[j].fd => i = j
      /\ \A i, j \in DOMAIN r : r[i].conn = r[j].conn => i = j
      /\ \A i \in DOMAIN r, j \in DOMAIN q : q[j].fd # info[r[i].conn].fd
  BY DEF Batch
<1> HIDE DEF q, r
<1>6. ASSUME NEW i \in DOMAIN Tail(q)
      PROVE  i + 1 \in DOMAIN q /\ Tail(q)[i] = q[i + 1] /\ i \in Nat /\ q[i + 1].fd # f
  <2>1. i + 1 \in DOMAIN q /\ Tail(q)[i] = q[i + 1] /\ i \in Nat /\ i + 1 # 1
    BY <1>2, TailIndex
  <2> QED BY <1>2, <1>4, <1>5, <2>1
<1>7. \A i, j \in DOMAIN Tail(q) : Tail(q)[i].fd # Listen /\ Tail(q)[i].fd = Tail(q)[j].fd => i = j
  <2> SUFFICES ASSUME NEW i \in DOMAIN Tail(q), NEW j \in DOMAIN Tail(q),
                      Tail(q)[i].fd # Listen, Tail(q)[i].fd = Tail(q)[j].fd
               PROVE  i = j
    OBVIOUS
  <2>1. i + 1 = j + 1 /\ i \in Nat /\ j \in Nat
    BY <1>5, <1>6
  <2> QED BY <2>1
<1>8. CASE main'.ret = r
  <2>1. \A i \in DOMAIN r, j \in DOMAIN Tail(q) : Tail(q)[j].fd # info[r[i].conn].fd
    BY <1>5, <1>6
  <2> QED BY <1>3, <1>5, <1>7, <1>8, <2>1 DEF BatchOnce
<1>9. ASSUME NEW c \in Conns, info[c].fd = f, main'.ret = Append(r, [conn |-> c, evt |-> e])
      PROVE  BatchOnce'
  <2> DEFINE x == [conn |-> c, evt |-> e]
  <2>1. x \in Returned /\ x.conn = c
    BY DEF Returned
  <2> HIDE DEF x
  <2>2. ASSUME NEW i \in DOMAIN r PROVE r[i].conn # c
    BY <1>2, <1>5, <1>9
  <2> DEFINE w == main'.ret
  <2>6. w = Append(r, x)
    BY <1>9 DEF x
  <2> HIDE DEF w
  <2>3. \A i \in DOMAIN w :
          (i \in DOMAIN r /\ w[i] = r[i]) \/ (i = Len(r) + 1 /\ w[i] = x)
    BY <1>2, <2>1, <2>6, AppendIndex
  <2>4. \A i, j \in DOMAIN w : w[i].conn = w[j].conn => i = j
    BY <1>5, <2>1, <2>2, <2>3
  <2>5. \A i \in DOMAIN w, j \in DOMAIN Tail(q) : Tail(q)[j].fd # info[w[i].conn].fd
    BY <1>5, <1>6, <1>9, <2>1, <2>3
  <2> QED BY <1>3, <1>7, <2>4, <2>5 DEF BatchOnce, w
<1> QED BY <1>1, <1>8, <1>9 DEF Looks, r

\* Every step keeps Batch.
LEMMA BatchStep ==
    ASSUME Structure, Batch, Next
    PROVE  Batch'
<1>1. \A i, j \in DOMAIN ready' : ready'[i] = ready'[j] => i = j
  <2>1. CASE ready' = ready
    BY <2>1 DEF Batch
  <2>2. CASE EpollWait
    <3>1. ready' = <<Listen>> \/ ready' = <<>>
      BY <2>2, EpollIs
    <3>2. CASE ready' = <<>>
      BY <3>2
    <3>3. CASE ready' = <<Listen>>
      BY <3>3
    <3> QED BY <3>1, <3>2, <3>3
  <2>3. ASSUME NEW x \in Item, ready' = Enqueue(x)
        PROVE  \A i, j \in DOMAIN ready' : ready'[i] = ready'[j] => i = j
    BY <2>3, EnqueueOnce DEF Structure
  <2> QED BY <2>1, <2>2, <2>3, ReadyGrows
<1>2. BatchOnce
  BY DEF Batch, BatchOnce
<1>3. /\ main \in Main /\ main.evts \in Seq(Event)
      /\ \A i \in DOMAIN main.ret : main.ret[i].conn \in Conns /\ info[main.ret[i].conn].fd # None
  <2>1. main.ret \in Seq(Returned) /\ main.evts \in Seq(Event) /\ main \in Main
    BY DEF Structure, TypeOK, Main
  <2>2. \A i \in DOMAIN main.ret : main.ret[i] \in Returned
    BY <2>1
  <2> QED BY <2>1, <2>2 DEF Returned, Structure, Accepted
<1>4. CASE /\ ~ Accept /\ main'.evts = main.evts /\ main'.ret = main.ret /\ main'.pc = main.pc
  <2>1. \A i \in DOMAIN main.ret : info'[main.ret[i].conn].fd = info[main.ret[i].conn].fd
    BY <1>3, <1>4, FdKept DEF Structure
  <2> QED BY <1>1, <1>4, <2>1 DEF Batch
<1>5. CASE EpollWait
  <2>1. main'.pc = "lookup" /\ main'.ret = <<>>
        /\ \A i, j \in DOMAIN main'.evts :
             main'.evts[i].fd # Listen /\ main'.evts[i].fd = main'.evts[j].fd => i = j
    BY <1>5, EpollIs
  <2> QED BY <1>1, <2>1 DEF Batch
<1>6. CASE Accept
  <2>1. PICK c \in Conns, f \in Fds : Accepts(c, f) /\ info[c].fd = None
    BY <1>6, AcceptIs DEF Structure
  <2>2. main'.pc = "lookup" /\ main'.ret = main.ret /\ main'.evts = Tail(main.evts) /\ main.evts # <<>>
    BY <1>3, <1>6, <2>1 DEF Accepts, Accept, Main
  <2>3. \A i \in DOMAIN main.ret : info'[main.ret[i].conn].fd = info[main.ret[i].conn].fd
    BY <1>3, <2>1, AcceptFds, Zenon DEF Structure
  <2>4. \A i \in DOMAIN main'.evts : i + 1 \in DOMAIN main.evts /\ main'.evts[i] = main.evts[i + 1] /\ i \in Nat
    BY <1>3, <2>2, TailIndex
  <2>5. BatchOnce'
    BY <1>2, <2>2, <2>3, <2>4 DEF BatchOnce
  <2> QED BY <1>1, <2>2, <2>5 DEF Batch, BatchOnce
<1>7. CASE LookupClient
  <2>1. main'.pc = "lookup"
    BY <1>7, LookupIs, Zenon DEF Looks
  <2> QED BY <1>1, <1>7, <2>1, BatchLookup DEF Batch, BatchOnce
<1>8. CASE WaitReturns
  <2>1. main'.pc = "handle" /\ main'.ret = main.ret /\ main'.evts = <<>> /\ info' = info
    BY <1>3, <1>8 DEF WaitReturns, Main
  <2> QED BY <1>1, <2>1 DEF Batch
<1>9. CASE Handle
  <2>1. main'.evts = main.evts /\ main'.ret = main.ret /\ main'.pc = main.pc /\ ~ Accept
    BY <1>3, <1>9 DEF Handle, Main, Accept
  <2> QED BY <1>4, <2>1
<1>10. CASE RunReturns
  <2>1. main'.evts = <<>> /\ main'.ret = <<>>
    BY <1>10 DEF RunReturns, MainIdle
  <2> QED BY <1>1, <2>1 DEF Batch
<1>11. CASE main' = main /\ ~ Accept
  BY <1>4, <1>11
<1> QED BY <1>5, <1>6, <1>7, <1>8, <1>9, <1>10, <1>11, Steps, Zenon DEF ClientStep, Connect, SendSegment,
     Receive, Close, IoStep, IoTake, IoWait, IoRead, IoReadNothing, IoReadBad, IoLogout, IoPush,
     IoPushed, IoSendNothing, IoSend, IoSendClosed, IoSendReset, IoSendBad, IoSent,
     IoEnableRead, ExecPop, ExecAppend, ExecEnableSend

(***************************************************************************)
(* The order in which the events of a client are handled.                  *)
(***************************************************************************)
\* An io thread at work goes on with the event it has, or is done with it.
LEMMA AtIoKept ==
    ASSUME Structure, Next, NEW c \in Conns, NEW e \in Interest, AtIo(c, e)',
           \A t \in IoThreads : ~ IoTake(t)
    PROVE  AtIo(c, e)
<1>1. PICK u \in IoThreads : io'[u].conn = c /\ io'[u].pc \in Kind(e)
  BY DEF AtIo
<1>2. CASE io' = io
  BY <1>1, <1>2 DEF AtIo
<1>3. ASSUME NEW t \in IoThreads, IoStep(t) PROVE AtIo(c, e)
  <2>1. io[t] \in Worker /\ c # None
    BY ReactorAssumption, Zenon DEF Structure, TypeOK
  <2>2. CASE io' = IoDone(t) \/ io' = [io EXCEPT ![t] = IoIdle]
    <3>1. \A v \in IoThreads : v # t => io'[v] = io[v]
      BY <2>2 DEF IoDone, Structure, TypeOK
    <3>2. io'[t].conn = None
      BY <2>2 DEF IoDone, IoIdle, Structure, TypeOK
    <3> QED BY <1>1, <2>1, <3>1, <3>2, Zenon DEF AtIo
  <2>3. ASSUME NEW pc, io' = IoTo(t, pc), io[t].pc \in {"OUT", "sent"}, pc \in {"sent", "enable"}
        PROVE  AtIo(c, e)
    <3>1. \A v \in IoThreads : v # t => io'[v] = io[v]
      BY <2>3 DEF IoTo, Structure, TypeOK
    <3>2. io'[t].conn = io[t].conn /\ io'[t].pc = pc
      BY <2>1, <2>3 DEF IoTo, Structure, TypeOK, Worker
    <3> QED BY <1>1, <2>3, <3>1, <3>2 DEF AtIo, Kind, Interest
  <2>4. CASE IoRead(t) \/ IoPush(t)
    <3>1. \A v \in IoThreads : v # t => io'[v] = io[v]
      BY <2>4, Zenon DEF IoRead, IoPush, Structure, TypeOK
    <3>2. PICK m, n, pc : io' = [io EXCEPT ![t] = [io[t] EXCEPT !.pc = pc, !.next = m, !.last = n]]
      BY <2>4, PushingIo, Zenon DEF Structure
    <3>3. io'[t].conn = io[t].conn
      BY <2>1, <3>2, Zenon DEF Structure, TypeOK, Worker
    <3>4. io'[t].pc = "push" /\ io[t].pc \in {"IN", "push"}
      <4>1. CASE IoRead(t)
        <5>1. PICK i, j : io' = [io EXCEPT ![t] = [io[t] EXCEPT !.pc = "push", !.next = i, !.last = j]]
          BY <4>1, Zenon DEF IoRead
        <5>2. io'[t].pc = "push"
          BY <2>1, <5>1, Zenon DEF Structure, TypeOK, Worker
        <5> QED BY <4>1, <5>2, Zenon DEF IoRead
      <4>2. CASE IoPush(t)
        BY <2>1, <4>2 DEF IoPush, Structure, TypeOK, Worker
      <4> QED BY <2>4, <4>1, <4>2, Zenon
    <3> QED BY <1>1, <3>1, <3>3, <3>4, Zenon DEF AtIo, Kind, Interest
  <2>5. CASE \/ IoSendNothing(t) \/ IoSend(t) \/ IoSendClosed(t) \/ IoSendReset(t) \/ IoSendBad(t)
    BY <2>3, <2>5, Zenon DEF IoSendNothing, IoSend, IoSendClosed, IoSendReset, IoSendBad
  <2>6. CASE IoSent(t)
    BY <2>2, <2>3, <2>6, Zenon DEF IoSent
  <2> QED BY <1>3, <2>2, <2>4, <2>5, <2>6, Zenon DEF IoStep, IoWait, IoReadNothing, IoReadBad, IoLogout,
       IoPushed, IoEnableRead
<1> QED BY <1>2, <1>3, Steps, Zenon DEF ClientStep, Connect, SendSegment, Receive, Close, EpollWait,
     Accept, LookupClient, WaitReturns, Handle, RunReturns, ExecPop, ExecAppend, ExecEnableSend

\* What epoll_wait reported is looked at, returned and queued.
LEMMA AtMainKept ==
    ASSUME Structure, Next, NEW c \in Conns, NEW e \in Interest, AtMain(c, e)',
           ~ Accept, ~ EpollWait
    PROVE  AtMain(c, e)
<1>1. info'[c].fd = info[c].fd
  BY FdKept DEF Structure
<1>2. main \in Main /\ main.evts \in Seq(Event) /\ main.ret \in Seq(Returned) /\ main.next \in Positive
  BY Zenon DEF Structure, TypeOK, Main
<1>3. CASE main' = main
  BY <1>1, <1>3 DEF AtMain
<1>4. CASE LookupClient
  <2>1. PICK f \in Fds, g \in Interest : Looks(f, g)
    BY <1>4, LookupIs
  <2>2. 1 \in DOMAIN main.evts /\ main.evts[1].fd = f /\ main.evts[1].evt = g /\ main.evts # <<>>
    BY <1>2, <2>1 DEF Looks
  <2>3. ASSUME NEW k \in DOMAIN main'.evts, main'.evts[k].fd = info[c].fd, main'.evts[k].evt = e
        PROVE  AtMain(c, e)
    <3>1. main'.evts = Tail(main.evts)
      BY <2>1 DEF Looks
    <3>2. k + 1 \in DOMAIN main.evts /\ main'.evts[k] = main.evts[k + 1]
      BY <1>2, <2>2, <3>1, TailIndex
    <3> QED BY <2>3, <3>2, Zenon DEF AtMain
  <2>4. ASSUME NEW k \in DOMAIN main'.ret, main'.next <= k, main'.ret[k].conn = c, main'.ret[k].evt = e
        PROVE  AtMain(c, e)
    <3>1. main'.next = main.next
      BY <2>1 DEF Looks
    <3>2. CASE main'.ret = main.ret
      BY <2>4, <3>1, <3>2 DEF AtMain
    <3>3. ASSUME NEW d \in Conns, info[d].fd = f, main'.ret = Append(main.ret, [conn |-> d, evt |-> g])
          PROVE  AtMain(c, e)
      <4> DEFINE x == [conn |-> d, evt |-> g]
      <4>1. x \in Returned /\ x.conn = d /\ x.evt = g
        BY DEF Returned
      <4>2. main'.ret = Append(main.ret, x)
        BY <3>3
      <4> HIDE DEF x
      <4>3. (k \in DOMAIN main.ret /\ main'.ret[k] = main.ret[k]) \/ (k = Len(main.ret) + 1 /\ main'.ret[k] = x)
        BY <1>2, <2>4, <4>1, <4>2, AppendIndex
      <4>4. CASE k \in DOMAIN main.ret /\ main'.ret[k] = main.ret[k]
        BY <2>4, <3>1, <4>4 DEF AtMain
      <4>5. CASE main'.ret[k] = x
        <5>1. c = d /\ e = g
          BY <2>4, <4>1, <4>5
        <5> QED BY <2>2, <3>3, <5>1 DEF AtMain
      <4> QED BY <4>3, <4>4, <4>5, Zenon
    <3> QED BY <2>1, <3>2, <3>3 DEF Looks
  <2> QED BY <1>1, <2>3, <2>4 DEF AtMain
<1>5. CASE WaitReturns
  <2>1. main'.evts = main.evts /\ main'.ret = main.ret /\ main'.next = main.next
    BY <1>2, <1>5 DEF WaitReturns, Main
  <2> QED BY <1>1, <2>1, Zenon DEF AtMain
<1>6. CASE Handle
  <2>1. main'.evts = main.evts /\ main'.ret = main.ret /\ main'.next = main.next + 1
    BY <1>2, <1>6 DEF Handle, Main
  <2>2. \A k \in DOMAIN main.ret : main.next + 1 <= k => main.next <= k
    BY <1>2 DEF Positive
  <2> QED BY <1>1, <2>1, <2>2 DEF AtMain
<1>7. CASE RunReturns
  <2>1. main'.evts = <<>> /\ main'.ret = <<>>
    BY <1>7 DEF RunReturns, MainIdle
  <2> QED BY <2>1 DEF AtMain
<1> QED BY <1>3, <1>4, <1>5, <1>6, <1>7, Steps, Zenon DEF ClientStep, Connect, SendSegment,
     Receive, Close, IoStep, IoTake, IoWait, IoRead, IoReadNothing, IoReadBad, IoLogout, IoPush,
     IoPushed, IoSendNothing, IoSend, IoSendClosed, IoSendReset, IoSendBad, IoSent,
     IoEnableRead, ExecPop, ExecAppend, ExecEnableSend

\* Events that stay where they are, or go, stay in their order.
LEMMA FlightShrinks ==
    ASSUME NEW c, NEW d, NEW e, cliQue' = cliQue,
           AtIo(c, d)' => AtIo(c, d), AtIo(c, e)' => AtIo(c, e),
           AtMain(c, d)' => AtMain(c, d), AtMain(c, e)' => AtMain(c, e)
    PROVE  (Flies(c, e)' => Flies(c, e)) /\ (Before(c, d, e)' => Before(c, d, e))
<1>1. \A x, k : AtQue(c, x, k)' <=> AtQue(c, x, k)
  BY DEF AtQue
<1>2. Flies(c, e)' => Flies(c, e)
  BY <1>1 DEF Flies
<1> QED BY <1>1, <1>2 DEF Before

\* Handler::Handle queues an event after those of the client that are queued
\* and before no other of it.
LEMMA FlightHandle ==
    ASSUME Structure, Batch, Handle, Next, NEW c \in Conns, NEW d \in Interest, NEW e \in Interest
    PROVE  (Flies(c, e)' => Flies(c, e)) /\ (Before(c, d, e)' => Before(c, d, e))
<1> DEFINE n == main.next
           x == main.ret[n]
           q == cliQue
<1>1. main.ret \in Seq(Returned) /\ n \in Positive /\ n <= Len(main.ret) /\ q \in Seq(Returned)
  BY DEF Handle, Structure, TypeOK, Main
<1>2. x \in Returned /\ n \in DOMAIN main.ret /\ n \in Nat
  BY <1>1 DEF Positive
<1>3. cliQue' = Append(q, x) /\ main' = [main EXCEPT !.next = n + 1] /\ info' = info /\ io' = io
  BY DEF Handle
<1>4. main'.evts = <<>> /\ main'.ret = main.ret /\ main'.next = n + 1
  <2>1. main.evts = <<>> /\ main \in Main
    BY DEF Handle, Batch, Structure, TypeOK
  <2> QED BY <1>3, <2>1 DEF Main
<1>5. ASSUME AtMain(c, e)', x.conn = c PROVE FALSE
  <2>1. PICK k \in DOMAIN main.ret : n + 1 <= k /\ main.ret[k].conn = c
    BY <1>4, <1>5 DEF AtMain
  <2>2. k = n
    BY <1>2, <1>5, <2>1, Zenon DEF Batch
  <2> QED BY <1>2, <2>1, <2>2
<1>6. AtMain(c, e)' => AtMain(c, e)
  <2>1. ~ Accept /\ ~ EpollWait
    BY DEF Handle, Accept, EpollWait
  <2> QED BY <2>1, AtMainKept
<1>7. ASSUME NEW y, NEW k, AtQue(c, y, k)'
      PROVE  AtQue(c, y, k) \/ (k = Len(q) + 1 /\ x.conn = c /\ AtMain(c, y))
  <2>1. k \in DOMAIN cliQue' /\ cliQue'[k].conn = c /\ cliQue'[k].evt = y
    BY <1>7 DEF AtQue
  <2> HIDE DEF x, q
  <2>2. (k \in DOMAIN q /\ cliQue'[k] = q[k]) \/ (k = Len(q) + 1 /\ cliQue'[k] = x)
    BY <1>1, <1>2, <1>3, <2>1, AppendIndex
  <2>3. CASE k \in DOMAIN q /\ cliQue'[k] = q[k]
    BY <2>1, <2>3 DEF AtQue, q
  <2>4. CASE k = Len(q) + 1 /\ cliQue'[k] = x
    <3>1. n <= n
      BY <1>2
    <3> QED BY <1>2, <2>1, <2>4, <3>1, Zenon DEF AtMain, x
  <2> QED BY <2>2, <2>3, <2>4, Zenon
<1>8. \A k : k \in DOMAIN cliQue' => k \in Nat /\ k <= Len(q) + 1
  BY <1>1, <1>2, <1>3
<1>9. \A y, k : AtQue(c, y, k) => k \in DOMAIN cliQue /\ k \in Nat /\ k <= Len(q)
  BY <1>1 DEF AtQue
<1>10. \A y, k : AtQue(c, y, k)' => k \in DOMAIN cliQue' /\ k \in Nat /\ k <= Len(q) + 1
  BY <1>8 DEF AtQue
<1>11. Len(q) \in Nat
  BY <1>1
<1>12. \A y : AtIo(c, y)' <=> AtIo(c, y)
  BY <1>3 DEF AtIo
<1> HIDE DEF x, q, n
<1>13. Flies(c, e)' => Flies(c, e)
  BY <1>6, <1>7, <1>9, <1>12 DEF Flies
<1>14. ASSUME Before(c, d, e)' PROVE Before(c, d, e)
  <2>1. CASE AtIo(c, d)' /\ \E k \in DOMAIN cliQue' : AtQue(c, e, k)'
    BY <1>7, <1>9, <1>12, <2>1 DEF Before
  <2>2. CASE AtIo(c, d)' /\ AtMain(c, e)'
    BY <1>6, <1>12, <2>2 DEF Before
  <2>3. CASE \E k, l \in DOMAIN cliQue' : k < l /\ AtQue(c, d, k)' /\ AtQue(c, e, l)'
    <3>1. PICK k, l \in DOMAIN cliQue' : k < l /\ AtQue(c, d, k)' /\ AtQue(c, e, l)'
      BY <2>3
    <3>2. AtQue(c, d, k)
      BY <1>7, <1>10, <1>11, <3>1
    <3> QED BY <1>7, <1>9, <3>1, <3>2 DEF Before
  <2>4. CASE \E k \in DOMAIN cliQue' : AtQue(c, d, k)' /\ AtMain(c, e)'
    BY <1>5, <1>6, <1>7, <1>9, <2>4 DEF Before
  <2> QED BY <1>14, <2>1, <2>2, <2>3, <2>4, Zenon DEF Before
<1> QED BY <1>13, <1>14

\* An io thread that takes an event has no other, and takes the first.
LEMMA FlightTake ==
    ASSUME Structure, NEW t \in IoThreads, IoTake(t), NEW c \in Conns,
           NEW d \in Interest, NEW e \in Interest
    PROVE  (Flies(c, e)' => Flies(c, e)) /\ (Before(c, d, e)' => Before(c, d, e))
<1> DEFINE q == cliQue
<1>1. q \in Seq(Returned) /\ q # <<>> /\ cliQue' = Tail(q) /\ main' = main /\ info' = info
  BY DEF IoTake, Structure, TypeOK
<1>2. Head(q) \in Returned /\ Head(q) = q[1] /\ 1 \in DOMAIN q /\ 1 \in Nat
  BY <1>1
<1>3. c # None
  BY ReactorAssumption
<1>4. \A u \in IoThreads : u # t => io[u].conn = None /\ io'[u] = io[u]
  <2>1. \A u \in IoThreads : u # t => io[u].pc = "idle"
    BY ReactorAssumption DEF IoTake, Structure, Locals
  <2>2. \A u \in IoThreads : u # t => io'[u] = io[u]
    BY DEF IoTake, IoDone, Structure, TypeOK
  <2> QED BY <2>1, <2>2 DEF Structure, Locals
<1>5. ASSUME NEW y \in Interest, AtIo(c, y)' PROVE AtQue(c, y, 1)
  <2>1. io'[t].conn = c /\ io'[t].pc \in Kind(y)
    BY <1>3, <1>4, <1>5 DEF AtIo
  <2>2. CASE io' = IoDone(t)
    BY <1>3, <2>1, <2>2 DEF IoDone, IoIdle, Structure, TypeOK
  <2>3. CASE io' = [io EXCEPT ![t] = [IoIdle EXCEPT !.pc = Head(q).evt, !.conn = Head(q).conn]]
    <3>1. io'[t].conn = Head(q).conn /\ io'[t].pc = Head(q).evt
      BY <2>3, Zenon DEF IoIdle, Structure, TypeOK
    <3>2. Head(q).evt = y
      BY <1>2, <2>1, <3>1 DEF Kind, Interest, Returned
    <3> QED BY <1>2, <2>1, <3>1, <3>2 DEF AtQue
  <2> QED BY <2>2, <2>3 DEF IoTake
<1>6. ASSUME NEW y, NEW k, AtQue(c, y, k)'
      PROVE  AtQue(c, y, k + 1) /\ k + 1 \in DOMAIN cliQue /\ k \in Nat /\ 1 < k + 1
  <2>1. k \in DOMAIN cliQue' /\ cliQue'[k].conn = c /\ cliQue'[k].evt = y
    BY <1>6 DEF AtQue
  <2>2. k + 1 \in DOMAIN q /\ cliQue'[k] = q[k + 1] /\ k \in Nat /\ 1 < k + 1
    <3> HIDE DEF q
    <3> QED BY <1>1, <2>1
  <2> QED BY <2>1, <2>2 DEF AtQue
<1>7. \A y : AtMain(c, y)' <=> AtMain(c, y)
  BY <1>1 DEF AtMain
<1> HIDE DEF q
<1>8. Flies(c, e)' => Flies(c, e)
  <2>1. 1 \in DOMAIN cliQue
    BY <1>2 DEF q
  <2> QED BY <1>5, <1>6, <1>7, <2>1 DEF Flies
<1>9. ASSUME Before(c, d, e)' PROVE Before(c, d, e)
  <2>0. 1 \in DOMAIN cliQue
    BY <1>2 DEF q
  <2>1. CASE AtIo(c, d)' /\ \E k \in DOMAIN cliQue' : AtQue(c, e, k)'
    BY <1>5, <1>6, <2>0, <2>1 DEF Before
  <2>2. CASE AtIo(c, d)' /\ AtMain(c, e)'
    BY <1>5, <1>7, <2>0, <2>2 DEF Before
  <2>3. CASE \E k, l \in DOMAIN cliQue' : k < l /\ AtQue(c, d, k)' /\ AtQue(c, e, l)'
    <3>1. PICK k, l \in DOMAIN cliQue' : k < l /\ AtQue(c, d, k)' /\ AtQue(c, e, l)'
      BY <2>3
    <3>2. k + 1 < l + 1 /\ k + 1 \in DOMAIN cliQue /\ l + 1 \in DOMAIN cliQue
      BY <1>6, <3>1
    <3> QED BY <1>6, <3>1, <3>2 DEF Before
  <2>4. CASE \E k \in DOMAIN cliQue' : AtQue(c, d, k)' /\ AtMain(c, e)'
    BY <1>6, <1>7, <2>4 DEF Before
  <2> QED BY <1>9, <2>1, <2>2, <2>3, <2>4, Zenon DEF Before
<1> QED BY <1>8, <1>9

\* The events of a client are handled in the order epoll_wait reported them.
LEMMA FlightKept ==
    ASSUME Structure, Batch, Next, ~ Accept, ~ EpollWait, NEW c \in Conns,
           NEW d \in Interest, NEW e \in Interest
    PROVE  (Flies(c, e)' => Flies(c, e)) /\ (Before(c, d, e)' => Before(c, d, e))
<1>1. CASE Handle
  BY <1>1, FlightHandle
<1>2. CASE \E t \in IoThreads : IoTake(t)
  BY <1>2, FlightTake
<1>3. CASE ~ Handle /\ \A t \in IoThreads : ~ IoTake(t)
  <2>1. cliQue' = cliQue
    BY <1>3, Steps, Zenon DEF ClientStep, Connect, SendSegment, Receive, Close, EpollWait, Accept,
       LookupClient, WaitReturns, RunReturns, IoStep, IoWait, IoRead, IoReadNothing, IoReadBad,
       IoLogout, IoPush, IoPushed, IoSendNothing, IoSend, IoSendClosed, IoSendReset, IoSendBad,
       IoSent, IoEnableRead, ExecPop, ExecAppend, ExecEnableSend
  <2>2. \A y \in Interest : (AtIo(c, y)' => AtIo(c, y)) /\ (AtMain(c, y)' => AtMain(c, y))
    BY <1>3, AtIoKept, AtMainKept
  <2> QED BY <2>1, <2>2, FlightShrinks
<1> QED BY <1>1, <1>2, <1>3

(***************************************************************************)
(* The account of a waiting client.                                        *)
(***************************************************************************)
\* The load of a behaviour stays.
LEMMA LoadKept == ASSUME Next PROVE load' = load
BY Steps, Zenon DEF ClientStep, Connect, SendSegment, Receive, Close, EpollWait, Accept, LookupClient,
     WaitReturns, Handle, RunReturns, IoStep, IoTake, IoWait, IoRead, IoReadNothing, IoReadBad,
     IoLogout, IoPush, IoPushed, IoSendNothing, IoSend, IoSendClosed, IoSendReset, IoSendBad,
     IoSent, IoEnableRead, ExecPop, ExecAppend, ExecEnableSend

\* What the account of a client is of.
LEMMA AccountTypes ==
    ASSUME Structure, NEW c \in Conns
    PROVE  /\ load.fragments \in Nat \ {0} /\ client[c] \in Program /\ sock[c] \in Socket
           /\ info[c] \in ClientInfo /\ executed[c] \in Nat /\ Serving(c) \in ExecPc
<1>1. load \in Load /\ exec \in Executor
  BY DEF Structure, TypeOK
<1>2. load.fragments \in Nat \ {0} /\ exec.pc \in ExecPc
  BY <1>1 DEF Load, Executor
<1> QED BY <1>2 DEF Structure, TypeOK, Serving, ExecPc

\* The client an io thread works for holds its descriptor.
LEMMA KeptIo ==
    ASSUME Structure, Kept, NEW t \in IoThreads, io[t].pc \notin {"idle", "loop"}
    PROVE  /\ io[t].conn \in Conns /\ Alive(io[t].conn) /\ info[io[t].conn].fd \in Fds
           /\ Named(io[t].conn) = io[t].conn /\ Accounted(io[t].conn)
           /\ EventsInOrder(io[t].conn) /\ Registered(io[t].conn)
<1>1. io[t].conn \in Conns /\ info[io[t].conn].fd \in Fds
  BY Works DEF Structure
<1>2. Alive(io[t].conn)
  BY DEF Alive
<1> QED BY <1>1, <1>2, Zenon DEF Kept, Registered

\* And the one the command thread works for.
LEMMA KeptExec ==
    ASSUME Structure, Kept, exec.pc # "idle"
    PROVE  /\ exec.conn \in Conns /\ Alive(exec.conn) /\ info[exec.conn].fd \in Fds
           /\ Named(exec.conn) = exec.conn /\ Accounted(exec.conn)
           /\ EventsInOrder(exec.conn) /\ Registered(exec.conn)
<1>1. exec.conn \in Conns /\ info[exec.conn].fd \in Fds
  BY Held DEF Structure, Locals
<1>2. Alive(exec.conn)
  BY Zenon DEF Alive
<1> QED BY <1>1, <1>2, Zenon DEF Kept, Registered

\* A step that leaves what the account is of.
LEMMA AccountedSame ==
    ASSUME NEW c, Accounted(c), load' = load, client'[c] = client[c], executed'[c] = executed[c],
           Serving(c)' = Serving(c), sock'[c].rx = sock[c].rx, sock'[c].tx = sock[c].tx,
           sock'[c].reset = sock[c].reset, info'[c].recv = info[c].recv,
           info'[c].parsed = info[c].parsed, info'[c].send = info[c].send
    PROVE  Accounted(c)'
<1>1. Account(load.fragments, client[c], sock'[c], info'[c], executed[c], Serving(c))
  BY AccountSame, Zenon DEF Accounted
<1> QED BY <1>1, Zenon DEF Accounted

\* What client programs do keeps the account.
LEMMA AccountedClient ==
    ASSUME Structure, Waits, Next, NEW c \in Conns, Accounted(c), NEW d \in Conns, ClientStep(d)
    PROVE  Accounted(c)'
<1> DEFINE size == load.fragments
           p == client[c]
           s == sock[c]
           i == info[c]
           n == executed[c]
           at == Serving(c)
<1>1. /\ size \in Nat \ {0} /\ p \in Program /\ s \in Socket /\ i \in ClientInfo
      /\ n \in Nat /\ at \in ExecPc
  BY AccountTypes
<1>2. Account(size, p, s, i, n, at) /\ ~ s.reset
  BY Zenon DEF Accounted
<1>3. /\ load' = load /\ info' = info /\ executed' = executed /\ exec' = exec
  BY LoadKept, Zenon DEF ClientStep, Connect, SendSegment, Receive, Close
<1>4. at' = at /\ size' = size /\ i' = i /\ n' = n
  BY <1>3 DEF Serving
<1>5. CASE client'[c] = client[c] /\ sock'[c] = sock[c]
  BY <1>3, <1>4, <1>5, Zenon DEF Accounted
<1>6. CASE d # c
  <2>1. client'[c] = client[c] /\ sock'[c] = sock[c]
    BY <1>6 DEF ClientStep, Connect, SendSegment, Receive, Close, Structure, TypeOK
  <2> QED BY <1>5, <2>1, Zenon
<1>7. CASE Connect(d)
  BY <1>5, <1>7 DEF Connect
<1>8. CASE SendSegment(c)
  <2>1. /\ client' = [client EXCEPT ![c] = [client[c] EXCEPT
                        !.part = (client[c].part + 1) % load.fragments,
                        !.sent = IF client[c].part + 1 = load.fragments THEN client[c].sent + 1
                                 ELSE client[c].sent]]
        /\ sock' = [sock EXCEPT ![c] = [sock[c] EXCEPT !.rx = sock[c].rx + 1]]
        /\ ~ p.closed
        /\ p.part > 0 \/ p.sent < p.got \div ReplyLen + load.window
    BY <1>8, Zenon DEF SendSegment
  <2>2. /\ client'[c].part = (p.part + 1) % size /\ client'[c].got = p.got
        /\ client'[c].closed = p.closed
        /\ client'[c].sent = IF p.part + 1 = size THEN p.sent + 1 ELSE p.sent
    BY <1>1, <2>1, Zenon DEF Structure, TypeOK, Program
  <2>3. sock'[c].rx = s.rx + 1 /\ sock'[c].tx = s.tx /\ sock'[c].reset = s.reset
    BY <1>1, <2>1, Zenon DEF Structure, TypeOK, Socket
  <2>4. load.window = 1
    BY DEF Waits
  <2>5. client'[c] \in Program /\ sock'[c] \in Socket
    <3>1. TypeOK'
      BY TypeStep DEF Structure
    <3> QED BY <3>1 DEF TypeOK
  <2> HIDE DEF size, p, s, i, n, at
  <2>6. Account(size, client'[c], sock'[c], i, n, at)
    BY <1>1, <1>2, <2>1, <2>2, <2>3, <2>4, <2>5, AccountSegment, Zenon
  <2> QED BY <1>2, <1>4, <2>3, <2>6, Zenon DEF Accounted, size, i, n, at
<1>9. CASE Receive(c)
  <2>1. /\ client' = [client EXCEPT ![c] = [client[c] EXCEPT !.got = client[c].got + 1]]
        /\ sock' = [sock EXCEPT ![c] = [sock[c] EXCEPT !.tx = Tail(sock[c].tx), !.full = FALSE]]
        /\ s.tx # <<>>
    BY <1>9, Zenon DEF Receive
  <2>2. /\ client'[c].part = p.part /\ client'[c].got = p.got + 1
        /\ client'[c].closed = p.closed /\ client'[c].sent = p.sent
    BY <1>1, <2>1, Zenon DEF Structure, TypeOK, Program
  <2>3. sock'[c].rx = s.rx /\ sock'[c].tx = Tail(s.tx) /\ sock'[c].reset = s.reset
    BY <1>1, <2>1, Zenon DEF Structure, TypeOK, Socket
  <2> HIDE DEF size, p, s, i, n, at
  <2>4. Account(size, client'[c], sock'[c], i, n, at)
    BY <1>1, <1>2, <2>1, <2>2, <2>3, AccountReceive, Zenon
  <2> QED BY <1>2, <1>4, <2>3, <2>4, Zenon DEF Accounted, size, i, n, at
<1>10. CASE Close(c)
  <2>1. /\ client' = [client EXCEPT ![c] = [client[c] EXCEPT !.closed = TRUE]]
        /\ sock' = sock
    BY <1>10, Zenon DEF Close
  <2>2. /\ client'[c].part = p.part /\ client'[c].got = p.got /\ client'[c].sent = p.sent
    BY <1>1, <2>1, Zenon DEF Structure, TypeOK, Program
  <2>3. p.part = 0 /\ p.got = p.sent * ReplyLen
    BY <1>10 DEF Close, Waits
  <2> HIDE DEF size, p, s, i, n, at
  <2>4. Account(size, client'[c], s, i, n, at)
    BY <1>1, <1>2, <2>1, <2>2, <2>3, AccountClose, Zenon
  <2> QED BY <1>2, <1>4, <2>1, <2>4 DEF Accounted, size, s, i, n, at
<1> QED BY <1>6, <1>7, <1>8, <1>9, <1>10 DEF ClientStep

\* ClientInfo::Read and ExportMessages keep it.
LEMMA AccountedRead ==
    ASSUME Structure, Kept, Next, NEW c \in Conns, Accounted(c), NEW t \in IoThreads, IoRead(t)
    PROVE  Accounted(c)'
<1>1. io[t].conn \in Conns /\ Named(io[t].conn) = io[t].conn
  BY KeptIo, Zenon DEF IoRead
<1>2. load' = load /\ client' = client /\ executed' = executed /\ exec' = exec
  BY LoadKept, Zenon DEF IoRead
<1>3. Serving(c)' = Serving(c)
  BY <1>2 DEF Serving
<1>4. CASE c # io[t].conn
  <2>1. info'[c] = info[c] /\ sock'[c] = sock[c]
    BY <1>1, <1>4, Zenon DEF IoRead, Structure, TypeOK
  <2> QED BY <1>2, <1>3, <2>1, AccountedSame, Zenon
<1>5. CASE c = io[t].conn
  <2> DEFINE total == info[c].recv + sock[c].rx
  <2>1. /\ sock' = [sock EXCEPT ![c] = [sock[c] EXCEPT !.rx = 0]]
        /\ info' = [info EXCEPT ![c] = [info[c] EXCEPT !.recv = total % load.fragments,
                                          !.parsed = info[c].parsed + total \div load.fragments]]
    BY <1>1, <1>5, Zenon DEF IoRead
  <2>2. load.fragments \in Nat \ {0} /\ sock[c] \in Socket /\ info[c] \in ClientInfo /\ executed[c] \in Nat
    BY AccountTypes
  <2>3. sock'[c].rx = 0 /\ sock'[c].tx = sock[c].tx /\ sock'[c].reset = sock[c].reset
    BY <2>1, <2>2, Zenon DEF Structure, TypeOK, Socket
  <2>4. /\ info'[c].recv = total % load.fragments /\ info'[c].send = info[c].send
        /\ info'[c].parsed = info[c].parsed + total \div load.fragments
    BY <2>1, <2>2, Zenon DEF Structure, TypeOK, ClientInfo
  <2>5. Account(load.fragments, client[c], sock'[c], info'[c], executed[c], Serving(c))
    BY <2>2, <2>3, <2>4, AccountRead, Zenon DEF Accounted
  <2> QED BY <1>2, <1>3, <2>3, <2>5, Zenon DEF Accounted
<1> QED BY <1>4, <1>5

\* A client with all its replies: no command of it is left, and send_buffer_
\* is empty.
LEMMA NothingDue ==
    ASSUME Structure, NEW c \in Conns, Accounted(c), sock[c].rx # 0 \/ client[c].closed
    PROVE  /\ info[c].send = <<>> /\ ~ Fresh(c)
           /\ client[c].closed => sock[c].rx = 0
<1>1. /\ load.fragments \in Nat \ {0} /\ client[c] \in Program /\ sock[c] \in Socket
      /\ info[c] \in ClientInfo /\ executed[c] \in Nat /\ Serving(c) \in ExecPc
  BY AccountTypes
<1>2. Account(load.fragments, client[c], sock[c], info[c], executed[c], Serving(c))
  BY DEF Accounted
<1>3. ReplyLen * info[c].parsed <= client[c].got /\ (client[c].closed => sock[c].rx = 0)
  BY <1>1, <1>2, Exported, Zenon
<1>4. Len(info[c].send) = 0 /\ executed[c] = info[c].parsed /\ Serving(c) = "idle"
  BY <1>1, <1>2, <1>3, Settled, Zenon
<1>5. info[c].send \in Seq(Unit)
  BY <1>1 DEF ClientInfo
<1>6. info[c].send = <<>>
  BY <1>4, <1>5
<1>7. exec.conn # c
  BY <1>4, ReactorAssumption DEF Serving, Structure, Locals
<1>8. ~ (executed[c] < info[c].parsed)
  BY <1>1, <1>4
<1> QED BY <1>3, <1>6, <1>7, <1>8, Zenon DEF Fresh

\* Nobody sends to a client that hung up.
LEMMA NoReset ==
    ASSUME Structure, Kept, NEW t \in IoThreads
    PROVE  ~ IoSendClosed(t) /\ ~ IoSendReset(t)
<1> SUFFICES ASSUME IoSendClosed(t) \/ IoSendReset(t) PROVE FALSE
  OBVIOUS
<1> DEFINE c == io[t].conn
<1>1. io[t].pc = "OUT" /\ info[c].send # <<>>
  BY Zenon DEF IoSendClosed, IoSendReset
<1>2. c \in Conns /\ Named(c) = c /\ Accounted(c)
  BY <1>1, KeptIo, Zenon
<1>3. client[c].closed \/ sock[c].reset
  BY <1>2 DEF IoSendClosed, IoSendReset, Named
<1>4. client[c].closed
  BY <1>2, <1>3, Zenon DEF Accounted
<1> HIDE DEF c
<1> QED BY <1>1, <1>2, <1>4, NothingDue, Zenon

\* A client whose send_buffer_ an io thread sends has no reply that is not announced.
LEMMA SendsAnnounced ==
    ASSUME Structure, Kept, NEW t \in IoThreads, io[t].pc \in Kind("OUT")
    PROVE  ~ Fresh(io[t].conn)
<1>1. io[t].conn \in Conns /\ EventsInOrder(io[t].conn)
  BY KeptIo, Zenon DEF Kind
<1>2. AtIo(io[t].conn, "OUT")
  BY DEF AtIo
<1> QED BY <1>1, <1>2, Zenon DEF EventsInOrder, Flies

\* ClientInfo::Send keeps the account.
LEMMA AccountedSend ==
    ASSUME Structure, Kept, Next, NEW c \in Conns, Accounted(c), NEW t \in IoThreads, IoSend(t)
    PROVE  Accounted(c)'
<1>1. io[t].conn \in Conns /\ Named(io[t].conn) = io[t].conn /\ io[t].pc = "OUT"
  BY KeptIo, Zenon DEF IoSend
<1>2. load' = load /\ client' = client /\ executed' = executed /\ exec' = exec
  BY LoadKept, Zenon DEF IoSend
<1>3. Serving(c)' = Serving(c)
  BY <1>2 DEF Serving
<1>4. CASE c # io[t].conn
  <2>1. info'[c] = info[c] /\ sock'[c] = sock[c]
    BY <1>1, <1>4, Zenon DEF IoSend, Structure, TypeOK
  <2> QED BY <1>2, <1>3, <2>1, AccountedSame, Zenon
<1>5. CASE c = io[t].conn
  <2> DEFINE q == info[c].send
             room == TxCap - Len(sock[c].tx)
             n == IF Len(q) < room THEN Len(q) ELSE room
  <2>1. /\ info' = [info EXCEPT ![c] = [info[c] EXCEPT !.send = SubSeq(q, n + 1, Len(q))]]
        /\ sock' = [sock EXCEPT ![c] = [sock[c] EXCEPT !.tx = sock[c].tx \o SubSeq(q, 1, n),
                                                       !.full = n < Len(q)]]
    BY <1>1, <1>5, Zenon DEF IoSend
  <2>2. client[c] \in Program /\ sock[c] \in Socket /\ info[c] \in ClientInfo
    BY AccountTypes, Zenon
  <2>3. q \in Seq(Unit) /\ sock[c].tx \in Seq(Unit) /\ Len(sock[c].tx) <= TxCap
    BY <2>2, Zenon DEF ClientInfo, Socket, Structure, Room
  <2>4. n \in 0..Len(q)
    <3>1. Len(q) \in Nat /\ Len(sock[c].tx) \in Nat /\ TxCap \in Nat
      BY <2>3, ReactorAssumption
    <3>2. room \in Nat
      BY <2>3, <3>1
    <3> HIDE DEF room, q
    <3> QED BY <3>1, <3>2
  <2> HIDE DEF n, q
  <2>5. /\ info'[c].send = SubSeq(q, n + 1, Len(q)) /\ info'[c].recv = info[c].recv
        /\ info'[c].parsed = info[c].parsed
    BY <2>1, <2>2, Zenon DEF Structure, TypeOK, ClientInfo
  <2>6. /\ sock'[c].tx = sock[c].tx \o SubSeq(q, 1, n) /\ sock'[c].rx = sock[c].rx
        /\ sock'[c].reset = sock[c].reset
    BY <2>1, <2>2, Zenon DEF Structure, TypeOK, Socket
  <2>7. Len(SubSeq(q, n + 1, Len(q))) + n = Len(q)
    BY <2>3, <2>4
  <2>8. SubSeq(q, 1, n) \in Seq(Unit) /\ Len(SubSeq(q, 1, n)) = n
    BY <2>3, <2>4
  <2>9. Len(sock[c].tx \o SubSeq(q, 1, n)) = Len(sock[c].tx) + n
    BY <2>3, <2>8
  <2>10. sock'[c] \in Socket /\ info'[c] \in ClientInfo /\ n \in Nat
    <3>1. TypeOK'
      BY TypeStep DEF Structure
    <3> QED BY <2>4, <3>1 DEF TypeOK
  <2>11. Serving(c) # "enable"
    BY <1>1, <1>5, SendsAnnounced DEF Fresh, Serving, Kind
  <2>12. Account(load.fragments, client[c], sock'[c], info'[c], executed[c], Serving(c))
    BY <2>2, <2>5, <2>6, <2>7, <2>9, <2>10, <2>11, AccountSend, Zenon DEF Accounted, q
  <2> QED BY <1>2, <1>3, <2>6, <2>12, Zenon DEF Accounted
<1> QED BY <1>4, <1>5

(***************************************************************************)
(* The registration of a waiting client with epoll and client_map_.        *)
(***************************************************************************)
\* Two clients do not share a descriptor.
LEMMA OwnFd ==
    ASSUME Kept, NEW c \in Conns, NEW d \in Conns, Alive(c), Alive(d), info[c].fd = info[d].fd
    PROVE  c = d
BY DEF Kept, Registered, Named

\* Modify of a descriptor changes the interest in the socket it names.
LEMMA ModifyIs ==
    ASSUME TypeOK, NEW f \in Fds, NEW d \in Conns, file[f] = d, NEW i \in Interest, Modify(f, i)
    PROVE  /\ sock'[d].interest = IF sock[d].interest = None THEN None ELSE i
           /\ \A x \in Conns : x # d => sock'[x] = sock[x]
<1>1. d # None /\ sock \in [Conns -> Socket] /\ sock[d] \in Socket
  BY ReactorAssumption, Zenon DEF TypeOK
<1>2. CASE sock[d].interest = None
  BY <1>1, <1>2 DEF Modify
<1>3. CASE sock[d].interest # None
  <2>1. sock' = [sock EXCEPT ![d] = [sock[d] EXCEPT !.interest = i]]
    BY <1>1, <1>3 DEF Modify
  <2>2. sock'[d].interest = i
    BY <1>1, <2>1, Zenon DEF Socket
  <2> QED BY <1>1, <1>3, <2>1, <2>2
<1> QED BY <1>2, <1>3, Zenon

\* A descriptor is taken off epoll.
LEMMA OffEpollIs ==
    ASSUME TypeOK, NEW f \in Fds, file[f] \in MaybeConn,
           sock' = IF file[f] = None THEN sock
                   ELSE [sock EXCEPT ![file[f]].interest = None]
    PROVE  /\ file[f] \in Conns => sock'[file[f]].interest = None
           /\ \A x \in Conns : x # file[f] => sock'[x] = sock[x]
<1>1. sock \in [Conns -> Socket] /\ None \notin Conns
  BY ReactorAssumption DEF TypeOK
<1>2. CASE file[f] = None
  BY <1>1, <1>2
<1>3. ASSUME NEW d \in Conns, file[f] = d
      PROVE  sock'[d].interest = None /\ \A x \in Conns : x # d => sock'[x] = sock[x]
  <2>1. sock' = [sock EXCEPT ![d] = [sock[d] EXCEPT !.interest = None]] /\ sock[d] \in Socket
    BY <1>1, <1>3
  <2>2. sock'[d].interest = None
    BY <1>1, <2>1, Zenon DEF Socket
  <2> QED BY <1>1, <2>1, <2>2
<1> QED BY <1>1, <1>2, <1>3 DEF MaybeConn

\* A client program, Read and Send leave epoll's interest.
LEMMA InterestOther ==
    ASSUME Structure, Kept, Next, NEW c \in Conns,
           \/ \E d \in Conns : ClientStep(d)
           \/ \E t \in IoThreads : IoRead(t) \/ IoSend(t)
    PROVE  sock'[c].interest = sock[c].interest
<1>1. sock \in [Conns -> Socket] /\ sock[c] \in Socket
  BY DEF Structure, TypeOK
<1>2. ASSUME NEW d \in Conns, ClientStep(d) PROVE sock'[c].interest = sock[c].interest
  <2>1. CASE sock' = sock
    BY <2>1
  <2>2. CASE SendSegment(d)
    BY <1>1, <2>2, Zenon DEF SendSegment, Socket
  <2>3. CASE Receive(d)
    BY <1>1, <2>3, Zenon DEF Receive, Socket
  <2> QED BY <1>2, <2>1, <2>2, <2>3 DEF ClientStep, Connect, Close
<1>3. ASSUME NEW t \in IoThreads, IoRead(t) PROVE sock'[c].interest = sock[c].interest
  <2>1. PICK s \in Conns : sock' = [sock EXCEPT ![s].rx = 0]
    BY <1>3, KeptIo, Zenon DEF IoRead
  <2> QED BY <1>1, <2>1, Zenon DEF Socket
<1>4. ASSUME NEW t \in IoThreads, IoSend(t) PROVE sock'[c].interest = sock[c].interest
  <2>1. PICK a, b : \E s \in Conns : sock' = [sock EXCEPT ![s].tx = a, ![s].full = b]
    BY <1>4, KeptIo DEF IoSend
  <2>2. PICK s \in Conns : sock' = [sock EXCEPT ![s].tx = a, ![s].full = b]
    BY <2>1, Zenon
  <2> QED BY <1>1, <2>2, Zenon DEF Socket
<1> QED BY <1>2, <1>3, <1>4, Zenon

\* Who changes epoll's interest in a client that is in use: the io thread that
\* logs it out or enables reading, and the command thread that enables
\* sending.
LogsOut(c) == \E t \in IoThreads : IoLogout(t) /\ io[t].conn = c
EnablesRead(c) == \E t \in IoThreads : IoEnableRead(t) /\ io[t].conn = c
EnablesSend(c) == ExecEnableSend /\ exec.conn = c

\* What they do.
LEMMA InterestSet ==
    ASSUME Structure, Kept, NEW c \in Conns
    PROVE  /\ LogsOut(c) =>
                client[c].closed /\ sock'[c].interest = None /\ clientMap'[info[c].fd] = None
           /\ EnablesRead(c) =>
                sock'[c].interest = IF sock[c].interest = None THEN None ELSE "IN"
           /\ EnablesSend(c) =>
                sock'[c].interest = IF sock[c].interest = None THEN None ELSE "OUT"
<1>1. ASSUME NEW t \in IoThreads, IoLogout(t), io[t].conn = c
      PROVE  client[c].closed /\ sock'[c].interest = None /\ clientMap'[info[c].fd] = None
  <2>1. info[c].fd \in Fds /\ file[info[c].fd] = c
    BY <1>1, KeptIo, Zenon DEF IoLogout, Named
  <2>2. client[c].closed /\ RemoveCli(info[c].fd)
    BY <1>1, <2>1 DEF IoLogout
  <2>3. sock'[c].interest = None
    BY <2>1, <2>2, OffEpollIs DEF RemoveCli, Structure, MaybeConn
  <2> QED BY <2>1, <2>2, <2>3 DEF RemoveCli, Structure, TypeOK
<1>2. ASSUME NEW t \in IoThreads, IoEnableRead(t), io[t].conn = c
      PROVE  sock'[c].interest = IF sock[c].interest = None THEN None ELSE "IN"
  <2>1. info[c].fd \in Fds /\ file[info[c].fd] = c
    BY <1>2, KeptIo, Zenon DEF IoEnableRead, Named
  <2>2. Modify(info[c].fd, "IN")
    BY <1>2 DEF IoEnableRead
  <2> QED BY <2>1, <2>2, ModifyIs, Zenon DEF Structure, Interest
<1>3. ASSUME ExecEnableSend, exec.conn = c
      PROVE  sock'[c].interest = IF sock[c].interest = None THEN None ELSE "OUT"
  <2>1. info[c].fd \in Fds /\ file[info[c].fd] = c
    BY <1>3, KeptExec DEF ExecEnableSend, Named
  <2>2. Modify(info[c].fd, "OUT")
    BY <1>3 DEF ExecEnableSend
  <2> QED BY <2>1, <2>2, ModifyIs DEF Structure, Interest
<1> QED BY <1>1, <1>2, <1>3 DEF LogsOut, EnablesRead, EnablesSend

\* Wait does not meet a descriptor in use that client_map_ does not have.
LEMMA LooksElsewhere ==
    ASSUME Structure, Kept, NEW c \in Conns, Alive(c), NEW f \in Fds, NEW e \in Interest,
           Looks(f, e), clientMap[f] = None
    PROVE  info[c].fd # f /\ file[f] # c
<1>1. main.evts \in Seq(Event) /\ main.evts # <<>>
  BY DEF Looks, Structure, TypeOK, Main
<1>2. 1 \in DOMAIN main.evts /\ main.evts[1].fd = f
  BY <1>1 DEF Looks
<1>3. info[c].fd # f
  BY <1>2, ReactorAssumption, Zenon DEF Kept, Registered
<1> QED BY <1>3, ReactorAssumption DEF Structure, Accepted

\* Nobody else changes it.
LEMMA InterestStep ==
    ASSUME Structure, Kept, Next, NEW c \in Conns, Alive(c),
           ~ LogsOut(c), ~ EnablesRead(c), ~ EnablesSend(c)
    PROVE  sock'[c].interest = sock[c].interest
<1>1. CASE sock'[c] = sock[c]
  BY <1>1, Zenon
<1>2. c # None /\ info[c].fd \in Fds /\ info[c].fd # None
  <2>1. info[c].fd \in Fds
    BY AliveHasFd DEF Structure
  <2> QED BY <2>1, ReactorAssumption DEF Fds
<1>3. CASE Accept
  <2>1. PICK d \in Conns, f \in Fds : Accepts(d, f) /\ info[d].fd = None
    BY <1>3, AcceptIs DEF Structure
  <2>2. sock'[c] = sock[c]
    BY <1>2, <2>1 DEF Accepts, Structure, TypeOK
  <2> QED BY <1>1, <2>2
<1>4. CASE LookupClient
  <2>1. PICK f \in Fds, e \in Interest : Looks(f, e)
    BY <1>4, LookupIs
  <2>2. CASE sock' = sock
    BY <2>2
  <2>3. CASE clientMap[f] = None
    <3>1. file[f] # c
      BY <2>1, <2>3, LooksElsewhere
    <3>2. sock' = IF file[f] = None THEN sock ELSE [sock EXCEPT ![file[f]].interest = None]
      BY <2>1, <2>3, ReactorAssumption DEF Looks
    <3>3. file[f] \in MaybeConn
      BY DEF Structure, TypeOK
    <3>4. sock'[c] = sock[c]
      BY <3>1, <3>2, <3>3, OffEpollIs DEF Structure
    <3> QED BY <1>1, <3>4
  <2> QED BY <2>1, <2>2, <2>3, ReactorAssumption DEF Looks
<1>5. ASSUME NEW t \in IoThreads, IoLogout(t) PROVE sock'[c] = sock[c]
  <2> DEFINE d == io[t].conn
  <2>1. d \in Conns /\ info[d].fd \in Fds /\ file[info[d].fd] = d /\ d # c
    BY <1>5, KeptIo, Zenon DEF IoLogout, Named, LogsOut
  <2>2. RemoveCli(info[d].fd)
    BY <1>5, Zenon DEF IoLogout
  <2> HIDE DEF d
  <2> QED BY <2>1, <2>2, OffEpollIs DEF RemoveCli, Structure, MaybeConn
<1>6. ASSUME NEW t \in IoThreads, IoEnableRead(t) PROVE sock'[c] = sock[c]
  <2> DEFINE d == io[t].conn
  <2>1. d \in Conns /\ info[d].fd \in Fds /\ file[info[d].fd] = d /\ d # c
    BY <1>6, KeptIo, Zenon DEF IoEnableRead, Named, EnablesRead
  <2>2. Modify(info[d].fd, "IN")
    BY <1>6, Zenon DEF IoEnableRead
  <2> HIDE DEF d
  <2> QED BY <2>1, <2>2, ModifyIs DEF Structure, Interest
<1>7. ASSUME ExecEnableSend PROVE sock'[c] = sock[c]
  <2> DEFINE d == exec.conn
  <2>1. d \in Conns /\ info[d].fd \in Fds /\ file[info[d].fd] = d /\ d # c
    BY <1>7, KeptExec, Zenon DEF ExecEnableSend, Named, EnablesSend
  <2>2. Modify(info[d].fd, "OUT")
    BY <1>7, Zenon DEF ExecEnableSend
  <2> HIDE DEF d
  <2> QED BY <2>1, <2>2, ModifyIs, Zenon DEF Structure, Interest
<1>8. CASE \/ \E d \in Conns : ClientStep(d)
           \/ \E t \in IoThreads : IoRead(t) \/ IoSend(t)
  BY <1>8, InterestOther, Zenon
<1>9. CASE sock' = sock
  BY <1>9
<1> QED BY <1>1, <1>3, <1>4, <1>5, <1>6, <1>7, <1>8, <1>9, NoReset, Steps, Zenon
     DEF EpollWait, WaitReturns, Handle, RunReturns, IoStep, IoTake, IoWait, IoReadNothing, IoReadBad,
         IoPush, IoPushed, IoSendNothing, IoSendBad, IoSent, ExecPop, ExecAppend

\* No step takes the descriptor of a client that stays in use.
LEMMA OwnKept ==
    ASSUME Structure, Kept, Next, NEW c \in Conns, Alive(c), Alive(c)'
    PROVE  info'[c].fd = info[c].fd /\ Named(c)' = c
<1>1. info[c].fd \in Fds /\ info[c].fd # None /\ c # None
  <2>1. info[c].fd \in Fds
    BY AliveHasFd DEF Structure
  <2> QED BY <2>1, ReactorAssumption DEF Fds
<1>2. file[info[c].fd] = c
  BY DEF Kept, Registered, Named
<1>3. CASE Accept
  <2>1. PICK d \in Conns, f \in Fds : Accepts(d, f) /\ info[d].fd = None
    BY <1>3, AcceptIs DEF Structure
  <2>2. info'[c] = info[c]
    BY <1>1, <2>1, AcceptFds DEF Structure
  <2>3. file'[info[c].fd] = file[info[c].fd]
    BY <1>1, <1>2, <2>1 DEF Accepts, Structure, TypeOK
  <2> QED BY <1>2, <2>2, <2>3 DEF Named
<1>4. ASSUME ~ Accept PROVE info'[c].fd = info[c].fd
  BY <1>4, FdKept DEF Structure
<1>5. ASSUME file' = file, ~ Accept PROVE Named(c)' = c
  BY <1>2, <1>4, <1>5 DEF Named
<1>6. ASSUME Release, ~ Accept PROVE Named(c)' = c
  <2> DEFINE dead == {d \in Conns : Alive(d) /\ ~Alive(d)'}
             shut == {info[d].fd : d \in dead}
  <2>1. info[c].fd \notin shut
    BY OwnFd
  <2>2. file' = [f \in Fds |-> IF f \in shut THEN None ELSE file[f]]
    BY <1>6, Zenon DEF Release
  <2> HIDE DEF shut
  <2> QED BY <1>1, <1>2, <1>4, <1>6, <2>1, <2>2 DEF Named
<1>7. CASE LookupClient
  <2>1. PICK f \in Fds, e \in Interest : Looks(f, e)
    BY <1>7, LookupIs
  <2>2. ~ Accept
    BY <1>7, Zenon DEF LookupClient, Accept
  <2>3. CASE clientMap[f] = None /\ file' = [file EXCEPT ![f] = None]
    <3>1. info[c].fd # f
      BY <2>1, <2>3, LooksElsewhere
    <3> QED BY <1>1, <1>2, <1>4, <2>2, <2>3, <3>1, Zenon DEF Named, Structure, TypeOK
  <2> QED BY <1>4, <1>5, <2>1, <2>2, <2>3 DEF Looks
<1>8. Accept \/ LookupClient \/ file' = file \/ Release
  BY Steps, Zenon DEF ClientStep, Connect, SendSegment, Receive, Close, EpollWait,
     WaitReturns, Handle, RunReturns, IoStep, IoTake, IoWait, IoRead, IoReadNothing, IoReadBad,
     IoLogout, IoPush, IoPushed, IoSendNothing, IoSend, IoSendClosed, IoSendReset, IoSendBad,
     IoSent, IoEnableRead, ExecPop, ExecAppend, ExecEnableSend
<1> QED BY <1>3, <1>4, <1>5, <1>6, <1>7, <1>8

\* Only Logout takes the client out of client_map_.
LEMMA MapStep ==
    ASSUME Structure, Kept, Next, NEW c \in Conns, Alive(c), ~ LogsOut(c)
    PROVE  clientMap'[info[c].fd] = clientMap[info[c].fd]
<1>1. info[c].fd \in Fds
  BY AliveHasFd DEF Structure
<1>2. file[info[c].fd] = c /\ c # None
  BY ReactorAssumption, Zenon DEF Kept, Registered, Named
<1>3. CASE Accept
  <2>1. PICK d \in Conns, f \in Fds : Accepts(d, f)
    BY <1>3, AcceptIs DEF Structure
  <2> QED BY <1>1, <1>2, <2>1 DEF Accepts, Structure, TypeOK
<1>4. ASSUME NEW t \in IoThreads, IoLogout(t)
      PROVE  clientMap'[info[c].fd] = clientMap[info[c].fd]
  <2>1. io[t].conn \in Conns /\ Alive(io[t].conn) /\ io[t].conn # c
    BY <1>4, KeptIo, Zenon DEF IoLogout, LogsOut
  <2>2. info[io[t].conn].fd # info[c].fd
    BY <2>1, OwnFd, Zenon
  <2>3. clientMap' = [clientMap EXCEPT ![info[io[t].conn].fd] = None]
    BY <1>4, Zenon DEF IoLogout, RemoveCli
  <2> QED BY <1>1, <2>2, <2>3 DEF Structure, TypeOK
<1>5. CASE clientMap' = clientMap
  BY <1>5, Zenon
<1> QED BY <1>3, <1>4, <1>5, NoReset, Steps, Zenon DEF ClientStep, Connect, SendSegment, Receive, Close,
     EpollWait, LookupClient, WaitReturns, Handle, RunReturns, IoStep, IoTake, IoWait, IoRead,
     IoReadNothing, IoReadBad, IoPush, IoPushed, IoSendNothing, IoSend, IoSendBad, IoSent,
     IoEnableRead, ExecPop, ExecAppend, ExecEnableSend

\* A client that has hung up does not come back.
LEMMA ClosedKept ==
    ASSUME Structure, Next, NEW c \in Conns, client[c].closed
    PROVE  client'[c].closed
<1>1. client \in [Conns -> Program] /\ client[c] \in Program
  BY DEF Structure, TypeOK
<1>2. ASSUME NEW d \in Conns, SendSegment(d) \/ Receive(d) \/ Close(d) PROVE client'[c].closed
  <2>1. CASE SendSegment(d)
    BY <1>1, <2>1 DEF SendSegment, Program
  <2>2. CASE Receive(d)
    BY <1>1, <2>2 DEF Receive, Program
  <2>3. CASE Close(d)
    BY <1>1, <2>3 DEF Close, Program
  <2> QED BY <1>2, <2>1, <2>2, <2>3, Zenon
<1>3. CASE client' = client
  BY <1>3
<1> QED BY <1>2, <1>3, Steps, Zenon DEF ClientStep, Connect, EpollWait, Accept, LookupClient,
     WaitReturns, Handle, RunReturns, IoStep, IoTake, IoWait, IoRead, IoReadNothing, IoReadBad,
     IoLogout, IoPush, IoPushed, IoSendNothing, IoSend, IoSendClosed, IoSendReset, IoSendBad,
     IoSent, IoEnableRead, ExecPop, ExecAppend, ExecEnableSend

\* Events of a client in use are reported by epoll_wait, and as long as epoll
\* is interested in it.
LEMMA EvtsStep ==
    ASSUME Structure, Batch, Next, NEW c \in Conns, Named(c) = c, info[c].fd \in Fds,
           NEW k \in DOMAIN main'.evts, main'.evts[k].fd = info[c].fd
    PROVE  \/ /\ EpollWait /\ sock[c].interest # None
              /\ main'.evts[k].evt = sock[c].interest
           \/ \E j \in DOMAIN main.evts : main.evts[j] = main'.evts[k]
<1>1. main \in Main /\ main.evts \in Seq(Event)
  BY DEF Structure, TypeOK, Main
<1>2. CASE EpollWait
  <2>1. info[c].fd # Listen
    BY ReactorAssumption DEF Fds
  <2>2. PICK x \in Conns : /\ Named(x) = x /\ sock[x].interest # None
                           /\ main'.evts[k].fd = info[x].fd
                           /\ main'.evts[k].evt = sock[x].interest
    BY <1>2, <2>1, EpollIs, Zenon
  <2>3. x = c
    BY <2>2, Zenon DEF Named
  <2> QED BY <1>2, <2>2, <2>3
<1>3. CASE main'.evts = Tail(main.evts) /\ main.evts # <<>>
  <2>1. k + 1 \in DOMAIN main.evts /\ main'.evts[k] = main.evts[k + 1]
    BY <1>1, <1>3, TailIndex
  <2> QED BY <2>1
<1>4. CASE main'.evts = main.evts
  BY <1>4
<1>5. CASE Accept
  <2>1. main' = [main EXCEPT !.evts = Tail(main.evts)] /\ main.evts # <<>>
    BY <1>5, Zenon DEF Accept
  <2>2. main'.evts = Tail(main.evts)
    BY <1>1, <2>1, Zenon DEF Main
  <2> QED BY <1>3, <2>1, <2>2
<1>6. CASE LookupClient
  <2>1. PICK f \in Fds, e \in Interest : Looks(f, e)
    BY <1>6, LookupIs
  <2> QED BY <1>3, <2>1 DEF Looks
<1>7. CASE WaitReturns \/ Handle
  BY <1>1, <1>4, <1>7 DEF WaitReturns, Handle, Main
<1>8. CASE RunReturns
  <2>1. main'.evts = <<>>
    BY <1>8 DEF RunReturns, MainIdle
  <2> QED BY <2>1
<1>9. CASE main' = main
  BY <1>4, <1>9
<1> QED BY <1>2, <1>5, <1>6, <1>7, <1>8, <1>9, Steps, Zenon DEF ClientStep, Connect, SendSegment,
     Receive, Close, IoStep, IoTake, IoWait, IoRead, IoReadNothing, IoReadBad, IoLogout, IoPush,
     IoPushed, IoSendNothing, IoSend, IoSendClosed, IoSendReset, IoSendBad, IoSent,
     IoEnableRead, ExecPop, ExecAppend, ExecEnableSend

\* A client that is logged out and still in use is one that Wait returned.
LEMMA LogsOutReturned ==
    ASSUME Structure, Kept, Next, NEW c \in Conns, Alive(c)', LogsOut(c)
    PROVE  main' = main /\ \E k \in DOMAIN main.ret : main.ret[k].conn = c
<1>1. PICK t \in IoThreads : IoLogout(t) /\ io[t].conn = c
  BY DEF LogsOut
<1>2. io[t].pc = "IN" /\ io' = IoDone(t) /\ exec' = exec /\ main' = main /\ ~ Accept
  <2>1. io[t].pc = "IN" /\ io' = IoDone(t) /\ exec' = exec /\ main' = main
    BY <1>1, Zenon DEF IoLogout
  <2>2. io'[t].pc = "loop"
    BY <2>1 DEF IoDone, IoIdle, Structure, TypeOK
  <2> QED BY <2>1, <2>2 DEF Accept
<1>3. c # None /\ Accounted(c) /\ client[c].closed /\ clientMap'[info[c].fd] = None
  BY <1>1, <1>2, KeptIo, InterestSet, ReactorAssumption, Zenon DEF LogsOut
<1>4. \A f \in Fds : clientMap'[f] # c
  <2>1. ASSUME NEW f \in Fds, clientMap'[f] = c PROVE FALSE
    <3>1. clientMap'[f] \in {clientMap[f], None}
      BY <1>1, <1>2, TablesShrink DEF Structure
    <3>2. info[c].fd = f
      BY <1>3, <2>1, <3>1 DEF Structure, Accepted
    <3> QED BY <1>3, <2>1, <3>2, Zenon
  <2> QED BY <2>1
<1>5. \A u \in IoThreads : io'[u].conn # c
  <2>1. \A u \in IoThreads : u # t => io[u].conn = None
    BY <1>2, OneWorks DEF Structure, Locals
  <2> QED BY <1>2, <1>3, <2>1 DEF IoDone, IoIdle, Structure, TypeOK
<1>6. exec.conn # c
  BY <1>3, NothingDue DEF Fresh
<1> QED BY <1>2, <1>4, <1>5, <1>6 DEF Alive

\* A client that waits stays registered.
LEMMA RegisteredStep ==
    ASSUME Structure, Batch, Kept, Next, NEW c \in Conns, Alive(c), Alive(c)'
    PROVE  Registered(c)'
<1>1. info'[c].fd = info[c].fd /\ Named(c)' = c
  BY OwnKept
<1>2. info[c].fd \in Fds /\ Registered(c) /\ Named(c) = c /\ Accounted(c)
  BY AliveHasFd DEF Structure, Kept, Registered
<1>3. CASE LogsOut(c)
  <2>1. client[c].closed /\ sock'[c].interest = None /\ clientMap'[info[c].fd] = None
    BY <1>3, InterestSet
  <2>2. main' = main /\ \E k \in DOMAIN main.ret : main.ret[k].conn = c
    BY <1>3, LogsOutReturned
  <2>3. \A k \in DOMAIN main'.evts : main'.evts[k].fd # info[c].fd
    BY <2>2 DEF Batch
  <2>4. client'[c].closed /\ c # None
    BY <2>1, ClosedKept, ReactorAssumption, Zenon
  <2> QED BY <1>1, <2>1, <2>3, <2>4, Zenon DEF Registered
<1>4. CASE ~ LogsOut(c)
  <2>1. clientMap'[info[c].fd] = clientMap[info[c].fd]
    BY <1>4, MapStep
  <2>2. sock'[c].interest = None <=> sock[c].interest = None
    <3>1. CASE EnablesRead(c) \/ EnablesSend(c)
      BY <3>1, InterestSet, ReactorAssumption
    <3>2. CASE ~ EnablesRead(c) /\ ~ EnablesSend(c)
      BY <1>4, <3>2, InterestStep
    <3> QED BY <3>1, <3>2
  <2>3. CASE clientMap[info[c].fd] = c
    BY <1>1, <1>2, <2>1, <2>2, <2>3 DEF Registered
  <2>4. CASE clientMap[info[c].fd] # c
    <3>1. client'[c].closed /\ sock'[c].interest = None
      BY <1>2, <2>2, <2>4, ClosedKept DEF Registered
    <3>2. \A k \in DOMAIN main'.evts : main'.evts[k].fd # info[c].fd
      BY <1>2, <2>4, EvtsStep DEF Registered
    <3> QED BY <1>1, <2>1, <2>4, <3>1, <3>2, Zenon DEF Registered
  <2> QED BY <2>3, <2>4
<1> QED BY <1>3, <1>4

(***************************************************************************)
(* The events of a waiting client.                                         *)
(***************************************************************************)
\* The events of a client in use stay in their order, and epoll_wait adds one
\* of the kind epoll is interested in.
LEMMA FlightStep ==
    ASSUME Structure, Batch, Kept, Next, NEW c \in Conns, Alive(c), Alive(c)',
           NEW d \in Interest, NEW e \in Interest, EpollWait => e # sock[c].interest
    PROVE  (Flies(c, e)' => Flies(c, e)) /\ (Before(c, d, e)' => Before(c, d, e))
<1>1. CASE ~ Accept /\ ~ EpollWait
  BY <1>1, FlightKept
<1>2. info'[c].fd = info[c].fd /\ info[c].fd \in Fds /\ Named(c) = c
  BY OwnKept, AliveHasFd DEF Structure, Kept, Registered
<1>3. ASSUME AtMain(c, e)' => AtMain(c, e), cliQue' = cliQue, io' = io
      PROVE  (Flies(c, e)' => Flies(c, e)) /\ (Before(c, d, e)' => Before(c, d, e))
  <2>1. \A x, k : AtQue(c, x, k)' <=> AtQue(c, x, k)
    BY <1>3 DEF AtQue
  <2>2. \A x : AtIo(c, x)' <=> AtIo(c, x)
    BY <1>3, Zenon DEF AtIo
  <2>3. Flies(c, e)' => Flies(c, e)
    BY <1>3, <2>1, <2>2 DEF Flies
  <2> QED BY <1>3, <2>1, <2>2, <2>3 DEF Before
<1>4. CASE EpollWait
  <2>1. main.pc = "wait" /\ cliQue' = cliQue /\ io' = io
    BY <1>4 DEF EpollWait
  <2>2. main.evts = <<>> /\ main'.ret = <<>>
    BY <1>4, <2>1, EpollIs, Zenon DEF Batch
  <2>3. ~ AtMain(c, e)'
    <3>1. ASSUME NEW k \in DOMAIN main'.evts, main'.evts[k].fd = info[c].fd, main'.evts[k].evt = e
          PROVE  FALSE
      BY <1>2, <1>4, <2>2, <3>1, EvtsStep
    <3> QED BY <1>2, <2>2, <3>1 DEF AtMain
  <2> QED BY <1>3, <2>1, <2>3
<1>5. CASE Accept
  <2>1. main' = [main EXCEPT !.evts = Tail(main.evts)] /\ cliQue' = cliQue /\ io' = io /\ ~ EpollWait
    BY <1>5 DEF Accept, EpollWait
  <2>2. main'.ret = main.ret /\ main'.next = main.next
    <3>1. main \in Main
      BY DEF Structure, TypeOK
    <3> QED BY <2>1, <3>1, Zenon DEF Main
  <2>3. AtMain(c, e)' => AtMain(c, e)
    <3>1. ASSUME NEW k \in DOMAIN main'.evts, main'.evts[k].fd = info[c].fd, main'.evts[k].evt = e
          PROVE  AtMain(c, e)
      <4>1. PICK j \in DOMAIN main.evts : main.evts[j] = main'.evts[k]
        BY <1>2, <2>1, <3>1, EvtsStep
      <4> QED BY <3>1, <4>1 DEF AtMain
    <3> QED BY <1>2, <2>2, <3>1 DEF AtMain
  <2> QED BY <1>3, <2>1, <2>3
<1> QED BY <1>1, <1>4, <1>5

\* The event an io thread handles is of one kind.
LEMMA OneAtIo ==
    ASSUME Structure, NEW t \in IoThreads, NEW e \in Interest, NEW d \in Interest,
           NEW c \in Conns, io[t].conn = c, io[t].pc \in Kind(e), AtIo(c, d)
    PROVE  d = e
<1>1. PICK u \in IoThreads : io[u].conn = c /\ io[u].pc \in Kind(d)
  BY DEF AtIo
<1>2. io[t].pc # "idle" /\ io[u].pc # "idle"
  BY <1>1 DEF Kind, Interest
<1>3. u = t
  BY <1>2, OneWorks DEF Structure
<1> QED BY <1>1, <1>3 DEF Kind, Interest

\* send_buffer_ is changed by Send and by Append.
LEMMA SendStep ==
    ASSUME Structure, Kept, Next, NEW c \in Conns,
           \A t \in IoThreads : IoSend(t) => io[t].conn # c,
           ExecAppend => exec.conn # c
    PROVE  info'[c].send = info[c].send
<1>1. info \in [Conns -> ClientInfo] /\ info[c] \in ClientInfo
  BY DEF Structure, TypeOK
<1>2. CASE info' = info
  BY <1>2
<1>3. CASE Accept
  BY <1>3, AcceptIs, AcceptFds DEF Structure
<1>4. ASSUME NEW t \in IoThreads, IoRead(t) PROVE info'[c].send = info[c].send
  <2>1. PICK d, m, n : info' = [info EXCEPT ![d].recv = m, ![d].parsed = @ + n]
    BY <1>4, Zenon DEF IoRead
  <2> QED BY <1>1, <2>1, Zenon DEF ClientInfo
<1>5. ASSUME NEW t \in IoThreads, IoSend(t) PROVE info'[c].send = info[c].send
  BY <1>1, <1>5, Zenon DEF IoSend
<1>6. CASE ExecAppend
  BY <1>1, <1>6, Zenon DEF ExecAppend
<1> QED BY <1>2, <1>3, <1>4, <1>5, <1>6, NoReset, Steps, Zenon DEF ClientStep, Connect, SendSegment,
     Receive, Close, EpollWait, LookupClient, WaitReturns, Handle, RunReturns, IoStep, IoTake, IoWait,
     IoReadNothing, IoReadBad, IoLogout, IoPush, IoPushed, IoSendNothing, IoSendBad, IoSent,
     IoEnableRead, ExecPop, ExecEnableSend

\* A client whose request is read has no event EPOLLOUT left: epoll is asked
\* for EPOLLIN, and what it reported before was handled.
LEMMA ReadsFirst ==
    ASSUME Structure, Kept, NEW c \in Conns, NEW t \in IoThreads, IoRead(t), io[t].conn = c
    PROVE  sock[c].interest = "IN" /\ ~ Flies(c, "OUT")
<1>1. /\ Named(c) = c /\ Accounted(c) /\ EventsInOrder(c) /\ Registered(c)
      /\ io[t].pc = "IN" /\ sock[c].rx > 0
  <2>1. io[t].pc = "IN"
    BY DEF IoRead
  <2>2. /\ Named(c) = c /\ Accounted(c) /\ EventsInOrder(c) /\ Registered(c)
    BY <2>1, KeptIo
  <2> QED BY <2>1, <2>2 DEF IoRead
<1>2. sock[c] \in Socket /\ sock[c].rx # 0
  <2>1. sock[c] \in Socket
    BY DEF Structure, TypeOK
  <2>2. sock[c].rx \in Nat
    BY <2>1 DEF Socket
  <2> QED BY <1>1, <2>1, <2>2
<1>3. info[c].send = <<>> /\ ~ client[c].closed
  BY <1>1, <1>2, NothingDue, Zenon
<1>4. AtIo(c, "IN") /\ Flies(c, "IN")
  BY <1>1 DEF AtIo, Flies, Kind
<1>5. sock[c].interest # "OUT"
  BY <1>1, <1>3, <1>4, ReactorAssumption DEF EventsInOrder
<1>6. sock[c].interest # None
  BY <1>1, <1>3, Zenon DEF Registered
<1>7. sock[c].interest = "IN"
  BY <1>2, <1>5, <1>6 DEF Socket, MaybeInterest, Interest
<1>8. ~ Before(c, "IN", "OUT")
  BY <1>1, <1>7 DEF EventsInOrder
<1>9. ~ AtIo(c, "OUT")
  BY <1>1, OneAtIo DEF Kind, Interest
<1> QED BY <1>4, <1>7, <1>8, <1>9, Zenon DEF Before, Flies

\* An io thread that sends for a client epoll is asked EPOLLOUT of: no event
\* EPOLLIN is left.
LEMMA SendsFirst ==
    ASSUME Structure, Kept, NEW c \in Conns, NEW t \in IoThreads, io[t].pc \in Kind("OUT"),
           io[t].conn = c, sock[c].interest = "OUT"
    PROVE  ~ Flies(c, "IN")
<1>1. EventsInOrder(c)
  BY KeptIo DEF Kind
<1>2. AtIo(c, "OUT")
  BY DEF AtIo
<1>3. ~ Before(c, "OUT", "IN")
  BY <1>1 DEF EventsInOrder
<1>4. ~ AtIo(c, "IN")
  BY OneAtIo DEF Interest
<1> QED BY <1>2, <1>3, <1>4 DEF Before, Flies

=============================================================================
