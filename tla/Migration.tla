----------------------------- MODULE Migration ------------------------------
(***************************************************************************)
(* FORK ip:port, the copy of a database to another server: the command     *)
(* thread of the source connects, writes the requests Db::Fork makes of    *)
(* the database, reads what has come back and closes the connection; the   *)
(* receiver treats it as a client like any other.  A server may send and   *)
(* receive at the same time, also to and from itself.                      *)
(*                                                                         *)
(* Requests are the unit in which a socket is filled and emptied (Wire has *)
(* the bytes), and the interest of epoll is Reactor's: as there, a         *)
(* connection is read while it is in "in", and in "out" only by an event   *)
(* queued before.  The raw ENDFORKING that ends the stream has no brackets *)
(* and stays in recv_buffer_ for ever; it is left out.                     *)
(***************************************************************************)
EXTENDS Naturals, FiniteSets, Subsequences

CONSTANTS
    Servers,    \* servers
    Numbers,    \* numbers of databases; 0 is the number of the first one
    Keys,       \* Keys[n]: the keys used in databases numbered n, on any server
    Layouts,    \* what the databases may hold at first: per server and number
    Passwords,  \* the passwords the servers may be configured with: per server
    SockCap,    \* requests a socket holds in the direction of the receiver
    BackCap,    \* replies a socket holds in the direction of the source
    MaxForks,   \* bound: FORKs of a server
    MaxCrashes  \* bound: servers that are killed

NoConn == <<>>

ASSUME MigrationAssumption ==
    /\ NoConn \notin Servers
    /\ 0 \in Numbers
    /\ {SockCap, BackCap} \subseteq Nat \ {0}
    /\ \A n \in Numbers : IsFiniteSet(Keys[n])
    /\ \A m, n \in Numbers : m # n => Keys[m] \cap Keys[n] = {}
    /\ Layouts \subseteq [Servers -> {f \in [Numbers -> SUBSET UNION {Keys[n] : n \in Numbers}] :
                                        \A n \in Numbers : f[n] \subseteq Keys[n]}]

VARIABLES
    up,         \* the server runs
    password,   \* each server's password
    content,    \* keys of each database of each server
    exists,     \* numbers of the databases each server has
    forking,    \* connection of the FORK the command thread is in, or NoConn
    pc,         \* where in ServerCommand::Exec: "idle", "write", "read", "close"
    cmdQue,     \* cmd_que_ of each server, of the connections here
    conn        \* the connections FORK opens

vars == <<up, password, content, exists, forking, pc, cmdQue, conn>>

Conns == Servers \X (1..MaxForks)

\* The requests of a database: Db::Fork.
Select(number, word) == [cmd |-> "SELECT", number |-> number, password |-> word]
Put(key) == [cmd |-> "PUT", key |-> key]

\* The order in which Db::Fork meets the entries of a database.
Order(keys) ==
    CHOOSE f \in [1..Cardinality(keys) -> keys] :
        \A i, j \in 1..Cardinality(keys) : f[i] = f[j] => i = j

Fork(s, number) ==
    <<Select(number, password[s])>> \o
    [i \in 1..Cardinality(content[s][number]) |-> Put(Order(content[s][number])[i])]

\* A connection that has not been opened.  plan is what the FORK set out to
\* write, done (a history) what the receiver has executed.
Unopened ==
    [to |-> NoConn, number |-> 0, plan |-> <<>>, result |-> "none",
     todo |-> <<>>, rx |-> <<>>, done |-> <<>>, cur |-> 0, open |-> FALSE, reset |-> FALSE,
     alive |-> FALSE, interest |-> "in", sendBuf |-> 0, back |-> 0]

Init ==
    /\ up = [s \in Servers |-> TRUE]
    /\ password \in Passwords
    /\ content \in Layouts
    /\ exists = [s \in Servers |-> {0} \cup {n \in Numbers : content[s][n] # {}}]
    /\ forking = [s \in Servers |-> NoConn]
    /\ pc = [s \in Servers |-> "idle"]
    /\ cmdQue = [s \in Servers |-> <<>>]
    /\ conn = [c \in Conns |-> Unopened]

Idle(s) == up[s] /\ pc[s] = "idle"

(***************************************************************************)
(* The source: ServerCommand::Exec.                                        *)
(***************************************************************************)
\* connect fails.
ConnectFails(s, number, t) ==
    /\ Idle(s) /\ number \in exists[s] /\ ~up[t]
    /\ \E i \in 1..MaxForks :
         /\ conn[<<s, i>>] = Unopened
         /\ conn' = [conn EXCEPT ![<<s, i>>] =
                       [@ EXCEPT !.to = t, !.number = number, !.result = "Connect faied"]]
    /\ UNCHANGED <<up, password, content, exists, forking, pc, cmdQue>>

\* connect, which needs nobody to accept it, and the requests of the client's
\* database; the receiver's main loop will give the connection its first one.
Connect(s, number, t) ==
    /\ Idle(s) /\ number \in exists[s] /\ up[t]
    /\ \E i \in 1..MaxForks :
         /\ conn[<<s, i>>] = Unopened
         /\ conn' = [conn EXCEPT ![<<s, i>>] =
                       [@ EXCEPT !.to = t, !.number = number, !.plan = Fork(s, number),
                                 !.todo = Fork(s, number), !.open = TRUE, !.alive = TRUE]]
         /\ forking' = [forking EXCEPT ![s] = <<s, i>>]
    /\ pc' = [pc EXCEPT ![s] = "write"]
    /\ UNCHANGED <<up, password, content, exists, cmdQue>>

\* Mutation: what has been written is not skipped.
WriteAgain(s) ==
    /\ up[s] /\ pc[s] = "write"
    /\ LET c == forking[s] IN
         /\ up[conn[c].to] /\ conn[c].todo # <<>> /\ Len(conn[c].rx) < SockCap
         /\ conn' = [conn EXCEPT ![c].rx = Append(@, Head(conn[c].todo))]
    /\ UNCHANGED <<up, password, content, exists, forking, pc, cmdQue>>

\* write of a request; with no room it fails with EAGAIN and is tried again.
Write(s) ==
    /\ up[s] /\ pc[s] = "write"
    /\ LET c == forking[s] IN
         /\ up[conn[c].to] /\ conn[c].todo # <<>> /\ Len(conn[c].rx) < SockCap
         /\ conn' = [conn EXCEPT ![c] = [@ EXCEPT
                       !.todo = Tail(conn[c].todo),
                       !.rx = Append(conn[c].rx, Head(conn[c].todo))]]
    /\ UNCHANGED <<up, password, content, exists, forking, pc, cmdQue>>

Reply(s, c, result) ==
    /\ conn' = [conn EXCEPT ![c].result = result]
    /\ forking' = [forking EXCEPT ![s] = NoConn]
    /\ pc' = [pc EXCEPT ![s] = "idle"]

\* write fails otherwise: an answer at once, and the descriptor stays open.
WriteFails(s) ==
    /\ up[s] /\ pc[s] = "write"
    /\ ~up[conn[forking[s]].to]
    /\ Reply(s, forking[s], "Write Error")
    /\ UNCHANGED <<up, password, content, exists, cmdQue>>

WriteDone(s) ==
    /\ up[s] /\ pc[s] = "write"
    /\ conn[forking[s]].todo = <<>>
    /\ pc' = [pc EXCEPT ![s] = "read"]
    /\ UNCHANGED <<up, password, content, exists, forking, cmdQue, conn>>

\* Mutation: the socket is not made non-blocking.
ReadBlocks(s) ==
    /\ up[s] /\ pc[s] = "read"
    /\ LET c == forking[s] IN
         /\ conn[c].back > 0 \/ ~up[conn[c].to]
         /\ pc' = [pc EXCEPT ![s] = IF conn[c].back = 0 THEN "close" ELSE "read"]
         /\ conn' = [conn EXCEPT ![c].back = 0]
    /\ UNCHANGED <<up, password, content, exists, forking, cmdQue>>

\* One read of the loop: it goes on as long as it gets anything.
Read(s) ==
    /\ up[s] /\ pc[s] = "read"
    /\ LET c == forking[s] IN
         /\ pc' = [pc EXCEPT ![s] = IF conn[c].back = 0 THEN "close" ELSE "read"]
         /\ conn' = [conn EXCEPT ![c].back = 0]
    /\ UNCHANGED <<up, password, content, exists, forking, cmdQue>>

\* close and "OK".  Closing a socket with unread replies resets the
\* connection, and requests the receiver's host does not have yet are lost.
Close(s) ==
    /\ up[s] /\ pc[s] = "close"
    /\ LET c == forking[s] IN
         \E n \in 0..Len(conn[c].rx) :
           /\ n < Len(conn[c].rx) => conn[c].back > 0
           /\ conn' = [conn EXCEPT ![c] =
                         [@ EXCEPT !.result = "OK", !.open = FALSE,
                                   !.rx = SubSeq(conn[c].rx, 1, n),
                                   !.reset = n < Len(conn[c].rx), !.back = 0]]
    /\ forking' = [forking EXCEPT ![s] = NoConn]
    /\ pc' = [pc EXCEPT ![s] = "idle"]
    /\ UNCHANGED <<up, password, content, exists, cmdQue>>

(***************************************************************************)
(* The receiver: io threads and command thread.                            *)
(***************************************************************************)
Receiving(c) == conn[c].to # NoConn /\ conn[c].alive /\ up[conn[c].to]

\* Handler::ioClient: what has arrived is queued for the command thread.
IoRead(c) ==
    /\ Receiving(c) /\ conn[c].rx # <<>>
    /\ cmdQue' = [cmdQue EXCEPT ![conn[c].to] =
                    @ \o [i \in DOMAIN conn[c].rx |-> [conn |-> c, req |-> conn[c].rx[i]]]]
    /\ conn' = [conn EXCEPT ![c].rx = <<>>]
    /\ UNCHANGED <<up, password, content, exists, forking, pc>>

\* Handler::ioClient: Read returns 0, and the connection is removed.
IoEnd(c) ==
    /\ Receiving(c) /\ conn[c].rx = <<>> /\ ~conn[c].open
    /\ conn' = [conn EXCEPT ![c].alive = FALSE]
    /\ UNCHANGED <<up, password, content, exists, forking, pc, cmdQue>>

\* Handler::ioClient: Send writes what fits; with nothing left to send the
\* connection is read again.  A closed one takes everything.
IoSend(c) ==
    /\ Receiving(c) /\ conn[c].interest = "out"
    /\ LET room == BackCap - conn[c].back
           all == ~conn[c].open \/ conn[c].sendBuf <= room
       IN /\ all \/ room > 0
          /\ conn' = [conn EXCEPT ![c] =
               [@ EXCEPT !.sendBuf = IF all THEN 0 ELSE conn[c].sendBuf - room,
                         !.back = IF ~conn[c].open THEN 0
                                  ELSE IF all THEN conn[c].back + conn[c].sendBuf ELSE BackCap,
                         !.interest = IF all THEN "in" ELSE "out"]]
    /\ UNCHANGED <<up, password, content, exists, forking, pc, cmdQue>>

\* Handler::ExecCommand of a request whose connection is gone.
ExecGone(t) ==
    /\ Idle(t) /\ cmdQue[t] # <<>>
    /\ ~conn[Head(cmdQue[t]).conn].alive
    /\ cmdQue' = [cmdQue EXCEPT ![t] = Tail(@)]
    /\ UNCHANGED <<up, password, content, exists, forking, pc, conn>>

\* The connection with its reply appended, and EnableSend.
Answered(c, req) ==
    [conn[c] EXCEPT !.done = Append(conn[c].done, req),
                    !.sendBuf = conn[c].sendBuf + 1, !.interest = "out"]

\* Mutation: the password is not looked at and no database is made.
ExecSelectPlain(t) ==
    /\ Idle(t) /\ cmdQue[t] # <<>>
    /\ LET c == Head(cmdQue[t]).conn
           req == Head(cmdQue[t]).req
           found == req.number \in exists[t]
       IN /\ conn[c].alive /\ req.cmd = "SELECT"
          /\ conn' = [conn EXCEPT ![c] =
                        [Answered(c, req) EXCEPT !.cur = IF found THEN req.number ELSE 0]]
    /\ cmdQue' = [cmdQue EXCEPT ![t] = Tail(@)]
    /\ UNCHANGED <<up, password, content, exists, forking, pc>>

\* CliCommand::Exec of SELECT: SuGetDB with the right password, else GetDB,
\* which gives the first database if there is none of that number.
ExecSelect(t) ==
    /\ Idle(t) /\ cmdQue[t] # <<>>
    /\ LET c == Head(cmdQue[t]).conn
           req == Head(cmdQue[t]).req
           super == req.password = password[t]
           found == req.number \in exists[t]
       IN /\ conn[c].alive /\ req.cmd = "SELECT"
          /\ exists' = IF super THEN [exists EXCEPT ![t] = @ \cup {req.number}] ELSE exists
          /\ conn' = [conn EXCEPT ![c] = [Answered(c, req) EXCEPT
                        !.cur = IF super \/ found THEN req.number ELSE 0]]
    /\ cmdQue' = [cmdQue EXCEPT ![t] = Tail(@)]
    /\ UNCHANGED <<up, password, content, forking, pc>>

\* A command that makes an entry, in the database of the connection.
ExecPut(t) ==
    /\ Idle(t) /\ cmdQue[t] # <<>>
    /\ LET c == Head(cmdQue[t]).conn
           req == Head(cmdQue[t]).req
       IN /\ conn[c].alive /\ req.cmd = "PUT"
          /\ content' = [content EXCEPT ![t][conn[c].cur] = @ \cup {req.key}]
          /\ conn' = [conn EXCEPT ![c] = Answered(c, req)]
    /\ cmdQue' = [cmdQue EXCEPT ![t] = Tail(@)]
    /\ UNCHANGED <<up, password, exists, forking, pc>>

(***************************************************************************)
(* A server is killed: its sockets are closed.                             *)
(***************************************************************************)
Crash(s) ==
    /\ up[s] /\ Cardinality({t \in Servers : ~up[t]}) < MaxCrashes
    /\ up' = [up EXCEPT ![s] = FALSE]
    /\ pc' = [pc EXCEPT ![s] = "idle"]
    /\ forking' = [forking EXCEPT ![s] = NoConn]
    /\ cmdQue' = [cmdQue EXCEPT ![s] = <<>>]
    /\ conn' = [c \in Conns |->
                  IF c[1] = s THEN [conn[c] EXCEPT !.open = FALSE, !.todo = <<>>] ELSE conn[c]]
    /\ UNCHANGED <<password, content, exists>>

SourceStep(s) == Write(s) \/ WriteFails(s) \/ WriteDone(s) \/ Read(s) \/ Close(s)
ExecStep(s) == ExecGone(s) \/ ExecSelect(s) \/ ExecPut(s)

Next ==
    \/ \E s \in Servers :
         \/ \E t \in Servers, n \in Numbers : ConnectFails(s, n, t) \/ Connect(s, n, t)
         \/ SourceStep(s) \/ ExecStep(s) \/ Crash(s)
    \/ \E c \in Conns : IoRead(c) \/ IoEnd(c) \/ IoSend(c)

Spec == Init /\ [][Next]_vars

\* The threads run.  A connection is sure to be read only while epoll is
\* asked for input; nobody need start a FORK, and servers need not die.
FairSpec ==
    /\ Spec
    /\ \A s \in Servers : WF_vars(SourceStep(s)) /\ WF_vars(ExecStep(s))
    /\ \A c \in Conns : /\ WF_vars(conn[c].interest = "in" /\ IoRead(c))
                        /\ WF_vars(IoSend(c))

(***************************************************************************)
(* Properties.                                                             *)
(***************************************************************************)
\* The requests of connection c in a queue, in order.
RequestsOf(c, que) ==
    Pick([i \in DOMAIN que |-> que[i].req], {i \in DOMAIN que : que[i].conn = c})
Queued(c) == RequestsOf(c, cmdQue[conn[c].to])

\* The receiver executes the requests of a FORK in the order Db::Fork made
\* them and each once, whatever else the two servers do to each other; as
\* long as both run and nobody hung up, none is missing.
Conserved ==
    \A c \in Conns : conn[c].to # NoConn =>
        /\ Begins(conn[c].done, conn[c].plan)
        /\ conn[c].alive /\ ~conn[c].reset /\ up[c[1]] /\ up[conn[c].to] =>
             conn[c].done \o Queued(c) \o conn[c].rx \o conn[c].todo = conn[c].plan

\* An entry never ends up in a database of another number, if the servers
\* have the same password: not with several FORKs under way, nor when the
\* database copied is itself being received.
RightDatabase ==
    (\A s, t \in Servers : password[s] = password[t]) =>
        \A s \in Servers, n \in Numbers : content[s][n] \subseteq Keys[n]

\* A FORK comes to an end, also when two servers FORK to each other or one
\* to itself and their command threads execute nothing meanwhile: the io
\* threads read on.  With one exception: the source reads no reply before it
\* has written everything, and a connection that cannot send its replies is
\* not read; so the replies must fit into the socket.
ForkReturns ==
    \A s \in Servers :
        pc[s] = "write" /\ Len(conn[forking[s]].plan) <= BackCap ~> pc[s] = "idle"

\* "copy data of this db to the address ip:port": once a FORK has answered OK
\* and the receiver, which runs, has nothing of it left to do, it has the data.
ForkCopies ==
    \A c \in Conns :
        conn[c].result = "OK" /\ up[conn[c].to] /\ conn[c].rx = <<>> /\ Queued(c) = <<>> =>
            conn[c].done = conn[c].plan
=============================================================================
