-------------------------- MODULE MigrationProofs ---------------------------
(***************************************************************************)
(* Proofs, for any number of servers, databases, keys and FORKs, that      *)
(* FORKs never mix databases (RightDatabase) and that their requests are   *)
(* executed in order, once and without a loss (Conserved).                 *)
(***************************************************************************)
EXTENDS Migration, SubsequencesProofs, FiniteSetTheorems, TLAPS

SamePassword == \A s, t \in Servers : password[s] = password[t]

AllKeys == UNION {Keys[n] : n \in Numbers}
Reqs ==
    [cmd : {"SELECT"}, number : Numbers, password : {password[s] : s \in Servers}]
    \cup [cmd : {"PUT"}, key : AllKeys]

\* The requests of a FORK of s that copies database n.
Legal(s, n) == {Select(n, password[s])} \cup {Put(k) : k \in Keys[n]}

Results == {"none", "OK", "Write Error", "Connect faied"}
Connection ==
    [to : Servers \cup {NoConn}, number : Numbers, plan : Seq(Reqs), result : Results,
     todo : Seq(Reqs), rx : Seq(Reqs), done : Seq(Reqs), cur : Numbers,
     open : BOOLEAN, reset : BOOLEAN, alive : BOOLEAN, interest : {"in", "out"},
     sendBuf : Int, back : Int]

Queueable == [conn : Conns, req : Reqs]

TypeOK ==
    /\ up \in [Servers -> BOOLEAN]
    /\ content \in [Servers -> [Numbers -> SUBSET AllKeys]]
    /\ forking \in [Servers -> Conns \cup {NoConn}]
    /\ pc \in [Servers -> {"idle", "write", "read", "close"}]
    /\ cmdQue \in [Servers -> Seq(Queueable)]
    /\ conn \in [Conns -> Connection]

\* A command thread in a FORK has its connection, and has nothing left to
\* write once it reads.
Forking ==
    \A s \in Servers : pc[s] # "idle" =>
        /\ forking[s] \in Conns /\ conn[forking[s]].to \in Servers
        /\ pc[s] # "write" => conn[forking[s]].todo = <<>>

\* Requests stay with the connection they were made for.
Owned ==
    /\ \A c \in Conns : LET legal == Legal(c[1], conn[c].number)
                        IN conn[c].todo \in Seq(legal) /\ conn[c].rx \in Seq(legal)
    /\ \A t \in Servers : \A i \in DOMAIN cmdQue[t] :
         LET c == cmdQue[t][i].conn
         IN conn[c].to = t /\ cmdQue[t][i].req \in Legal(c[1], conn[c].number)

\* A request is executed only for a connection that is alive, by a receiver
\* that runs.
Live(c) == conn[c].to \in Servers /\ conn[c].alive /\ up[conn[c].to]

SelectIn(reqs) == \E i \in DOMAIN reqs : reqs[i].cmd = "SELECT"
SelectFirst(reqs) ==
    \A i \in DOMAIN reqs : reqs[i].cmd = "PUT" => \E j \in 1..i - 1 : reqs[j].cmd = "SELECT"
SelectQueued(que, c, i) ==
    \E j \in 1..i : que[j].conn = c /\ que[j].req.cmd = "SELECT"

\* Before its SELECT a connection is in some database, and no PUT of it is
\* executed there: queue, socket and what is still to be written have the
\* SELECT ahead of every PUT.
Ahead(c) ==
    Live(c) /\ conn[c].cur # conn[c].number =>
        LET que == cmdQue[conn[c].to]
        IN /\ \A i \in DOMAIN que :
                que[i].conn = c /\ que[i].req.cmd = "PUT" => SelectQueued(que, c, i - 1)
           /\ SelectQueued(que, c, Len(que)) \/ SelectFirst(conn[c].rx)
           /\ SelectQueued(que, c, Len(que)) \/ SelectIn(conn[c].rx) \/ SelectFirst(conn[c].todo)
SelectAhead == \A c \in Conns : Ahead(c)

Apart == \A s \in Servers, n \in Numbers : content[s][n] \subseteq Keys[n]

\* The passwords never change, and the rest is shown for equal ones.
Good == TypeOK /\ Forking /\ Owned /\ SelectAhead /\ Apart
IInv == SamePassword => Good

\* Db::Fork meets entries of the database only.
LEMMA OrderType ==
    ASSUME NEW keys, IsFiniteSet(keys)
    PROVE  Order(keys) \in [1..Cardinality(keys) -> keys]
<1>1. PICK f : f \in Bijection(1..Cardinality(keys), keys)
  BY FS_CardinalityType DEF ExistsBijection
<1>2. /\ f \in [1..Cardinality(keys) -> keys]
      /\ \A i, j \in 1..Cardinality(keys) : f[i] = f[j] => i = j
  BY <1>1 DEF Bijection, Injection, IsInjective
<1> QED BY <1>2 DEF Order

\* What Db::Fork makes: a SELECT, then a PUT for every key.
LEMMA ForkLegal ==
    ASSUME NEW s \in Servers, NEW n \in Numbers,
           content[s][n] \subseteq Keys[n]
    PROVE  /\ Fork(s, n) \in Seq(Legal(s, n))
           /\ SelectFirst(Fork(s, n))
<1> DEFINE here == content[s][n]
<1> DEFINE puts == [i \in 1..Cardinality(here) |-> Put(Order(here)[i])]
<1>1. IsFiniteSet(here) /\ Cardinality(here) \in Nat
  BY MigrationAssumption, FS_Subset, FS_CardinalityType
<1>2. Order(here) \in [1..Cardinality(here) -> here]
  BY <1>1, OrderType
<1>3. \A i \in 1..Cardinality(here) : Put(Order(here)[i]) \in Legal(s, n)
  BY <1>2, Zenon DEF Legal
<1>4. puts \in Seq(Legal(s, n)) /\ Len(puts) = Cardinality(here)
  BY <1>1, <1>3
<1>5. <<Select(n, password[s])>> \in Seq(Legal(s, n))
  BY DEF Legal
<1>6. Fork(s, n) = <<Select(n, password[s])>> \o puts
  BY DEF Fork
<1> HIDE DEF puts
<1>7. Fork(s, n)[1] = Select(n, password[s])
  BY <1>4, <1>5, <1>6
<1>8. SelectFirst(Fork(s, n))
  <2> SUFFICES ASSUME NEW i \in DOMAIN Fork(s, n), Fork(s, n)[i].cmd = "PUT"
               PROVE \E j \in 1..i - 1 : Fork(s, n)[j].cmd = "SELECT"
    BY DEF SelectFirst
  <2>1. i \in Nat /\ i >= 1 /\ i # 1
    BY <1>4, <1>5, <1>6, <1>7 DEF Select
  <2> QED BY <2>1, <1>7 DEF Select
<1> QED BY <1>4, <1>5, <1>6, <1>8

\* Legal requests are requests.
LEMMA LegalType ==
    ASSUME NEW s \in Servers, NEW n \in Numbers
    PROVE  /\ Legal(s, n) \subseteq Reqs
           /\ \A r \in Legal(s, n) :
                \/ r.cmd = "SELECT" /\ r.number = n /\ r.password = password[s]
                \/ r.cmd = "PUT" /\ r.key \in Keys[n]
BY DEF Legal, Reqs, AllKeys, Select, Put

\* Sequences: an element, the head, and what appending and removing gives.
LEMMA SeqFacts ==
    ASSUME NEW S, NEW q \in Seq(S)
    PROVE  /\ Len(q) \in Nat /\ DOMAIN q = 1..Len(q)
           /\ \A i \in 1..Len(q) : q[i] \in S
           /\ \A e \in S : /\ Append(q, e) \in Seq(S) /\ Len(Append(q, e)) = Len(q) + 1
                           /\ \A i \in 1..Len(q) : Append(q, e)[i] = q[i]
                           /\ Append(q, e)[Len(q) + 1] = e
           /\ q # <<>> => /\ Head(q) = q[1] /\ Head(q) \in S /\ Len(q) >= 1
                          /\ Tail(q) \in Seq(S) /\ Len(Tail(q)) = Len(q) - 1
                          /\ \A i \in 1..Len(q) - 1 : Tail(q)[i] = q[i + 1]
OBVIOUS

\* Sequences: the length and the elements of a concatenation.
LEMMA ConcatFacts ==
    ASSUME NEW S, NEW p \in Seq(S), NEW q \in Seq(S)
    PROVE  /\ p \o q \in Seq(S) /\ Len(p \o q) = Len(p) + Len(q)
           /\ \A i \in 1..Len(p) : (p \o q)[i] = p[i]
           /\ \A i \in 1..Len(q) : (p \o q)[Len(p) + i] = q[i]
OBVIOUS

\* What a queue holds.
LEMMA QueueType ==
    ASSUME TypeOK, NEW t \in Servers, NEW i \in DOMAIN cmdQue[t]
    PROVE  cmdQue[t][i].conn \in Conns /\ cmdQue[t][i].req \in Reqs
<1>1. cmdQue[t][i] \in Queueable
  BY SeqFacts DEF TypeOK
<1> QED BY <1>1 DEF Queueable

\* A step that leaves queues, sockets and databases alone, and at most ends
\* connections, keeps what is said about them.
LEMMA Frame ==
    ASSUME Good, UNCHANGED <<password, content, cmdQue, up>>, TypeOK', Forking',
           \A c \in Conns :
             /\ conn'[c].to = conn[c].to /\ conn'[c].number = conn[c].number
             /\ conn'[c].todo = conn[c].todo /\ conn'[c].rx = conn[c].rx
             /\ conn'[c].cur = conn[c].cur
             /\ conn'[c].alive => conn[c].alive
    PROVE  Good'
<1>1. Apart'
  BY DEF Good, Apart
<1>2. Owned'
  <2>1. \A c \in Conns : Legal(c[1], conn[c].number)' = Legal(c[1], conn[c].number)
    BY DEF Legal, Select, Put
  <2>2. \A t \in Servers : \A i \in DOMAIN cmdQue[t] : cmdQue[t][i].conn \in Conns
    BY QueueType DEF Good
  <2> QED BY <2>1, <2>2 DEF Good, Owned
<1>3. SelectAhead'
  <2> SUFFICES ASSUME NEW c \in Conns PROVE Ahead(c)'
    BY DEF SelectAhead
  <2>1. Live(c)' => Live(c)
    BY DEF Live
  <2>2. Ahead(c)
    BY DEF Good, SelectAhead
  <2> QED BY <2>1, <2>2 DEF Ahead, SelectIn, SelectFirst
<1> QED BY <1>1, <1>2, <1>3 DEF Good

\* Requests and connections are the same sets throughout.
LEMMA PasswordFixed ==
    ASSUME UNCHANGED password
    PROVE  /\ Reqs' = Reqs /\ Queueable' = Queueable /\ Connection' = Connection
           /\ \A s, n : Legal(s, n)' = Legal(s, n)
<1>1. Reqs' = Reqs
  BY DEF Reqs
<1>2. Queueable' = Queueable /\ Connection' = Connection
  BY <1>1 DEF Queueable, Connection
<1> QED BY <1>1, <1>2 DEF Legal, Select, Put

\* What is to be shown of connections and queues after a step.
LEMMA OwnedAfter ==
    ASSUME UNCHANGED password,
           \A c \in Conns : /\ conn'[c].todo \in Seq(Legal(c[1], conn'[c].number))
                            /\ conn'[c].rx \in Seq(Legal(c[1], conn'[c].number)),
           \A t \in Servers : \A i \in DOMAIN cmdQue'[t] :
             LET c == cmdQue'[t][i].conn
             IN conn'[c].to = t /\ cmdQue'[t][i].req \in Legal(c[1], conn'[c].number)
    PROVE  Owned'
<1>1. \A s, n : Legal(s, n)' = Legal(s, n)
  BY PasswordFixed
<1> QED BY <1>1 DEF Owned

\* What the steps that send no requests do to a connection.
LEMMA Updated ==
    ASSUME NEW r \in Connection
    PROVE  /\ \A x \in Results : [r EXCEPT !.result = x] \in Connection
           /\ \A x \in Int : [r EXCEPT !.back = x] \in Connection
BY Zenon DEF Connection

\* What sending replies changes of a connection.
LEMMA SendEffect ==
    ASSUME NEW c \in Conns, conn[c] \in Connection, IoSend(c)
    PROVE  \E n \in Int, b \in Int, i \in {"in", "out"} :
             /\ conn' = [conn EXCEPT ![c] = [conn[c] EXCEPT !.sendBuf = n, !.back = b, !.interest = i]]
             /\ UNCHANGED <<up, password, content, forking, pc, cmdQue>>
<1> DEFINE room == BackCap - conn[c].back
<1> DEFINE all == ~conn[c].open \/ conn[c].sendBuf <= room
<1> DEFINE n == IF all THEN 0 ELSE conn[c].sendBuf - room
<1> DEFINE b == IF ~conn[c].open THEN 0
                ELSE IF all THEN conn[c].back + conn[c].sendBuf ELSE BackCap
<1> DEFINE i == IF all THEN "in" ELSE "out"
<1>1. n \in Int /\ b \in Int /\ i \in {"in", "out"}
  BY MigrationAssumption DEF Connection
<1>2. conn' = [conn EXCEPT ![c] = [conn[c] EXCEPT !.sendBuf = n, !.back = b, !.interest = i]]
  BY Zenon DEF IoSend
<1>3. UNCHANGED <<up, password, content, forking, pc, cmdQue>>
  BY Zenon DEF IoSend
<1> HIDE DEF n, b, i
<1> QED BY <1>1, <1>2, <1>3, Zenon

\* The source reads and answers, the receiver's io threads send replies and
\* remove a connection that has ended.
LEMMA QuietSteps ==
    ASSUME Good,
           \/ \E s \in Servers : WriteFails(s) \/ WriteDone(s) \/ Read(s)
           \/ \E c \in Conns : IoEnd(c) \/ IoSend(c)
           \/ UNCHANGED vars
    PROVE  Good'
<1> USE DEF Good
<1>1. ASSUME NEW s \in Servers, WriteFails(s) PROVE Good'
  <2>0. PICK c \in Conns : c = forking[s]
    BY <1>1, Zenon DEF WriteFails, Forking
  <2> DEFINE after == [conn[c] EXCEPT !.result = "Write Error"]
  <2>1. conn[c] \in Connection
    BY DEF TypeOK
  <2>2. /\ conn' = [conn EXCEPT ![c] = after]
        /\ forking' = [forking EXCEPT ![s] = NoConn] /\ pc' = [pc EXCEPT ![s] = "idle"]
        /\ UNCHANGED <<up, password, content, cmdQue>>
    BY <2>0, <1>1, Zenon DEF WriteFails, Reply
  <2>3. /\ after \in Connection
        /\ after.to = conn[c].to /\ after.number = conn[c].number /\ after.todo = conn[c].todo
        /\ after.rx = conn[c].rx /\ after.cur = conn[c].cur /\ after.alive = conn[c].alive
    <3>0. PICK x \in Results : x = "Write Error"
      BY DEF Results
    <3>1. after \in Connection
      BY <2>1, <3>0, Updated, Zenon
    <3>2. after.alive = conn[c].alive
      BY <2>1 DEF Connection
    <3>3. /\ after.to = conn[c].to /\ after.number = conn[c].number /\ after.todo = conn[c].todo
          /\ after.rx = conn[c].rx /\ after.cur = conn[c].cur
      BY <2>1 DEF Connection
    <3> QED BY <3>1, <3>2, <3>3, Zenon
  <2> HIDE DEF after
  <2>4. TypeOK'
    BY <2>2, <2>3, PasswordFixed DEF TypeOK
  <2>5. Forking'
    BY <2>0, <2>2, <2>3 DEF TypeOK, Forking
  <2> QED BY <2>2, <2>3, <2>4, <2>5, Frame DEF TypeOK
<1>2. ASSUME NEW s \in Servers, WriteDone(s) PROVE Good'
  <2>1. /\ UNCHANGED <<up, password, content, forking, cmdQue, conn>>
        /\ pc' = [pc EXCEPT ![s] = "read"] /\ pc[s] = "write" /\ conn[forking[s]].todo = <<>>
    BY <1>2 DEF WriteDone
  <2>2. TypeOK'
    BY <2>1, PasswordFixed DEF TypeOK
  <2>3. Forking'
    BY <2>1 DEF TypeOK, Forking
  <2> QED BY <2>1, <2>2, <2>3, Frame
<1>3. ASSUME NEW s \in Servers, Read(s) PROVE Good'
  <2>0. PICK c \in Conns : c = forking[s]
    BY <1>3 DEF Read, Forking
  <2> DEFINE after == [conn[c] EXCEPT !.back = 0]
  <2>1. conn[c] \in Connection
    BY DEF TypeOK
  <2>2. /\ conn' = [conn EXCEPT ![c] = after] /\ pc[s] = "read"
        /\ \E to \in {"read", "close"} : pc' = [pc EXCEPT ![s] = to]
        /\ UNCHANGED <<up, password, content, forking, cmdQue>>
    BY <2>0, <1>3, Zenon DEF Read
  <2>3. /\ after \in Connection
        /\ after.to = conn[c].to /\ after.number = conn[c].number /\ after.todo = conn[c].todo
        /\ after.rx = conn[c].rx /\ after.cur = conn[c].cur /\ after.alive = conn[c].alive
    <3>1. after \in Connection
      BY <2>1, Updated
    <3>2. after.alive = conn[c].alive
      BY <2>1 DEF Connection
    <3>3. /\ after.to = conn[c].to /\ after.number = conn[c].number /\ after.todo = conn[c].todo
          /\ after.rx = conn[c].rx /\ after.cur = conn[c].cur
      BY <2>1 DEF Connection
    <3> QED BY <3>1, <3>2, <3>3
  <2> HIDE DEF after
  <2>4. TypeOK'
    BY <2>2, <2>3, PasswordFixed DEF TypeOK
  <2>5. Forking'
    BY <2>0, <2>2, <2>3 DEF TypeOK, Forking
  <2> QED BY <2>2, <2>3, <2>4, <2>5, Frame DEF TypeOK
<1>4. ASSUME NEW c \in Conns, NEW after \in Connection,
             conn' = [conn EXCEPT ![c] = after],
             UNCHANGED <<up, password, content, forking, pc, cmdQue>>,
             after.to = conn[c].to, after.number = conn[c].number, after.todo = conn[c].todo,
             after.rx = conn[c].rx, after.cur = conn[c].cur, after.alive => conn[c].alive
      PROVE Good'
  <2>1. TypeOK'
    BY <1>4, PasswordFixed DEF TypeOK
  <2>2. Forking'
    BY <1>4 DEF TypeOK, Forking
  <2> QED BY <1>4, <2>1, <2>2, Frame DEF TypeOK
<1>5. ASSUME NEW c \in Conns, IoEnd(c) PROVE Good'
  <2> DEFINE after == [conn[c] EXCEPT !.alive = FALSE]
  <2>1. conn[c] \in Connection
    BY DEF TypeOK
  <2>2. /\ after \in Connection
        /\ after.to = conn[c].to /\ after.number = conn[c].number /\ after.todo = conn[c].todo
        /\ after.rx = conn[c].rx /\ after.cur = conn[c].cur /\ ~after.alive
    BY <2>1, Zenon DEF Connection
  <2>3. conn' = [conn EXCEPT ![c] = after] /\ UNCHANGED <<up, password, content, forking, pc, cmdQue>>
    BY <1>5 DEF IoEnd
  <2> HIDE DEF after
  <2> QED BY <1>4, <2>2, <2>3, Zenon
<1>6. ASSUME NEW c \in Conns, IoSend(c) PROVE Good'
  <2>1. conn[c] \in Connection
    BY DEF TypeOK
  <2>2. PICK n \in Int, b \in Int, i \in {"in", "out"} :
           /\ conn' = [conn EXCEPT ![c] = [conn[c] EXCEPT !.sendBuf = n, !.back = b, !.interest = i]]
           /\ UNCHANGED <<up, password, content, forking, pc, cmdQue>>
    BY <1>6, <2>1, SendEffect
  <2> DEFINE after == [conn[c] EXCEPT !.sendBuf = n, !.back = b, !.interest = i]
  <2>3. /\ after \in Connection
        /\ after.to = conn[c].to /\ after.number = conn[c].number /\ after.todo = conn[c].todo
        /\ after.rx = conn[c].rx /\ after.cur = conn[c].cur /\ after.alive = conn[c].alive
    BY <2>1, Zenon DEF Connection
  <2>4. conn' = [conn EXCEPT ![c] = after]
    BY <2>2
  <2> HIDE DEF after
  <2> QED BY <1>4, <2>2, <2>3, <2>4, Zenon
<1>7. CASE UNCHANGED vars
  <2>1. TypeOK' /\ Forking'
    BY <1>7, PasswordFixed DEF vars, TypeOK, Forking
  <2> QED BY <1>7, <2>1, Frame DEF vars
<1> QED BY <1>1, <1>2, <1>3, <1>5, <1>6, <1>7

\* A step that changes one connection and no queue, and keeps whose requests
\* they are once the connection has been opened.
LEMMA OneConnection ==
    ASSUME Good, UNCHANGED <<password, content, cmdQue, up>>, TypeOK', Forking',
           NEW c \in Conns, NEW after \in Connection, conn' = [conn EXCEPT ![c] = after],
           conn[c].to = NoConn \/ (after.to = conn[c].to /\ after.number = conn[c].number),
           after.todo \in Seq(Legal(c[1], after.number)),
           after.rx \in Seq(Legal(c[1], after.number)),
           Ahead(c)'
    PROVE  Good'
<1> USE DEF Good
<1>1. Apart'
  BY DEF Apart
<1>2. /\ \A d \in Conns \ {c} : conn'[d] = conn[d]
      /\ conn'[c] = after
  BY DEF TypeOK
<1>3. Owned'
  <2>1. UNCHANGED password
    OBVIOUS
  <2>2. ASSUME NEW t \in Servers, NEW i \in DOMAIN cmdQue'[t]
        PROVE LET d == cmdQue'[t][i].conn
              IN conn'[d].to = t /\ cmdQue'[t][i].req \in Legal(d[1], conn'[d].number)
    <3>0. cmdQue' = cmdQue
      OBVIOUS
    <3>1. PICK d \in Conns : d = cmdQue[t][i].conn
      BY <3>0, QueueType
    <3>2. conn[d].to = t /\ cmdQue[t][i].req \in Legal(d[1], conn[d].number)
      BY <3>0, <3>1 DEF Owned
    <3>3. conn[d].to # NoConn
      BY <3>2, MigrationAssumption
    <3> QED BY <1>2, <3>0, <3>1, <3>2, <3>3
  <2>3. ASSUME NEW d \in Conns
        PROVE /\ conn'[d].todo \in Seq(Legal(d[1], conn'[d].number))
              /\ conn'[d].rx \in Seq(Legal(d[1], conn'[d].number))
    BY <1>2 DEF Owned
  <2> QED BY <2>1, <2>2, <2>3, OwnedAfter, Zenon
<1>4. SelectAhead'
  <2> SUFFICES ASSUME NEW d \in Conns, d # c PROVE Ahead(d)'
    BY DEF SelectAhead
  <2>1. Ahead(d)
    BY DEF SelectAhead
  <2>2. conn'[d] = conn[d]
    BY <1>2
  <2>3. Live(d)' => Live(d)
    BY <2>2 DEF Live
  <2> QED BY <2>1, <2>2, <2>3 DEF Ahead, SelectIn, SelectFirst
<1> QED BY <1>1, <1>3, <1>4

\* No request of a connection that has not been opened is in a queue, and no
\* command thread is busy with it.
LEMMA NotOpened ==
    ASSUME Good, NEW c \in Conns, conn[c] = Unopened
    PROVE  /\ \A t \in Servers : \A i \in DOMAIN cmdQue[t] : cmdQue[t][i].conn # c
           /\ \A s \in Servers : pc[s] # "idle" => forking[s] # c
<1>1. conn[c].to \notin Servers
  BY MigrationAssumption DEF Unopened
<1> QED BY <1>1 DEF Good, Owned, Forking

\* The record of a connection no FORK has opened yet is of the type.
LEMMA UnopenedType == Unopened \in Connection
<1>0. <<>> \in Seq(Reqs)
  OBVIOUS
<1>1. PICK none \in Seq(Reqs) : none = <<>>
  BY <1>0, Zenon
<1>2. Unopened = [to |-> NoConn, number |-> 0, plan |-> none, result |-> "none",
         todo |-> none, rx |-> none, done |-> none, cur |-> 0, open |-> FALSE, reset |-> FALSE,
         alive |-> FALSE, interest |-> "in", sendBuf |-> 0, back |-> 0]
  BY <1>1 DEF Unopened
<1> QED BY <1>2, MigrationAssumption DEF Connection, Results

\* What connect, or its failure, makes of a connection.
LEMMA Opened ==
    ASSUME NEW t \in Servers, NEW n \in Numbers, NEW reqs \in Seq(Reqs)
    PROVE  /\ [Unopened EXCEPT !.to = t, !.number = n, !.result = "Connect faied"] \in Connection
           /\ [Unopened EXCEPT !.to = t, !.number = n, !.plan = reqs, !.todo = reqs,
                               !.open = TRUE, !.alive = TRUE] \in Connection
<1>1. ASSUME NEW r \in Connection
      PROVE /\ [r EXCEPT !.to = t, !.number = n, !.result = "Connect faied"] \in Connection
            /\ [r EXCEPT !.to = t, !.number = n, !.plan = reqs, !.todo = reqs,
                         !.open = TRUE, !.alive = TRUE] \in Connection
  BY Zenon DEF Connection, Results
<1> QED BY <1>1, UnopenedType, Zenon

\* connect, or its failure.
LEMMA ConnectSteps ==
    ASSUME Good, NEW s \in Servers, NEW t \in Servers, NEW n \in Numbers,
           ConnectFails(s, n, t) \/ Connect(s, n, t)
    PROVE  Good'
<1> USE DEF Good
<1>1. CASE ConnectFails(s, n, t)
  <2>1. PICK c \in Conns : /\ c[1] = s /\ conn[c] = Unopened
                           /\ conn' = [conn EXCEPT ![c] = [Unopened EXCEPT
                                 !.to = t, !.number = n, !.result = "Connect faied"]]
    BY <1>1, Zenon DEF ConnectFails, Conns
  <2> DEFINE after == [Unopened EXCEPT !.to = t, !.number = n, !.result = "Connect faied"]
  <2>2. <<>> \in Seq(Reqs) /\ <<>> \in Seq(Legal(c[1], n))
    OBVIOUS
  <2>3. after \in Connection
    BY <2>2, Opened, Zenon
  <2>4. after.to = t /\ after.number = n /\ after.todo = <<>> /\ after.rx = <<>> /\ ~after.alive
    BY DEF Unopened
  <2>5. conn' = [conn EXCEPT ![c] = after] /\ UNCHANGED <<up, password, content, forking, pc, cmdQue>>
    BY <1>1, <2>1, Zenon DEF ConnectFails
  <2> HIDE DEF after
  <2>6. TypeOK'
    BY <2>3, <2>5, PasswordFixed DEF TypeOK
  <2>7. Forking'
    BY <2>1, <2>5, NotOpened DEF TypeOK, Forking
  <2>8. Ahead(c)'
    BY <2>4, <2>5 DEF Ahead, Live, TypeOK
  <2>9. conn[c].to = NoConn
    BY <2>1 DEF Unopened
  <2> QED BY <2>2, <2>3, <2>4, <2>5, <2>6, <2>7, <2>8, <2>9, OneConnection, Zenon
<1>2. CASE Connect(s, n, t)
  <2>1. PICK c \in Conns : /\ c[1] = s /\ conn[c] = Unopened
                           /\ conn' = [conn EXCEPT ![c] = [Unopened EXCEPT
                                 !.to = t, !.number = n, !.plan = Fork(s, n),
                                 !.todo = Fork(s, n), !.open = TRUE, !.alive = TRUE]]
                           /\ forking' = [forking EXCEPT ![s] = c]
    BY <1>2, Zenon DEF Connect, Conns
  <2> DEFINE after == [Unopened EXCEPT !.to = t, !.number = n, !.plan = Fork(s, n),
                                       !.todo = Fork(s, n), !.open = TRUE, !.alive = TRUE]
  <2>2. <<>> \in Seq(Reqs) /\ <<>> \in Seq(Legal(c[1], n))
    OBVIOUS
  <2>3. /\ Fork(s, n) \in Seq(Legal(s, n)) /\ SelectFirst(Fork(s, n))
        /\ Fork(s, n) \in Seq(Reqs)
    <3>1. Fork(s, n) \in Seq(Legal(s, n)) /\ SelectFirst(Fork(s, n))
      BY ForkLegal DEF Apart
    <3> QED BY <3>1, LegalType
  <2>4. after \in Connection
    BY <2>3, Opened, Zenon
  <2>5. after.to = t /\ after.number = n /\ after.todo = Fork(s, n) /\ after.rx = <<>>
    BY DEF Unopened
  <2>6. /\ conn' = [conn EXCEPT ![c] = after] /\ forking' = [forking EXCEPT ![s] = c]
        /\ pc' = [pc EXCEPT ![s] = "write"] /\ UNCHANGED <<up, password, content, cmdQue>>
    BY <1>2, <2>1, Zenon DEF Connect
  <2> HIDE DEF after
  <2>7. TypeOK'
    BY <2>4, <2>6, PasswordFixed DEF TypeOK
  <2>8. Forking'
    BY <2>1, <2>5, <2>6, NotOpened DEF TypeOK, Forking
  <2>9. Ahead(c)'
    <3>1. conn'[c] = after /\ cmdQue' = cmdQue
      BY <2>6 DEF TypeOK
    <3>2. \A i \in DOMAIN cmdQue[t] : cmdQue[t][i].conn # c
      BY <2>1, NotOpened
    <3>3. SelectFirst(<<>>)
      BY DEF SelectFirst
    <3> QED BY <2>3, <2>5, <3>1, <3>2, <3>3 DEF Ahead, SelectFirst
  <2>10. conn[c].to = NoConn
    BY <2>1 DEF Unopened
  <2> QED BY <2>1, <2>2, <2>3, <2>4, <2>5, <2>6, <2>7, <2>8, <2>9, <2>10, OneConnection, Zenon
<1> QED BY <1>1, <1>2

\* A request that moves from todo to rx: the SELECT stays ahead.
LEMMA MoveOne ==
    ASSUME NEW S, \A r \in S : r.cmd \in {"SELECT", "PUT"},
           NEW rx \in Seq(S), NEW todo \in Seq(S), todo # <<>>
    PROVE  LET more == Append(rx, Head(todo))
           IN /\ SelectIn(rx) => SelectIn(more)
              /\ SelectFirst(rx) /\ (SelectIn(rx) \/ SelectFirst(todo)) =>
                   SelectFirst(more) /\ SelectIn(more)
<1> DEFINE more == Append(rx, Head(todo))
<1>1. /\ Len(rx) \in Nat /\ DOMAIN rx = 1..Len(rx) /\ DOMAIN more = 1..Len(rx) + 1
      /\ \A i \in 1..Len(rx) : more[i] = rx[i]
      /\ more[Len(rx) + 1] = Head(todo) /\ Head(todo) = todo[1] /\ todo[1] \in S
      /\ 1 \in DOMAIN todo
  BY SeqFacts
<1> HIDE DEF more
<1>2. SelectIn(rx) => SelectIn(more)
  BY <1>1 DEF SelectIn
<1>3. ASSUME SelectFirst(rx), SelectIn(rx) \/ SelectFirst(todo)
      PROVE SelectFirst(more) /\ SelectIn(more)
  <2>1. SelectFirst(todo) => todo[1].cmd = "SELECT"
    <3>1. ASSUME SelectFirst(todo), todo[1].cmd = "PUT" PROVE FALSE
      <4>1. \E j \in 1..1 - 1 : todo[j].cmd = "SELECT"
        BY <1>1, <3>1 DEF SelectFirst
      <4> QED BY <4>1
    <3> QED BY <1>1, <3>1
  <2>2. SelectIn(more)
    BY <1>1, <1>2, <1>3, <2>1 DEF SelectIn
  <2>3. SelectFirst(more)
    <3> SUFFICES ASSUME NEW i \in 1..Len(rx) + 1, more[i].cmd = "PUT"
                 PROVE \E j \in 1..i - 1 : more[j].cmd = "SELECT"
      BY <1>1 DEF SelectFirst
    <3>1. CASE i \in 1..Len(rx)
      <4>1. PICK j \in 1..i - 1 : rx[j].cmd = "SELECT"
        BY <1>1, <1>3, <3>1 DEF SelectFirst
      <4>2. j \in 1..Len(rx)
        BY <1>1, <3>1
      <4> QED BY <1>1, <4>1, <4>2
    <3>2. CASE i = Len(rx) + 1
      <4>1. SelectIn(rx)
        BY <1>1, <1>3, <2>1, <3>2
      <4> QED BY <1>1, <3>2, <4>1 DEF SelectIn
    <3> QED BY <1>1, <3>1, <3>2
  <2> QED BY <2>2, <2>3
<1> QED BY <1>2, <1>3 DEF more

\* What write and close make of a connection.
Written(r, todo, rx) == [r EXCEPT !.todo = todo, !.rx = rx]
Closed(r, rx, reset) ==
    [r EXCEPT !.result = "OK", !.open = FALSE, !.rx = rx, !.reset = reset, !.back = 0]

\* write moves requests and leaves the rest of the connection alone.
LEMMA Moved ==
    ASSUME NEW r \in Connection, NEW todo \in Seq(Reqs), NEW rx \in Seq(Reqs)
    PROVE  /\ Written(r, todo, rx) \in Connection
           /\ Written(r, todo, rx).to = r.to /\ Written(r, todo, rx).number = r.number
           /\ Written(r, todo, rx).cur = r.cur /\ Written(r, todo, rx).alive = r.alive
           /\ Written(r, todo, rx).todo = todo /\ Written(r, todo, rx).rx = rx
BY Zenon DEF Connection, Written

\* close leaves the requests that arrived, or drops them, and changes no
\* destination, number or current database.
LEMMA Shut ==
    ASSUME NEW r \in Connection, NEW rx \in Seq(Reqs), NEW reset \in BOOLEAN
    PROVE  /\ Closed(r, rx, reset) \in Connection
           /\ Closed(r, rx, reset).to = r.to /\ Closed(r, rx, reset).number = r.number
           /\ Closed(r, rx, reset).cur = r.cur /\ Closed(r, rx, reset).alive = r.alive
           /\ Closed(r, rx, reset).todo = r.todo /\ Closed(r, rx, reset).rx = rx
<1>1. ASSUME NEW a \in Results, NEW b \in BOOLEAN, NEW z \in Int
      PROVE [r EXCEPT !.result = a, !.open = b, !.rx = rx, !.reset = reset, !.back = z]
              \in Connection
  BY Zenon DEF Connection
<1>2. "OK" \in Results /\ FALSE \in BOOLEAN /\ 0 \in Int
  BY DEF Results
<1>3. Closed(r, rx, reset) \in Connection
  BY <1>1, <1>2, Zenon DEF Closed
<1> QED BY <1>3 DEF Connection, Closed

\* The source writes a request, or closes the connection.
LEMMA SourceSteps ==
    ASSUME Good, NEW s \in Servers, Write(s) \/ Close(s)
    PROVE  Good'
<1> USE DEF Good
<1>1. PICK c \in Conns : c = forking[s]
  BY Zenon DEF Write, Close, Forking
<1> DEFINE legal == Legal(c[1], conn[c].number)
<1>2. /\ conn[c] \in Connection /\ c[1] \in Servers /\ conn[c].number \in Numbers
      /\ conn[c].rx \in Seq(legal) /\ conn[c].todo \in Seq(legal)
      /\ conn[c].to \in Servers
  <2>1. conn[c] \in Connection /\ c[1] \in Servers
    BY DEF TypeOK, Conns
  <2>2. conn[c].rx \in Seq(legal) /\ conn[c].todo \in Seq(legal)
    BY DEF Owned
  <2>3. conn[c].to \in Servers
    BY <1>1, Zenon DEF Write, Close, Forking
  <2> QED BY <2>1, <2>2, <2>3 DEF Connection
<1>3. /\ \A q \in Seq(legal) : q \in Seq(Reqs)
      /\ \A r \in legal : r.cmd \in {"SELECT", "PUT"}
  BY <1>2, LegalType
<1>4. Ahead(c)
  BY DEF SelectAhead
<1> HIDE DEF legal
<1>5. CASE Write(s)
  <2> DEFINE todo == Tail(conn[c].todo)
  <2> DEFINE rx == Append(conn[c].rx, Head(conn[c].todo))
  <2> DEFINE after == Written(conn[c], todo, rx)
  <2>1. /\ conn[c].todo # <<>> /\ conn' = [conn EXCEPT ![c] = after] /\ pc[s] = "write"
        /\ UNCHANGED <<up, password, content, forking, pc, cmdQue>>
    BY <1>1, <1>5 DEF Write, Written
  <2>2. todo \in Seq(legal) /\ rx \in Seq(legal)
    BY <1>2, <2>1, SeqFacts
  <2>3. todo \in Seq(Reqs) /\ rx \in Seq(Reqs)
    BY <1>3, <2>2
  <2>4. /\ SelectIn(conn[c].rx) => SelectIn(rx)
        /\ SelectFirst(conn[c].rx) /\ (SelectIn(conn[c].rx) \/ SelectFirst(conn[c].todo)) =>
             SelectFirst(rx) /\ SelectIn(rx)
    BY <1>2, <1>3, <2>1, MoveOne
  <2> HIDE DEF todo, rx
  <2>5. /\ after \in Connection /\ after.to = conn[c].to /\ after.number = conn[c].number
        /\ after.cur = conn[c].cur /\ after.alive = conn[c].alive
        /\ after.todo = todo /\ after.rx = rx
    BY <1>2, <2>3, Moved
  <2> HIDE DEF after
  <2>6. TypeOK'
    BY <2>1, <2>5, PasswordFixed DEF TypeOK
  <2>7. Forking'
    <3> SUFFICES ASSUME NEW u \in Servers, pc[u] # "idle"
                 PROVE /\ forking[u] \in Conns /\ conn'[forking[u]].to \in Servers
                       /\ pc[u] # "write" => conn'[forking[u]].todo = <<>>
      BY <2>1 DEF Forking
    <3>1. /\ forking[u] \in Conns /\ conn[forking[u]].to \in Servers
          /\ pc[u] # "write" => conn[forking[u]].todo = <<>>
      BY DEF Forking
    <3>2. forking[u] = c => pc[u] = "write"
      BY <1>1, <2>1, <3>1
    <3> QED BY <2>1, <2>5, <3>1, <3>2 DEF TypeOK
  <2>8. Ahead(c)'
    <3>1. conn'[c] = after /\ up' = up /\ cmdQue' = cmdQue
      BY <2>1 DEF TypeOK
    <3>2. Live(c)' => Live(c)
      BY <2>5, <3>1 DEF Live
    <3> QED BY <1>4, <2>4, <2>5, <3>1, <3>2 DEF Ahead, SelectIn, SelectFirst
  <2> QED BY <2>1, <2>2, <2>5, <2>6, <2>7, <2>8, OneConnection, Zenon DEF legal
<1>6. CASE Close(s)
  <2>1. PICK n \in 0..Len(conn[c].rx) :
           conn' = [conn EXCEPT ![c] = Closed(conn[c], SubSeq(conn[c].rx, 1, n), n < Len(conn[c].rx))]
    BY <1>1, <1>6, Zenon DEF Close, Closed
  <2>2. /\ pc[s] = "close" /\ UNCHANGED <<up, password, content, cmdQue>>
        /\ forking' = [forking EXCEPT ![s] = NoConn] /\ pc' = [pc EXCEPT ![s] = "idle"]
    BY <1>6, Zenon DEF Close
  <2> DEFINE rx == SubSeq(conn[c].rx, 1, n)
  <2>3. /\ rx \in Seq(legal)
        /\ SelectFirst(conn[c].rx) => SelectFirst(rx)
    <3>1. /\ rx \in Seq(legal) /\ DOMAIN rx = 1..n /\ n <= Len(conn[c].rx)
          /\ \A i \in 1..n : i \in DOMAIN conn[c].rx /\ rx[i] = conn[c].rx[i]
      BY <1>2
    <3> HIDE DEF rx
    <3> QED BY <3>1 DEF SelectFirst
  <2>4. rx \in Seq(Reqs) /\ (n < Len(conn[c].rx)) \in BOOLEAN
    <3>1. (n < Len(conn[c].rx)) \in BOOLEAN
      OBVIOUS
    <3> HIDE DEF rx
    <3> QED BY <1>3, <2>3, <3>1
  <2> DEFINE after == Closed(conn[c], rx, n < Len(conn[c].rx))
  <2>5. /\ after \in Connection /\ after.to = conn[c].to /\ after.number = conn[c].number
        /\ after.cur = conn[c].cur /\ after.alive = conn[c].alive
        /\ after.todo = conn[c].todo /\ after.rx = rx
    BY <1>2, <2>4, Shut, Zenon
  <2>6. conn' = [conn EXCEPT ![c] = after] /\ conn[c].todo = <<>>
    BY <1>1, <2>1, <2>2 DEF Forking
  <2> HIDE DEF after, rx
  <2>7. TypeOK'
    BY <2>2, <2>5, <2>6, PasswordFixed DEF TypeOK
  <2>8. Forking'
    BY <2>2, <2>5, <2>6 DEF TypeOK, Forking
  <2>9. Ahead(c)'
    <3>1. conn'[c] = after /\ up' = up /\ cmdQue' = cmdQue
      BY <2>2, <2>6 DEF TypeOK
    <3>2. Live(c)' => Live(c)
      BY <2>5, <3>1 DEF Live
    <3>3. SelectFirst(<<>>)
      BY DEF SelectFirst
    <3> QED BY <1>4, <2>3, <2>5, <2>6, <3>1, <3>2, <3>3, Zenon DEF Ahead
  <2> QED BY <1>2, <2>2, <2>3, <2>5, <2>6, <2>7, <2>8, <2>9, OneConnection, ZenonT(40) DEF legal
<1> QED BY <1>5, <1>6

\* Requests of connection c that are appended to a queue, which keeps its
\* SELECTs where they are.
LEMMA QueueMore ==
    ASSUME NEW old, NEW que, NEW rx, NEW c,
           Len(old) \in Nat, Len(rx) \in Nat, Len(que) = Len(old) + Len(rx),
           DOMAIN que = 1..Len(old) + Len(rx), DOMAIN old = 1..Len(old), DOMAIN rx = 1..Len(rx),
           \A i \in 1..Len(old) : que[i] = old[i],
           \A i \in 1..Len(rx) : que[Len(old) + i].conn = c /\ que[Len(old) + i].req = rx[i],
           NEW d,
           \A i \in DOMAIN old :
             old[i].conn = d /\ old[i].req.cmd = "PUT" => SelectQueued(old, d, i - 1),
           d = c => SelectQueued(old, d, Len(old)) \/ SelectFirst(rx)
    PROVE  /\ \A i \in DOMAIN que :
                que[i].conn = d /\ que[i].req.cmd = "PUT" => SelectQueued(que, d, i - 1)
           /\ SelectQueued(old, d, Len(old)) => SelectQueued(que, d, Len(que))
           /\ d = c /\ SelectIn(rx) => SelectQueued(que, d, Len(que))
<1>1. ASSUME NEW i \in 0..Len(old), NEW j \in Nat, i <= j, SelectQueued(old, d, i)
      PROVE  SelectQueued(que, d, j)
  BY <1>1 DEF SelectQueued
<1>2. ASSUME d = c, NEW k \in 1..Len(rx), rx[k].cmd = "SELECT", NEW j \in Nat, Len(old) + k <= j
      PROVE  SelectQueued(que, d, j)
  <2>1. Len(old) + k \in 1..j
    BY <1>2
  <2> QED BY <1>2, <2>1 DEF SelectQueued
<1>3. ASSUME NEW i \in DOMAIN que, que[i].conn = d, que[i].req.cmd = "PUT"
      PROVE  SelectQueued(que, d, i - 1)
  <2>1. CASE i \in 1..Len(old)
    <3>1. SelectQueued(old, d, i - 1)
      BY <1>3, <2>1
    <3> QED BY <1>1, <2>1, <3>1
  <2>2. CASE i \notin 1..Len(old)
    <3>1. PICK k \in 1..Len(rx) : i = Len(old) + k
      <4>1. i - Len(old) \in 1..Len(rx) /\ i = Len(old) + (i - Len(old))
        BY <2>2
      <4> QED BY <4>1
    <3>2. d = c /\ rx[k].cmd = "PUT"
      BY <1>3, <3>1
    <3>3. CASE SelectQueued(old, d, Len(old))
      <4>1. i - 1 \in Nat /\ Len(old) <= i - 1 /\ Len(old) \in 0..Len(old)
        BY <3>1
      <4> QED BY <1>1, <3>3, <4>1
    <3>4. CASE SelectFirst(rx)
      <4>1. PICK j \in 1..k - 1 : rx[j].cmd = "SELECT"
        BY <3>1, <3>2, <3>4 DEF SelectFirst
      <4>2. j \in 1..Len(rx) /\ i - 1 \in Nat /\ Len(old) + j <= i - 1
        BY <3>1, <4>1
      <4> QED BY <1>2, <3>2, <4>1, <4>2
    <3> QED BY <3>2, <3>3, <3>4
  <2> QED BY <2>1, <2>2
<1>4. SelectQueued(old, d, Len(old)) => SelectQueued(que, d, Len(que))
  <2>1. Len(que) \in Nat /\ Len(old) \in 0..Len(old) /\ Len(old) <= Len(que)
    OBVIOUS
  <2> QED BY <1>1, <2>1
<1>5. d = c /\ SelectIn(rx) => SelectQueued(que, d, Len(que))
  <2>1. Len(que) \in Nat /\ \A k \in 1..Len(rx) : Len(old) + k <= Len(que)
    OBVIOUS
  <2> QED BY <1>2, <2>1 DEF SelectIn
<1> QED BY <1>3, <1>4, <1>5

\* An io thread queues what has arrived: it comes after what is queued.
LEMMA ReadStep ==
    ASSUME Good, NEW c \in Conns, IoRead(c)
    PROVE  Good'
<1> USE DEF Good
<1> DEFINE rx == conn[c].rx
<1> DEFINE t == conn[c].to
<1> DEFINE old == cmdQue[t]
<1> DEFINE new == [i \in DOMAIN rx |-> [conn |-> c, req |-> rx[i]]]
<1> DEFINE que == old \o new
<1>1. /\ conn[c] \in Connection /\ c[1] \in Servers /\ t \in Servers /\ Live(c)
      /\ conn[c].number \in Numbers
      /\ rx \in Seq(Legal(c[1], conn[c].number)) /\ rx \in Seq(Reqs)
  <2>1. conn[c] \in Connection /\ c[1] \in Servers
    BY DEF TypeOK, Conns
  <2>2. rx \in Seq(Legal(c[1], conn[c].number))
    BY DEF Owned
  <2>3. t \in Servers /\ Live(c)
    BY <2>1 DEF IoRead, Receiving, Live, Connection
  <2> QED BY <2>1, <2>2, <2>3 DEF Connection
<1>2. /\ cmdQue' = [cmdQue EXCEPT ![t] = que]
      /\ conn' = [conn EXCEPT ![c] = Written(conn[c], conn[c].todo, <<>>)]
      /\ UNCHANGED <<up, password, content, forking, pc>>
  <2>1. Written(conn[c], conn[c].todo, <<>>) = [conn[c] EXCEPT !.rx = <<>>]
    BY <1>1, Zenon DEF Written, Connection
  <2> QED BY <2>1, Zenon DEF IoRead
<1>3. old \in Seq(Queueable)
  BY <1>1 DEF TypeOK
<1>4. /\ new \in Seq(Queueable) /\ Len(new) = Len(rx)
      /\ \A i \in 1..Len(rx) : new[i] = [conn |-> c, req |-> rx[i]]
  <2>1. DOMAIN rx = 1..Len(rx) /\ Len(rx) \in Nat /\ \A i \in 1..Len(rx) : rx[i] \in Reqs
    BY <1>1
  <2>2. \A i \in 1..Len(rx) : [conn |-> c, req |-> rx[i]] \in Queueable
    BY <2>1 DEF Queueable
  <2> QED BY <2>1, <2>2
<1>5. /\ que \in Seq(Queueable) /\ Len(old) \in Nat /\ Len(rx) \in Nat
      /\ Len(que) = Len(old) + Len(rx)
      /\ DOMAIN que = 1..Len(old) + Len(rx)
      /\ DOMAIN old = 1..Len(old) /\ DOMAIN rx = 1..Len(rx)
      /\ \A i \in 1..Len(old) : que[i] = old[i]
      /\ \A i \in 1..Len(rx) : que[Len(old) + i] = [conn |-> c, req |-> rx[i]]
  <2> HIDE DEF new, old
  <2>0. old \in Seq(Queueable) /\ new \in Seq(Queueable)
    BY <1>3, <1>4
  <2>1. /\ que \in Seq(Queueable) /\ Len(que) = Len(old) + Len(new)
        /\ \A i \in 1..Len(old) : que[i] = old[i]
        /\ \A i \in 1..Len(new) : que[Len(old) + i] = new[i]
    BY <2>0, ConcatFacts
  <2> HIDE DEF que
  <2>2. /\ Len(old) \in Nat /\ DOMAIN old = 1..Len(old)
        /\ Len(rx) \in Nat /\ DOMAIN rx = 1..Len(rx) /\ DOMAIN que = 1..Len(que)
    BY <1>1, <1>3, <2>1, SeqFacts
  <2> QED BY <1>4, <2>1, <2>2
<1>len. /\ Len(old) \in Nat /\ Len(rx) \in Nat /\ Len(que) = Len(old) + Len(rx)
        /\ DOMAIN que = 1..Len(old) + Len(rx) /\ DOMAIN old = 1..Len(old) /\ DOMAIN rx = 1..Len(rx)
  BY <1>5, Zenon
<1>app. /\ \A i \in 1..Len(old) : que[i] = old[i]
        /\ \A i \in 1..Len(rx) : que[Len(old) + i].conn = c /\ que[Len(old) + i].req = rx[i]
  <2> HIDE DEF old, que, rx
  <2>1. \A i \in 1..Len(rx) : que[Len(old) + i] = [conn |-> c, req |-> rx[i]]
    BY <1>5
  <2>2. ASSUME NEW i \in 1..Len(rx)
        PROVE  que[Len(old) + i].conn = c /\ que[Len(old) + i].req = rx[i]
    <3>1. que[Len(old) + i] = [conn |-> c, req |-> rx[i]]
      BY <2>1
    <3> QED BY <3>1
  <2> QED BY <1>5, <2>2
<1> HIDE DEF new, que
<1>6. /\ \A d \in Conns \ {c} : conn'[d] = conn[d]
      /\ conn'[c] \in Connection /\ conn'[c].to = t /\ conn'[c].number = conn[c].number
      /\ conn'[c].cur = conn[c].cur /\ conn'[c].alive = conn[c].alive
      /\ conn'[c].todo = conn[c].todo /\ conn'[c].rx = <<>>
  <2>1. <<>> \in Seq(Reqs)
    OBVIOUS
  <2>2. conn[c].todo \in Seq(Reqs)
    BY <1>1 DEF Connection
  <2>3. PICK none \in Seq(Reqs), todo \in Seq(Reqs) : none = <<>> /\ todo = conn[c].todo
    BY <2>1, <2>2, Zenon
  <2> DEFINE after == Written(conn[c], todo, none)
  <2>4. conn'[c] = after /\ \A d \in Conns \ {c} : conn'[d] = conn[d]
    BY <1>2, <2>3 DEF TypeOK
  <2>0. conn[c] \in Connection
    BY <1>1
  <2>5. /\ after \in Connection /\ after.to = conn[c].to /\ after.number = conn[c].number
        /\ after.cur = conn[c].cur /\ after.alive = conn[c].alive
        /\ after.todo = todo /\ after.rx = none
    BY <2>0, Moved
  <2> HIDE DEF after
  <2> QED BY <2>3, <2>4, <2>5
<1>7. cmdQue'[t] = que /\ \A u \in Servers \ {t} : cmdQue'[u] = cmdQue[u]
  BY <1>1, <1>2 DEF TypeOK
<1> HIDE DEF rx, t, old
<1>8. TypeOK'
  <2>1. cmdQue' \in [Servers -> Seq(Queueable)]
    BY <1>2, <1>5, Zenon DEF TypeOK
  <2>2. conn' \in [Conns -> Connection]
    BY <1>2, <1>6 DEF TypeOK
  <2> QED BY <1>2, <2>1, <2>2, PasswordFixed DEF TypeOK
<1>9. Forking' /\ Apart'
  BY <1>2, <1>6 DEF Forking, Apart, t
<1>10. Owned'
  <2>1. UNCHANGED password
    BY <1>2
  <2>2. ASSUME NEW d \in Conns
        PROVE /\ conn'[d].todo \in Seq(Legal(d[1], conn'[d].number))
              /\ conn'[d].rx \in Seq(Legal(d[1], conn'[d].number))
    <3>1. <<>> \in Seq(Legal(c[1], conn[c].number))
      OBVIOUS
    <3> QED BY <1>6, <3>1, Zenon DEF Owned
  <2>3. \A d \in Conns : conn'[d].to = conn[d].to /\ conn'[d].number = conn[d].number
    BY <1>6 DEF t
  <2>4. ASSUME NEW u \in Servers, NEW i \in DOMAIN cmdQue'[u]
        PROVE LET d == cmdQue'[u][i].conn
              IN conn'[d].to = u /\ cmdQue'[u][i].req \in Legal(d[1], conn'[d].number)
    <3>1. ASSUME i \in DOMAIN cmdQue[u], cmdQue'[u][i] = cmdQue[u][i]
          PROVE LET d == cmdQue'[u][i].conn
                IN conn'[d].to = u /\ cmdQue'[u][i].req \in Legal(d[1], conn'[d].number)
      BY <2>3, <3>1, QueueType DEF Owned
    <3>2. CASE u # t
      BY <1>7, <3>1, <3>2
    <3>3. CASE u = t /\ i \in 1..Len(old)
      BY <1>5, <1>7, <3>1, <3>3 DEF old
    <3>4. CASE u = t /\ i \notin 1..Len(old)
      <4>1. PICK k \in 1..Len(rx) : i = Len(old) + k
        <5>1. i \in 1..Len(old) + Len(rx)
          BY <1>5, <1>7, <3>4
        <5>2. i - Len(old) \in 1..Len(rx)
          BY <1>5, <3>4, <5>1
        <5> QED BY <1>5, <5>1, <5>2
      <4>2. cmdQue'[u][i].conn = c /\ cmdQue'[u][i].req = rx[k]
        <5>1. que[i] = [conn |-> c, req |-> rx[k]]
          BY <1>5, <4>1
        <5> QED BY <1>7, <3>4, <5>1
      <4>3. rx[k] \in Legal(c[1], conn[c].number)
        BY <1>1, <4>1, SeqFacts
      <4> QED BY <1>6, <3>4, <4>2, <4>3
    <3> QED BY <3>2, <3>3, <3>4
  <2> QED BY <2>1, <2>2, <2>4, OwnedAfter, Zenon
<1>11. SelectAhead'
  <2> SUFFICES ASSUME NEW d \in Conns, Live(d)', conn'[d].cur # conn'[d].number
               PROVE  Ahead(d)'
    BY DEF SelectAhead, Ahead
  <2>1. Ahead(d) /\ Live(d) /\ conn[d].cur # conn[d].number /\ conn'[d].to = conn[d].to
    BY <1>2, <1>6 DEF SelectAhead, Live, t
  <2>2. CASE d # c /\ conn[d].to # t
    <3>1. conn'[d] = conn[d] /\ cmdQue'[conn[d].to] = cmdQue[conn[d].to]
      BY <1>6, <1>7, <2>1, <2>2 DEF Live
    <3> QED BY <2>1, <3>1, ZenonT(40) DEF Ahead, SelectIn, SelectFirst
  <2>3. ASSUME conn[d].to = t
        PROVE Ahead(d)'
    <3>1. /\ \A i \in DOMAIN old :
               old[i].conn = d /\ old[i].req.cmd = "PUT" => SelectQueued(old, d, i - 1)
          /\ SelectQueued(old, d, Len(old)) \/ SelectFirst(conn[d].rx)
          /\ SelectQueued(old, d, Len(old)) \/ SelectIn(conn[d].rx) \/ SelectFirst(conn[d].todo)
      BY <2>1, <2>3 DEF Ahead, old
    <3>2. /\ \A i \in DOMAIN que :
               que[i].conn = d /\ que[i].req.cmd = "PUT" => SelectQueued(que, d, i - 1)
          /\ SelectQueued(que, d, Len(que)) \/ SelectFirst(conn'[d].rx)
          /\ SelectQueued(que, d, Len(que)) \/ SelectIn(conn'[d].rx) \/ SelectFirst(conn'[d].todo)
      <4>1. CASE d = c
        <5>1. rx = conn[d].rx
          BY <4>1 DEF rx
        <5>2. conn'[d].rx = <<>> /\ conn'[d].todo = conn[d].todo /\ SelectFirst(<<>>)
          BY <1>6, <4>1 DEF SelectFirst
        <5>3. SelectQueued(old, d, Len(old)) \/ SelectFirst(rx)
          BY <3>1, <5>1
        <5>4. /\ \A i \in DOMAIN que :
                   que[i].conn = d /\ que[i].req.cmd = "PUT" => SelectQueued(que, d, i - 1)
              /\ SelectQueued(old, d, Len(old)) => SelectQueued(que, d, Len(que))
              /\ d = c /\ SelectIn(rx) => SelectQueued(que, d, Len(que))
          BY <1>len, <1>app, <3>1, <5>3, QueueMore, Zenon
        <5> QED BY <3>1, <4>1, <5>1, <5>2, <5>4
      <4>2. CASE d # c
        <5>1. conn'[d] = conn[d]
          BY <1>6, <4>2
        <5> QED BY <1>len, <1>app, <3>1, <4>2, <5>1, QueueMore, ZenonT(40)
      <4> QED BY <4>1, <4>2
    <3>3. cmdQue'[conn'[d].to] = que
      BY <1>7, <2>1, <2>3
    <3> QED BY <3>2, <3>3 DEF Ahead, SelectIn, SelectFirst
  <2> QED BY <2>2, <2>3 DEF t
<1> QED BY <1>8, <1>9, <1>10, <1>11

\* The first request of a queue is removed, one of a connection that is gone
\* or in the right database afterwards: the other ones lose no SELECT.
LEMMA Executed ==
    ASSUME Good, UNCHANGED <<up, password>>, TypeOK', Forking', Apart',
           NEW t \in Servers, cmdQue[t] # <<>>,
           cmdQue' = [cmdQue EXCEPT ![t] = Tail(cmdQue[t])],
           NEW c \in Conns, c = Head(cmdQue[t]).conn,
           \A d \in Conns : /\ conn'[d].to = conn[d].to /\ conn'[d].number = conn[d].number
                            /\ conn'[d].todo = conn[d].todo /\ conn'[d].rx = conn[d].rx,
           \A d \in Conns \ {c} : conn'[d].cur = conn[d].cur /\ (conn'[d].alive => conn[d].alive),
           ~conn'[c].alive \/ conn'[c].cur = conn'[c].number
    PROVE  Good'
<1> USE DEF Good
<1> DEFINE old == cmdQue[t]
<1> DEFINE que == Tail(old)
<1>1. /\ Len(old) \in Nat /\ DOMAIN old = 1..Len(old) /\ Len(old) >= 1
      /\ Len(que) = Len(old) - 1 /\ DOMAIN que = 1..Len(old) - 1
      /\ \A i \in 1..Len(old) - 1 : que[i] = old[i + 1]
      /\ old[1].conn = c
  <2>1. old \in Seq(Queueable)
    BY DEF TypeOK
  <2>2. /\ Len(old) \in Nat /\ DOMAIN old = 1..Len(old) /\ Len(old) >= 1 /\ Head(old) = old[1]
        /\ que \in Seq(Queueable) /\ Len(que) = Len(old) - 1
        /\ \A i \in 1..Len(old) - 1 : que[i] = old[i + 1]
    BY <2>1, SeqFacts
  <2>3. DOMAIN que = 1..Len(que)
    BY <2>2, SeqFacts
  <2> QED BY <2>2, <2>3
<1>2. cmdQue'[t] = que /\ \A u \in Servers \ {t} : cmdQue'[u] = cmdQue[u]
  BY DEF TypeOK
<1> HIDE DEF que
<1>3. Owned'
  <2>1. UNCHANGED password
    OBVIOUS
  <2>2. \A d \in Conns : /\ conn'[d].todo \in Seq(Legal(d[1], conn'[d].number))
                         /\ conn'[d].rx \in Seq(Legal(d[1], conn'[d].number))
    BY DEF Owned
  <2>3. ASSUME NEW u \in Servers, NEW i \in DOMAIN cmdQue'[u]
        PROVE LET d == cmdQue'[u][i].conn
              IN conn'[d].to = u /\ cmdQue'[u][i].req \in Legal(d[1], conn'[d].number)
    <3>1. PICK j \in DOMAIN cmdQue[u] : cmdQue'[u][i] = cmdQue[u][j]
      <4>1. CASE u # t
        BY <1>2, <4>1
      <4>2. CASE u = t
        <5>1. i \in 1..Len(old) - 1 /\ i + 1 \in 1..Len(old)
          BY <1>1, <1>2, <4>2
        <5> QED BY <1>1, <1>2, <4>2, <5>1
      <4> QED BY <4>1, <4>2
    <3>2. PICK d \in Conns : d = cmdQue[u][j].conn
      BY QueueType
    <3>3. conn[d].to = u /\ cmdQue[u][j].req \in Legal(d[1], conn[d].number)
      BY <3>2 DEF Owned
    <3>4. cmdQue'[u][i].conn = d /\ cmdQue'[u][i].req = cmdQue[u][j].req
      BY <3>1, <3>2
    <3>5. conn'[d].to = conn[d].to /\ conn'[d].number = conn[d].number
      OBVIOUS
    <3> QED BY <3>3, <3>4, <3>5
  <2> QED BY <2>1, <2>2, <2>3, OwnedAfter, Zenon
<1>4. SelectAhead'
  <2> SUFFICES ASSUME NEW d \in Conns, Live(d)', conn'[d].cur # conn'[d].number
               PROVE  Ahead(d)'
    BY Zenon DEF SelectAhead, Ahead
  <2>1. d # c
    BY DEF Live
  <2>2. Ahead(d) /\ Live(d) /\ conn[d].cur # conn[d].number /\ conn'[d].to = conn[d].to
    BY <2>1 DEF SelectAhead, Live
  <2>5. conn'[d].rx = conn[d].rx /\ conn'[d].todo = conn[d].todo
    OBVIOUS
  <2>3. CASE conn[d].to # t
    <3>1. cmdQue'[conn'[d].to] = cmdQue[conn[d].to]
      BY <1>2, <2>2, <2>3 DEF Live
    <3> QED BY <2>2, <2>5, <3>1, Zenon DEF Ahead
  <2>4. CASE conn[d].to = t
    <3>1. /\ \A i \in DOMAIN old :
               old[i].conn = d /\ old[i].req.cmd = "PUT" => SelectQueued(old, d, i - 1)
          /\ SelectQueued(old, d, Len(old)) \/ SelectFirst(conn[d].rx)
          /\ SelectQueued(old, d, Len(old)) \/ SelectIn(conn[d].rx) \/ SelectFirst(conn[d].todo)
      BY <2>2, <2>4 DEF Ahead
    <3> HIDE DEF old
    <3>2. ASSUME NEW i \in 1..Len(old), SelectQueued(old, d, i)
          PROVE  SelectQueued(que, d, i - 1)
      <4>1. PICK j \in 1..i : old[j].conn = d /\ old[j].req.cmd = "SELECT"
        BY <3>2 DEF SelectQueued
      <4>2. j # 1
        BY <1>1, <2>1, <4>1
      <4>3. /\ j - 1 \in 1..i - 1 /\ j - 1 \in 1..Len(old) - 1 /\ (j - 1) + 1 = j
            /\ que[j - 1] = old[(j - 1) + 1]
        BY <1>1, <4>1, <4>2
      <4>4. que[j - 1] = old[j]
        BY <4>3
      <4> QED BY <4>1, <4>3, <4>4 DEF SelectQueued
    <3>3. ASSUME NEW i \in DOMAIN que, que[i].conn = d, que[i].req.cmd = "PUT"
          PROVE  SelectQueued(que, d, i - 1)
      <4>1. /\ i \in 1..Len(old) /\ i + 1 \in DOMAIN old /\ que[i] = old[i + 1]
            /\ (i + 1) - 1 = i
        BY <1>1
      <4>2. SelectQueued(old, d, (i + 1) - 1)
        BY <3>1, <3>3, <4>1
      <4> QED BY <3>2, <4>1, <4>2
    <3>4. SelectQueued(old, d, Len(old)) => SelectQueued(que, d, Len(que))
      BY <1>1, <3>2
    <3>5. cmdQue'[conn'[d].to] = que
      BY <1>2, <2>2, <2>4
    <3> QED BY <2>5, <3>1, <3>3, <3>4, <3>5, Zenon DEF Ahead
  <2> QED BY <2>3, <2>4
<1> QED BY <1>3, <1>4

\* A reply changes nothing else about a connection.
LEMMA AnsweredFacts ==
    ASSUME NEW c \in Conns, conn[c] \in Connection, NEW req \in Reqs, NEW n \in Numbers
    PROVE  /\ Answered(c, req) \in Connection
           /\ Answered(c, req).to = conn[c].to /\ Answered(c, req).number = conn[c].number
           /\ Answered(c, req).todo = conn[c].todo /\ Answered(c, req).rx = conn[c].rx
           /\ Answered(c, req).cur = conn[c].cur
           /\ LET after == [Answered(c, req) EXCEPT !.cur = n]
              IN /\ after \in Connection
                 /\ after.to = conn[c].to /\ after.number = conn[c].number
                 /\ after.todo = conn[c].todo /\ after.rx = conn[c].rx /\ after.cur = n
<1>1. PICK done \in Seq(Reqs), k \in Int, i \in {"in", "out"} :
         done = Append(conn[c].done, req) /\ k = conn[c].sendBuf + 1 /\ i = "out"
  <2>1. conn[c].done \in Seq(Reqs) /\ conn[c].sendBuf \in Int
    BY DEF Connection
  <2>2. Append(conn[c].done, req) \in Seq(Reqs) /\ conn[c].sendBuf + 1 \in Int
    BY <2>1
  <2> QED BY <2>2, Zenon
<1>2. Answered(c, req) = [conn[c] EXCEPT !.done = done, !.sendBuf = k, !.interest = i]
  BY <1>1 DEF Answered
<1>3. ASSUME NEW r \in Connection
      PROVE /\ [r EXCEPT !.done = done, !.sendBuf = k, !.interest = i] \in Connection
            /\ [r EXCEPT !.cur = n] \in Connection
  BY Zenon DEF Connection
<1>4. Answered(c, req) \in Connection
  BY <1>2, <1>3, Zenon
<1>5. /\ Answered(c, req).to = conn[c].to /\ Answered(c, req).number = conn[c].number
      /\ Answered(c, req).todo = conn[c].todo /\ Answered(c, req).rx = conn[c].rx
      /\ Answered(c, req).cur = conn[c].cur
  BY <1>2 DEF Connection
<1>6. LET after == [Answered(c, req) EXCEPT !.cur = n]
      IN /\ after \in Connection
         /\ after.to = conn[c].to /\ after.number = conn[c].number
         /\ after.todo = conn[c].todo /\ after.rx = conn[c].rx /\ after.cur = n
  <2>1. [Answered(c, req) EXCEPT !.cur = n] \in Connection
    BY <1>3, <1>4, Zenon
  <2> QED BY <1>4, <1>5, <2>1 DEF Connection
<1> QED BY <1>4, <1>5, <1>6

\* The command thread of t executes a request: a SELECT leads to the number
\* it names, and a PUT is executed only there.
LEMMA ExecSteps ==
    ASSUME SamePassword, Good, NEW t \in Servers, ExecGone(t) \/ ExecSelect(t) \/ ExecPut(t)
    PROVE  Good'
<1> USE DEF Good
<1> DEFINE old == cmdQue[t]
<1>1. /\ old # <<>> /\ up[t] /\ cmdQue' = [cmdQue EXCEPT ![t] = Tail(old)]
      /\ UNCHANGED <<up, password, forking, pc>>
  BY Zenon DEF ExecGone, ExecSelect, ExecPut, Idle
<1>2. /\ old \in Seq(Queueable) /\ 1 \in DOMAIN old /\ Head(old) = old[1]
      /\ Tail(old) \in Seq(Queueable)
  <2>1. old \in Seq(Queueable)
    BY DEF TypeOK
  <2> QED BY <1>1, <2>1, SeqFacts
<1>3. PICK c \in Conns, req \in Reqs : c = Head(old).conn /\ req = Head(old).req
  BY <1>2, QueueType
<1>4. /\ conn[c] \in Connection /\ conn[c].to = t
      /\ c[1] \in Servers /\ conn[c].number \in Numbers /\ conn[c].cur \in Numbers
      /\ req \in Legal(c[1], conn[c].number)
  <2>1. conn[c] \in Connection /\ c[1] \in Servers
    BY DEF TypeOK, Conns
  <2>2. conn[c].to = t /\ req \in Legal(c[1], conn[c].number)
    BY <1>2, <1>3 DEF Owned
  <2> QED BY <2>1, <2>2 DEF Connection
<1>5. cmdQue' \in [Servers -> Seq(Queueable)]
  BY <1>1, <1>2 DEF TypeOK
<1>6. ASSUME NEW after \in Connection, conn' = [conn EXCEPT ![c] = after],
             after.to = conn[c].to, after.number = conn[c].number,
             after.todo = conn[c].todo, after.rx = conn[c].rx,
             ~after.alive \/ after.cur = after.number,
             content' \in [Servers -> [Numbers -> SUBSET AllKeys]], Apart'
      PROVE  Good'
  <2>1. conn'[c] = after /\ \A d \in Conns \ {c} : conn'[d] = conn[d]
    BY <1>6 DEF TypeOK
  <2>2. TypeOK'
    <3>1. conn' \in [Conns -> Connection]
      BY <1>6 DEF TypeOK
    <3> QED BY <1>1, <1>5, <1>6, <3>1, PasswordFixed DEF TypeOK
  <2>3. \A d \in Conns : /\ conn'[d].to = conn[d].to /\ conn'[d].number = conn[d].number
                         /\ conn'[d].todo = conn[d].todo /\ conn'[d].rx = conn[d].rx
    BY <1>6, <2>1
  <2>4. Forking'
    BY <1>1, <2>3 DEF Forking
  <2>5. /\ \A d \in Conns \ {c} : conn'[d].cur = conn[d].cur /\ (conn'[d].alive => conn[d].alive)
        /\ ~conn'[c].alive \/ conn'[c].cur = conn'[c].number
    BY <1>6, <2>1
  <2>6. old # <<>> /\ UNCHANGED <<up, password>> /\ Apart'
    BY <1>1, <1>6
  <2> QED BY <1>1, <1>3, <2>2, <2>3, <2>4, <2>5, <2>6, Executed, Zenon
<1>7. CASE ExecGone(t)
  <2>1. conn' = [conn EXCEPT ![c] = conn[c]] /\ content' = content /\ ~conn[c].alive
    BY <1>3, <1>7 DEF ExecGone, TypeOK
  <2> QED BY <1>4, <1>6, <2>1, Zenon DEF TypeOK, Apart
<1>8. CASE ExecSelect(t)
  <2>1. req.cmd = "SELECT" /\ content' = content
    BY <1>3, <1>8 DEF ExecSelect
  <2>2. req.number = conn[c].number /\ req.password = password[t]
    <3>1. req.number = conn[c].number /\ req.password = password[c[1]]
      BY <1>4, <2>1, LegalType
    <3> QED BY <1>4, <3>1 DEF SamePassword
  <2>3. conn' = [conn EXCEPT ![c] = [Answered(c, req) EXCEPT !.cur = conn[c].number]]
    BY <1>3, <1>8, <2>2, Zenon DEF ExecSelect
  <2> DEFINE after == [Answered(c, req) EXCEPT !.cur = conn[c].number]
  <2>4. /\ after \in Connection
        /\ after.to = conn[c].to /\ after.number = conn[c].number
        /\ after.todo = conn[c].todo /\ after.rx = conn[c].rx /\ after.cur = conn[c].number
    BY <1>4, AnsweredFacts
  <2> HIDE DEF after
  <2>5. conn' = [conn EXCEPT ![c] = after]
    BY <2>3 DEF after
  <2> QED BY <1>6, <2>1, <2>4, <2>5, Zenon DEF TypeOK, Apart
<1>9. CASE ExecPut(t)
  <2>1. /\ req.cmd = "PUT" /\ conn[c].alive
        /\ content' = [content EXCEPT ![t][conn[c].cur] = @ \cup {req.key}]
        /\ conn' = [conn EXCEPT ![c] = Answered(c, req)]
    BY <1>3, <1>9 DEF ExecPut
  <2>2. conn[c].cur = conn[c].number
    <3>1. ASSUME conn[c].cur # conn[c].number PROVE FALSE
      <4>1. Live(c) /\ Ahead(c)
        BY <1>1, <1>4, <2>1 DEF Live, SelectAhead
      <4>2. SelectQueued(old, c, 1 - 1)
        BY <1>2, <1>3, <1>4, <2>1, <3>1, <4>1, Zenon DEF Ahead
      <4> QED BY <4>2 DEF SelectQueued
    <3> QED BY <3>1
  <2>3. req.key \in Keys[conn[c].number] /\ req.key \in AllKeys
    <3>1. req.key \in Keys[conn[c].number]
      BY <1>4, <2>1, LegalType
    <3> QED BY <1>4, <3>1 DEF AllKeys
  <2>4. content' \in [Servers -> [Numbers -> SUBSET AllKeys]]
    BY <1>4, <2>1, <2>3 DEF TypeOK
  <2>5. Apart'
    BY <1>4, <2>1, <2>2, <2>3 DEF TypeOK, Apart
  <2>6. /\ Answered(c, req) \in Connection
        /\ Answered(c, req).to = conn[c].to /\ Answered(c, req).number = conn[c].number
        /\ Answered(c, req).todo = conn[c].todo /\ Answered(c, req).rx = conn[c].rx
        /\ Answered(c, req).cur = conn[c].cur
    BY <1>4, AnsweredFacts, Zenon
  <2> QED BY <1>6, <2>1, <2>2, <2>4, <2>5, <2>6, Zenon
<1> QED BY <1>7, <1>8, <1>9

\* A server is killed, with its queue and with what it had not written yet.
LEMMA CrashStep ==
    ASSUME Good, NEW s \in Servers, Crash(s)
    PROVE  Good'
<1> USE DEF Good
<1>1. /\ up' = [up EXCEPT ![s] = FALSE] /\ pc' = [pc EXCEPT ![s] = "idle"]
      /\ forking' = [forking EXCEPT ![s] = NoConn] /\ cmdQue' = [cmdQue EXCEPT ![s] = <<>>]
      /\ conn' = [c \in Conns |->
                    IF c[1] = s THEN [conn[c] EXCEPT !.open = FALSE, !.todo = <<>>] ELSE conn[c]]
      /\ UNCHANGED <<password, content>>
  BY Zenon DEF Crash
<1>2. ASSUME NEW c \in Conns
      PROVE  /\ conn'[c] \in Connection
             /\ conn'[c].to = conn[c].to /\ conn'[c].number = conn[c].number
             /\ conn'[c].rx = conn[c].rx /\ conn'[c].cur = conn[c].cur
             /\ conn'[c].alive => conn[c].alive
             /\ conn'[c].todo = conn[c].todo \/ conn'[c].todo = <<>>
  <2>1. conn[c] \in Connection
    BY DEF TypeOK
  <2>2. PICK none \in Seq(Reqs), shut \in BOOLEAN : none = <<>> /\ shut = FALSE
    <3>1. <<>> \in Seq(Reqs) /\ FALSE \in BOOLEAN
      OBVIOUS
    <3> QED BY <3>1, Zenon
  <2> DEFINE after == [conn[c] EXCEPT !.open = shut, !.todo = none]
  <2>3. /\ after \in Connection
        /\ after.to = conn[c].to /\ after.number = conn[c].number
        /\ after.rx = conn[c].rx /\ after.cur = conn[c].cur
        /\ after.alive => conn[c].alive
        /\ after.todo = none
    BY <2>1, ZenonT(40) DEF Connection
  <2>4. conn'[c] = after \/ conn'[c] = conn[c]
    BY <1>1, <2>2, Zenon
  <2> HIDE DEF after
  <2> QED BY <2>1, <2>2, <2>3, <2>4
<1>3. /\ up' \in [Servers -> BOOLEAN] /\ ~up'[s]
      /\ \A u \in Servers \ {s} : up'[u] = up[u] /\ pc'[u] = pc[u] /\ forking'[u] = forking[u]
      /\ \A u \in Servers \ {s} : cmdQue'[u] = cmdQue[u]
      /\ pc'[s] = "idle" /\ cmdQue'[s] = <<>>
  BY <1>1, Zenon DEF TypeOK
<1>4. TypeOK'
  <2>1. conn' \in [Conns -> Connection]
    BY <1>1, <1>2, Zenon
  <2>2. <<>> \in Seq(Queueable)
    OBVIOUS
  <2>3. cmdQue' \in [Servers -> Seq(Queueable)]
    BY <1>1, <2>2, Zenon DEF TypeOK
  <2> QED BY <1>1, <1>3, <2>1, <2>3, PasswordFixed, Zenon DEF TypeOK
<1>5. Forking'
  BY <1>2, <1>3 DEF Forking
<1>6. Owned'
  <2>1. UNCHANGED password
    BY <1>1
  <2>2. ASSUME NEW c \in Conns
        PROVE /\ conn'[c].todo \in Seq(Legal(c[1], conn'[c].number))
              /\ conn'[c].rx \in Seq(Legal(c[1], conn'[c].number))
    <3>1. <<>> \in Seq(Legal(c[1], conn[c].number))
      OBVIOUS
    <3> QED BY <1>2, <3>1, Zenon DEF Owned
  <2>3. ASSUME NEW u \in Servers, NEW i \in DOMAIN cmdQue'[u]
        PROVE LET d == cmdQue'[u][i].conn
              IN conn'[d].to = u /\ cmdQue'[u][i].req \in Legal(d[1], conn'[d].number)
    <3>1. u # s
      BY <1>3
    <3>2. cmdQue'[u] = cmdQue[u] /\ i \in DOMAIN cmdQue[u]
      BY <1>3, <3>1
    <3>3. PICK d \in Conns : d = cmdQue[u][i].conn
      BY <3>2, QueueType
    <3>4. conn[d].to = u /\ cmdQue[u][i].req \in Legal(d[1], conn[d].number)
      BY <3>2, <3>3 DEF Owned
    <3> QED BY <1>2, <3>2, <3>3, <3>4
  <2> QED BY <2>1, <2>2, <2>3, OwnedAfter, Zenon
<1>7. SelectAhead'
  <2> SUFFICES ASSUME NEW c \in Conns, Live(c)', conn'[c].cur # conn'[c].number
               PROVE  Ahead(c)'
    BY DEF SelectAhead, Ahead
  <2>1. conn'[c].to \in Servers \ {s}
    BY <1>3 DEF Live
  <2>2. Ahead(c) /\ Live(c) /\ conn[c].cur # conn[c].number
    BY <1>2, <1>3, <2>1 DEF SelectAhead, Live
  <2>3. cmdQue'[conn'[c].to] = cmdQue[conn[c].to]
    BY <1>2, <1>3, <2>1
  <2>4. SelectFirst(<<>>)
    BY DEF SelectFirst
  <2> QED BY <1>2, <2>2, <2>3, <2>4, Zenon DEF Ahead
<1>8. Apart'
  BY <1>1, Zenon DEF Apart
<1> QED BY <1>4, <1>5, <1>6, <1>7, <1>8

\* Nothing is under way at first, and the databases hold their own keys.
LEMMA InitGood == Init => Good
<1> SUFFICES ASSUME Init PROVE Good
  OBVIOUS
<1>1. \A c \in Conns : conn[c] = Unopened
  BY DEF Init
<1>2. Unopened \in Connection
  BY UnopenedType
<1>3. /\ content \in [Servers -> [Numbers -> SUBSET AllKeys]] /\ Apart
  BY MigrationAssumption DEF Init, AllKeys, Apart
<1>4. TypeOK
  <2>1. <<>> \in Seq(Queueable)
    OBVIOUS
  <2> QED BY <1>2, <1>3, <2>1 DEF Init, TypeOK
<1>5. Forking
  BY DEF Init, Forking
<1>6. Owned
  <2>1. \A c \in Conns : <<>> \in Seq(Legal(c[1], conn[c].number))
    OBVIOUS
  <2>2. Unopened.todo = <<>> /\ Unopened.rx = <<>>
    BY DEF Unopened
  <2>3. \A t \in Servers : cmdQue[t] = <<>>
    BY DEF Init
  <2>4. \A c \in Conns : conn[c].todo = <<>> /\ conn[c].rx = <<>>
    BY <1>1, <2>2
  <2>5. \A c \in Conns : /\ conn[c].todo \in Seq(Legal(c[1], conn[c].number))
                         /\ conn[c].rx \in Seq(Legal(c[1], conn[c].number))
    BY <2>1, <2>4, Zenon
  <2>6. \A t \in Servers : DOMAIN cmdQue[t] = {}
    BY <2>3
  <2> QED BY <2>5, <2>6 DEF Owned
<1>7. SelectAhead
  BY <1>1 DEF SelectAhead, Ahead, Live, Unopened
<1> QED BY <1>3, <1>4, <1>5, <1>6, <1>7 DEF Good

\* An entry never ends up in a database of another number, if the servers
\* have the same password: ServerCommand::Exec and Handler on any number of
\* servers, with any number of FORKs under way, and servers killed at any time.
THEOREM ForksStayApart == Spec => []RightDatabase
<1>1. Init => IInv
  BY InitGood DEF IInv
<1>2. IInv /\ [Next]_vars => IInv'
  <2> SUFFICES ASSUME IInv, [Next]_vars, SamePassword' PROVE Good'
    BY DEF IInv
  <2>1. UNCHANGED password
    BY Zenon DEF Next, SourceStep, ExecStep, vars, ConnectFails, Connect, Write, WriteFails, WriteDone,
           Read, Close, IoRead, IoEnd, IoSend, ExecGone, ExecSelect, ExecPut, Crash
  <2>2. SamePassword /\ Good
    BY <2>1 DEF SamePassword, IInv
  <2>3. ASSUME NEW s \in Servers, NEW t \in Servers, NEW n \in Numbers,
               ConnectFails(s, n, t) \/ Connect(s, n, t)
        PROVE  Good'
    BY <2>2, <2>3, ConnectSteps
  <2>4. ASSUME NEW s \in Servers, SourceStep(s) PROVE Good'
    BY <2>2, <2>4, SourceSteps, QuietSteps DEF SourceStep
  <2>5. ASSUME NEW s \in Servers, ExecStep(s) PROVE Good'
    BY <2>2, <2>5, ExecSteps DEF ExecStep
  <2>6. ASSUME NEW s \in Servers, Crash(s) PROVE Good'
    BY <2>2, <2>6, CrashStep
  <2>7. ASSUME NEW c \in Conns, IoRead(c) \/ IoEnd(c) \/ IoSend(c) PROVE Good'
    BY <2>2, <2>7, ReadStep, QuietSteps
  <2>8. CASE UNCHANGED vars
    BY <2>2, <2>8, QuietSteps
  <2> QED BY <2>3, <2>4, <2>5, <2>6, <2>7, <2>8 DEF Next
<1>3. IInv => RightDatabase
  BY DEF IInv, SamePassword, Good, Apart, RightDatabase
<1> QED BY <1>1, <1>2, <1>3, PTL DEF Spec

(***************************************************************************)
(* Requests are executed in their order and each once: Conserved.  This    *)
(* needs no assumption about the passwords.                                *)
(***************************************************************************)
Finite == \A s \in Servers, n \in Numbers : IsFiniteSet(content[s][n])

\* A command thread in a FORK has a connection of its own, which nobody else
\* closes, and has nothing left to write once it reads.
Busy ==
    \A s \in Servers : pc[s] # "idle" =>
        /\ forking[s] \in Conns /\ forking[s][1] = s
        /\ conn[forking[s]].to \in Servers /\ ~conn[forking[s]].reset
        /\ pc[s] # "write" => conn[forking[s]].todo = <<>>

\* What is queued at a server came over a connection to it.
Addressed == \A t \in Servers : \A i \in DOMAIN cmdQue[t] : conn[cmdQue[t][i].conn].to = t

Base == TypeOK /\ Finite /\ Busy /\ Addressed

\* What has been executed, what is queued and what is in the socket.
Line(c) == Cat(Cat(conn[c].done, Queued(c)), conn[c].rx)

\* What has been executed is a beginning of the plan; while requests of the
\* connection can be executed, so is what was sent, and what is missing of
\* the plan is what is still to be written unless the source is gone or some
\* of the requests were lost.
Flow(c) ==
    conn[c].to \in Servers =>
        /\ \E rest \in Seq(Reqs) : Cat(conn[c].done, rest) = conn[c].plan
        /\ Live(c) => \E rest \in Seq(Reqs) :
             /\ Cat(Line(c), rest) = conn[c].plan
             /\ up[c[1]] /\ ~conn[c].reset => rest = conn[c].todo
Flows == \A c \in Conns : Flow(c)

\* The requests in a queue.
Reqs_of(q) == [i \in DOMAIN q |-> q[i].req]

\* They are requests, as many as there are entries.
LEMMA ReqsOfType ==
    ASSUME NEW q \in Seq(Queueable)
    PROVE  /\ Reqs_of(q) \in Seq(Reqs) /\ Len(Reqs_of(q)) = Len(q) /\ Len(q) \in Nat
           /\ \A i \in 1..Len(q) : Reqs_of(q)[i] = q[i].req
           /\ DOMAIN q = 1..Len(q)
<1>1. DOMAIN q = 1..Len(q) /\ Len(q) \in Nat /\ \A i \in 1..Len(q) : q[i] \in Queueable
  OBVIOUS
<1>2. \A i \in 1..Len(q) : q[i].req \in Reqs
  BY <1>1 DEF Queueable
<1> QED BY <1>1, <1>2 DEF Reqs_of

\* The requests of a connection, part by part of the queue.
LEMMA RequestsCat ==
    ASSUME NEW c, NEW p \in Seq(Queueable), NEW q \in Seq(Queueable)
    PROVE  /\ RequestsOf(c, p) \in Seq(Reqs)
           /\ RequestsOf(c, Cat(p, q)) = Cat(RequestsOf(c, p), RequestsOf(c, q))
<1> DEFINE u == Cat(p, q)
<1>1. /\ u \in Seq(Queueable) /\ Len(u) = Len(p) + Len(q) /\ Len(p) \in Nat /\ Len(q) \in Nat
      /\ \A i \in 1..Len(p) : u[i] = p[i]
      /\ \A i \in 1..Len(q) : u[Len(p) + i] = q[i]
  BY ConcatFacts, SeqFacts DEF Cat
<1> HIDE DEF u
<1>2. /\ Reqs_of(p) \in Seq(Reqs) /\ Len(Reqs_of(p)) = Len(p) /\ DOMAIN p = 1..Len(p)
      /\ \A i \in 1..Len(p) : Reqs_of(p)[i] = p[i].req
  BY ReqsOfType
<1>3. /\ Reqs_of(q) \in Seq(Reqs) /\ Len(Reqs_of(q)) = Len(q) /\ DOMAIN q = 1..Len(q)
      /\ \A i \in 1..Len(q) : Reqs_of(q)[i] = q[i].req
  BY ReqsOfType
<1>4. /\ Reqs_of(u) \in Seq(Reqs) /\ Len(Reqs_of(u)) = Len(u) /\ DOMAIN u = 1..Len(u)
      /\ \A i \in 1..Len(u) : Reqs_of(u)[i] = u[i].req
  BY <1>1, ReqsOfType
<1>5. Reqs_of(u) = Cat(Reqs_of(p), Reqs_of(q))
  <2> DEFINE a == Reqs_of(p)
  <2> DEFINE b == Reqs_of(q)
  <2> DEFINE v == Reqs_of(u)
  <2> HIDE DEF a, b, v
  <2>1. /\ a \in Seq(Reqs) /\ b \in Seq(Reqs) /\ v \in Seq(Reqs)
        /\ Len(a) = Len(p) /\ Len(b) = Len(q) /\ Len(v) = Len(p) + Len(q)
        /\ \A i \in 1..Len(p) : v[i] = a[i]
        /\ \A i \in 1..Len(q) : v[Len(p) + i] = b[i]
    <3>1. \A i \in 1..Len(p) : i \in 1..Len(u)
      BY <1>1
    <3>2. \A i \in 1..Len(q) : Len(p) + i \in 1..Len(u)
      BY <1>1
    <3> QED BY <1>1, <1>2, <1>3, <1>4, <3>1, <3>2 DEF a, b, v
  <2>2. v = Cat(a, b)
    <3>1. /\ Len(v) = Len(a) + Len(b)
          /\ \A i \in 1..Len(a) : v[i] = a[i]
          /\ \A i \in 1..Len(b) : v[Len(a) + i] = b[i]
      BY <2>1
    <3> QED BY <2>1, <3>1, CatIs, Zenon
  <2> QED BY <2>2 DEF a, b, v
<1> DEFINE I == {i \in DOMAIN u : u[i].conn = c}
<1> DEFINE J == {i \in DOMAIN p : p[i].conn = c}
<1> DEFINE K == {i \in DOMAIN q : q[i].conn = c}
<1>6. \A i \in 1..Len(p) : i \in I <=> i \in J
  BY <1>1, <1>2, <1>4
<1>7. \A i \in 1..Len(q) : Len(p) + i \in I <=> i \in K
  <2> SUFFICES ASSUME NEW i \in 1..Len(q) PROVE Len(p) + i \in I <=> i \in K
    OBVIOUS
  <2>1. Len(p) + i \in DOMAIN u /\ i \in DOMAIN q /\ u[Len(p) + i] = q[i]
    BY <1>1, <1>3, <1>4
  <2> QED BY <2>1
<1> HIDE DEF I, J, K
<1>8. Pick(Cat(Reqs_of(p), Reqs_of(q)), I) = Cat(Pick(Reqs_of(p), J), Pick(Reqs_of(q), K))
  <2>1. \A i \in 1..Len(Reqs_of(p)) : i \in I <=> i \in J
    BY <1>2, <1>6
  <2>2. \A i \in 1..Len(Reqs_of(q)) : Len(Reqs_of(p)) + i \in I <=> i \in K
    BY <1>2, <1>3, <1>7
  <2>3. Reqs_of(p) \in Seq(Reqs) /\ Reqs_of(q) \in Seq(Reqs)
    BY <1>2, <1>3
  <2>4. ASSUME NEW a \in Seq(Reqs), NEW b \in Seq(Reqs),
               \A i \in 1..Len(a) : i \in I <=> i \in J,
               \A i \in 1..Len(b) : Len(a) + i \in I <=> i \in K
        PROVE  Pick(Cat(a, b), I) = Cat(Pick(a, J), Pick(b, K))
    BY <2>4, PickConcat
  <2> QED BY <2>1, <2>2, <2>3, <2>4, Zenon
<1>9. Pick(Reqs_of(p), J) \in Seq(Reqs)
  BY <1>2, PickElements
<1> QED BY <1>5, <1>8, <1>9 DEF RequestsOf, Reqs_of, I, J, K, u

\* A queue of one connection only, and one without any of its requests.
LEMMA RequestsAllOrNone ==
    ASSUME NEW c, NEW q \in Seq(Queueable)
    PROVE  /\ (\A i \in 1..Len(q) : q[i].conn = c) => RequestsOf(c, q) = Reqs_of(q)
           /\ (\A i \in 1..Len(q) : q[i].conn # c) => RequestsOf(c, q) = <<>>
<1>1. /\ Reqs_of(q) \in Seq(Reqs) /\ Len(Reqs_of(q)) = Len(q) /\ DOMAIN q = 1..Len(q)
  BY ReqsOfType
<1> DEFINE I == {i \in DOMAIN q : q[i].conn = c}
<1>2. RequestsOf(c, q) = Pick(Reqs_of(q), I)
  BY DEF RequestsOf, Reqs_of
<1>3. ASSUME \A i \in 1..Len(q) : q[i].conn = c PROVE RequestsOf(c, q) = Reqs_of(q)
  <2>1. \A i \in 1..Len(Reqs_of(q)) : i \in I
    BY <1>1, <1>3
  <2> HIDE DEF I
  <2> QED BY <1>1, <1>2, <2>1, PickAllOrNone
<1>4. ASSUME \A i \in 1..Len(q) : q[i].conn # c PROVE RequestsOf(c, q) = <<>>
  <2>1. \A i \in 1..Len(Reqs_of(q)) : i \notin I
    BY <1>1, <1>4
  <2> HIDE DEF I
  <2> QED BY <1>1, <1>2, <2>1, PickAllOrNone
<1> QED BY <1>3, <1>4

\* What Db::Fork makes of any finite database are requests.
LEMMA ForkType ==
    ASSUME NEW s \in Servers, NEW n \in Numbers,
           content[s][n] \subseteq AllKeys, IsFiniteSet(content[s][n])
    PROVE  Fork(s, n) \in Seq(Reqs)
<1> DEFINE here == content[s][n]
<1> DEFINE puts == [i \in 1..Cardinality(here) |-> Put(Order(here)[i])]
<1>1. Cardinality(here) \in Nat
  BY FS_CardinalityType
<1>2. Order(here) \in [1..Cardinality(here) -> here]
  BY OrderType
<1>3. \A i \in 1..Cardinality(here) : Put(Order(here)[i]) \in Reqs
  BY <1>2 DEF Put, Reqs
<1>4. puts \in Seq(Reqs)
  BY <1>1, <1>3
<1>5. <<Select(n, password[s])>> \in Seq(Reqs)
  BY DEF Select, Reqs
<1>6. Fork(s, n) = <<Select(n, password[s])>> \o puts
  BY DEF Fork
<1> HIDE DEF puts
<1> QED BY <1>4, <1>5, <1>6

\* A line of requests, however it is put together from what is executed,
\* queued, in the socket and still to come.
LEMMA LineTail ==
    ASSUME NEW S, NEW d \in Seq(S), NEW q \in Seq(S), NEW x \in Seq(S), NEW t \in Seq(S)
    PROVE  /\ Cat(Cat(q, x), t) \in Seq(S)
           /\ Cat(Cat(Cat(d, q), x), t) = Cat(d, Cat(Cat(q, x), t))
<1>1. /\ \A a, b \in Seq(S) : Cat(a, b) \in Seq(S)
      /\ \A a, b, c \in Seq(S) : Cat(Cat(a, b), c) = Cat(a, Cat(b, c))
  BY CatLaws, Zenon
<1>2. Cat(Cat(q, x), t) \in Seq(S)
  BY <1>1, Zenon
<1>3. PICK a \in Seq(S) : a = Cat(q, x)
  BY <1>1, Zenon
<1>4. Cat(Cat(d, q), x) = Cat(d, a)
  BY <1>1, <1>3
<1>5. Cat(Cat(d, a), t) = Cat(d, Cat(a, t))
  BY <1>1
<1> QED BY <1>2, <1>3, <1>4, <1>5, Zenon

\* Some of what is in the socket counts as still to come.
LEMMA LineSplit ==
    ASSUME NEW S, NEW d \in Seq(S), NEW q \in Seq(S), NEW x \in Seq(S), NEW r \in Seq(S),
           NEW t \in Seq(S)
    PROVE  Cat(Cat(Cat(d, q), Cat(x, r)), t) = Cat(Cat(Cat(d, q), x), Cat(r, t))
<1>1. /\ \A a, b \in Seq(S) : Cat(a, b) \in Seq(S)
      /\ \A a, b, c \in Seq(S) : Cat(Cat(a, b), c) = Cat(a, Cat(b, c))
  BY CatLaws, Zenon
<1>2. PICK a \in Seq(S), b \in Seq(S) : a = Cat(d, q) /\ b = Cat(a, x)
  BY <1>1, Zenon
<1>3. Cat(b, r) = Cat(a, Cat(x, r))
  BY <1>1, <1>2
<1>4. Cat(Cat(b, r), t) = Cat(b, Cat(r, t))
  BY <1>1
<1> QED BY <1>2, <1>3, <1>4, Zenon

\* A connection whose requests a step leaves where they are.
LEMMA SameFlow ==
    ASSUME NEW c \in Conns, UNCHANGED password, Flow(c),
           conn'[c].to = conn[c].to, conn'[c].plan = conn[c].plan,
           conn'[c].done = conn[c].done, conn'[c].rx = conn[c].rx,
           up'[c[1]] /\ ~conn'[c].reset =>
               up[c[1]] /\ ~conn[c].reset /\ conn'[c].todo = conn[c].todo,
           Live(c)' => Live(c) /\ Queued(c)' = Queued(c)
    PROVE  Flow(c)'
<1>1. Reqs' = Reqs
  BY PasswordFixed
<1>2. Live(c)' => Line(c)' = Line(c)
  BY DEF Line
<1> QED BY <1>1, <1>2, Zenon DEF Flow

\* What is queued of a connection, when its queue is the same.
LEMMA SameQueue ==
    ASSUME NEW c, conn'[c].to = conn[c].to, cmdQue'[conn[c].to] = cmdQue[conn[c].to]
    PROVE  Queued(c)' = Queued(c)
BY DEF Queued, RequestsOf

\* What is queued of a connection after a step.
LEMMA QueuedAfter ==
    ASSUME NEW c
    PROVE  Queued(c)' = RequestsOf(c, cmdQue'[conn'[c].to])
BY DEF Queued, RequestsOf

\* A step that changes one connection and no queue.
LEMMA OneFlow ==
    ASSUME Base, Flows, NEW c \in Conns, NEW after \in Connection,
           conn' = [conn EXCEPT ![c] = after], UNCHANGED <<up, password, content, cmdQue>>,
           forking' \in [Servers -> Conns \cup {NoConn}],
           pc' \in [Servers -> {"idle", "write", "read", "close"}],
           Busy', conn[c].to = NoConn \/ after.to = conn[c].to, Flow(c)'
    PROVE  Base' /\ Flows'
<1> USE DEF Base
<1>1. conn'[c] = after /\ \A d \in Conns \ {c} : conn'[d] = conn[d]
  BY DEF TypeOK
<1>2. TypeOK'
  <2>1. conn' \in [Conns -> Connection]
    BY DEF TypeOK
  <2> QED BY <2>1, PasswordFixed DEF TypeOK
<1>3. Finite'
  BY DEF Finite
<1>4. Addressed'
  <2> SUFFICES ASSUME NEW t \in Servers, NEW i \in DOMAIN cmdQue[t]
               PROVE conn'[cmdQue[t][i].conn].to = t
    BY DEF Addressed
  <2>1. PICK d \in Conns : d = cmdQue[t][i].conn
    BY QueueType
  <2>2. conn[d].to = t /\ t # NoConn
    BY <2>1, MigrationAssumption DEF Addressed
  <2> QED BY <1>1, <2>1, <2>2
<1>5. ASSUME NEW d \in Conns, d # c PROVE Flow(d)'
  <2>1. conn'[d] = conn[d] /\ Flow(d) /\ up' = up /\ password' = password
    BY <1>1, <1>5 DEF Flows
  <2>2. Queued(d)' = Queued(d)
    BY <2>1, SameQueue
  <2>3. Live(d)' => Live(d)
    BY <2>1 DEF Live
  <2> QED BY <2>1, <2>2, <2>3, SameFlow
<1> QED BY <1>2, <1>3, <1>4, <1>5 DEF Flows

\* A step after which a connection has its requests where they were.
LEMMA KeepsFlow ==
    ASSUME Base, Flows, NEW c \in Conns, NEW after \in Connection,
           conn' = [conn EXCEPT ![c] = after], UNCHANGED <<up, password, content, cmdQue>>,
           forking' \in [Servers -> Conns \cup {NoConn}],
           pc' \in [Servers -> {"idle", "write", "read", "close"}],
           \A s \in Servers : /\ pc'[s] # "idle" => pc[s] # "idle" /\ forking'[s] = forking[s]
                              /\ pc[s] = "write" /\ pc'[s] \notin {"idle", "write"} =>
                                   conn[forking[s]].todo = <<>>,
           after.to = conn[c].to, after.plan = conn[c].plan, after.done = conn[c].done,
           after.rx = conn[c].rx, after.todo = conn[c].todo, after.reset = conn[c].reset,
           after.alive => conn[c].alive
    PROVE  Base' /\ Flows'
<1> USE DEF Base
<1>1. conn'[c] = after /\ \A d \in Conns \ {c} : conn'[d] = conn[d]
  BY DEF TypeOK
<1>2. \A d \in Conns : /\ conn'[d].to = conn[d].to /\ conn'[d].reset = conn[d].reset
                       /\ conn'[d].todo = conn[d].todo
  BY <1>1
<1>3. Busy'
  BY <1>2 DEF Busy, TypeOK
<1>4. Flow(c)'
  <2>1. Queued(c)' = Queued(c)
    BY <1>2, SameQueue
  <2>2. Live(c)' => Live(c)
    BY <1>1 DEF Live
  <2>3. Flow(c)
    BY DEF Flows
  <2> QED BY <1>1, <2>1, <2>2, <2>3, SameFlow
<1> QED BY <1>3, <1>4, OneFlow, Zenon

\* The command thread of the source notes an error, reads on or has written
\* everything; the receiver's io threads send or see the end.
LEMMA QuietFlow ==
    ASSUME Base, Flows,
           \/ \E s \in Servers : WriteFails(s) \/ WriteDone(s) \/ Read(s)
           \/ \E c \in Conns : IoEnd(c) \/ IoSend(c)
    PROVE  Base' /\ Flows'
<1> USE DEF Base
<1>1. ASSUME NEW s \in Servers, WriteFails(s) PROVE Base' /\ Flows'
  <2>0. PICK c \in Conns : c = forking[s]
    BY <1>1, Zenon DEF WriteFails, Busy
  <2>1. conn[c] \in Connection
    BY DEF TypeOK
  <2>2. PICK x \in Results : x = "Write Error"
    BY DEF Results
  <2> DEFINE after == [conn[c] EXCEPT !.result = x]
  <2>3. /\ conn' = [conn EXCEPT ![c] = after]
        /\ forking' = [forking EXCEPT ![s] = NoConn] /\ pc' = [pc EXCEPT ![s] = "idle"]
        /\ UNCHANGED <<up, password, content, cmdQue>>
    BY <2>0, <2>2, <1>1, Zenon DEF WriteFails, Reply
  <2>4. /\ after \in Connection
        /\ after.to = conn[c].to /\ after.plan = conn[c].plan /\ after.done = conn[c].done
        /\ after.rx = conn[c].rx /\ after.todo = conn[c].todo /\ after.reset = conn[c].reset
        /\ after.alive => conn[c].alive
    BY <2>1, Zenon DEF Connection
  <2> HIDE DEF after
  <2>5. /\ forking' \in [Servers -> Conns \cup {NoConn}]
        /\ pc' \in [Servers -> {"idle", "write", "read", "close"}]
        /\ \A u \in Servers : /\ pc'[u] # "idle" => pc[u] # "idle" /\ forking'[u] = forking[u]
                              /\ pc[u] = "write" /\ pc'[u] \notin {"idle", "write"} =>
                                   conn[forking[u]].todo = <<>>
    BY <2>3 DEF TypeOK
  <2> QED BY <2>3, <2>4, <2>5, KeepsFlow, Zenon
<1>2. ASSUME NEW s \in Servers, WriteDone(s) PROVE Base' /\ Flows'
  <2>1. /\ UNCHANGED <<up, password, content, forking, cmdQue, conn>>
        /\ pc' = [pc EXCEPT ![s] = "read"] /\ pc[s] = "write" /\ conn[forking[s]].todo = <<>>
    BY <1>2 DEF WriteDone
  <2>2. PICK c \in Conns : c = forking[s]
    BY <2>1 DEF Busy
  <2>3. conn[c] \in Connection /\ conn' = [conn EXCEPT ![c] = conn[c]]
    BY <2>1 DEF TypeOK
  <2>4. /\ forking' \in [Servers -> Conns \cup {NoConn}]
        /\ pc' \in [Servers -> {"idle", "write", "read", "close"}]
        /\ \A u \in Servers : /\ pc'[u] # "idle" => pc[u] # "idle" /\ forking'[u] = forking[u]
                              /\ pc[u] = "write" /\ pc'[u] \notin {"idle", "write"} =>
                                   conn[forking[u]].todo = <<>>
    BY <2>1 DEF TypeOK
  <2> QED BY <2>1, <2>3, <2>4, KeepsFlow, Zenon
<1>3. ASSUME NEW s \in Servers, Read(s) PROVE Base' /\ Flows'
  <2>0. PICK c \in Conns : c = forking[s]
    BY <1>3 DEF Read, Busy
  <2>1. conn[c] \in Connection
    BY DEF TypeOK
  <2>2. PICK x \in Int : x = 0
    OBVIOUS
  <2> DEFINE after == [conn[c] EXCEPT !.back = x]
  <2>3. /\ conn' = [conn EXCEPT ![c] = after] /\ pc[s] = "read"
        /\ \E to \in {"read", "close"} : pc' = [pc EXCEPT ![s] = to]
        /\ UNCHANGED <<up, password, content, forking, cmdQue>>
    BY <2>0, <2>2, <1>3, Zenon DEF Read
  <2>4. /\ after \in Connection
        /\ after.to = conn[c].to /\ after.plan = conn[c].plan /\ after.done = conn[c].done
        /\ after.rx = conn[c].rx /\ after.todo = conn[c].todo /\ after.reset = conn[c].reset
        /\ after.alive => conn[c].alive
    BY <2>1, Zenon DEF Connection
  <2> HIDE DEF after
  <2>5. /\ forking' \in [Servers -> Conns \cup {NoConn}]
        /\ pc' \in [Servers -> {"idle", "write", "read", "close"}]
        /\ \A u \in Servers : /\ pc'[u] # "idle" => pc[u] # "idle" /\ forking'[u] = forking[u]
                              /\ pc[u] = "write" /\ pc'[u] \notin {"idle", "write"} =>
                                   conn[forking[u]].todo = <<>>
    BY <2>3 DEF TypeOK
  <2> QED BY <2>3, <2>4, <2>5, KeepsFlow, Zenon
<1>4. ASSUME NEW c \in Conns, NEW after \in Connection,
             conn' = [conn EXCEPT ![c] = after],
             UNCHANGED <<up, password, content, forking, pc, cmdQue>>,
             after.to = conn[c].to, after.plan = conn[c].plan, after.done = conn[c].done,
             after.rx = conn[c].rx, after.todo = conn[c].todo, after.reset = conn[c].reset,
             after.alive => conn[c].alive
      PROVE  Base' /\ Flows'
  <2>1. /\ forking' \in [Servers -> Conns \cup {NoConn}]
        /\ pc' \in [Servers -> {"idle", "write", "read", "close"}]
        /\ \A u \in Servers : /\ pc'[u] # "idle" => pc[u] # "idle" /\ forking'[u] = forking[u]
                              /\ pc[u] = "write" /\ pc'[u] \notin {"idle", "write"} =>
                                   conn[forking[u]].todo = <<>>
    BY <1>4 DEF TypeOK
  <2> QED BY <1>4, <2>1, KeepsFlow, Zenon
<1>5. ASSUME NEW c \in Conns, IoEnd(c) PROVE Base' /\ Flows'
  <2> DEFINE after == [conn[c] EXCEPT !.alive = FALSE]
  <2>1. conn[c] \in Connection
    BY DEF TypeOK
  <2>2. /\ after \in Connection
        /\ after.to = conn[c].to /\ after.plan = conn[c].plan /\ after.done = conn[c].done
        /\ after.rx = conn[c].rx /\ after.todo = conn[c].todo /\ after.reset = conn[c].reset
        /\ ~after.alive
    BY <2>1, Zenon DEF Connection
  <2>3. /\ conn' = [conn EXCEPT ![c] = after]
        /\ UNCHANGED <<up, password, content, forking, pc, cmdQue>>
    BY <1>5 DEF IoEnd
  <2> HIDE DEF after
  <2> QED BY <1>4, <2>2, <2>3, Zenon
<1>6. ASSUME NEW c \in Conns, IoSend(c) PROVE Base' /\ Flows'
  <2>1. conn[c] \in Connection
    BY DEF TypeOK
  <2>2. PICK n \in Int, b \in Int, i \in {"in", "out"} :
           /\ conn' = [conn EXCEPT ![c] = [conn[c] EXCEPT !.sendBuf = n, !.back = b, !.interest = i]]
           /\ UNCHANGED <<up, password, content, forking, pc, cmdQue>>
    BY <1>6, <2>1, SendEffect
  <2> DEFINE after == [conn[c] EXCEPT !.sendBuf = n, !.back = b, !.interest = i]
  <2>3. /\ after \in Connection
        /\ after.to = conn[c].to /\ after.plan = conn[c].plan /\ after.done = conn[c].done
        /\ after.rx = conn[c].rx /\ after.todo = conn[c].todo /\ after.reset = conn[c].reset
        /\ after.alive => conn[c].alive
    BY <2>1, ZenonT(30) DEF Connection
  <2>4. conn' = [conn EXCEPT ![c] = after]
    BY <2>2
  <2> HIDE DEF after
  <2> QED BY <1>4, <2>2, <2>3, <2>4, Zenon
<1> QED BY <1>1, <1>2, <1>3, <1>5, <1>6

\* Nothing of a connection no FORK has opened is under way.
LEMMA NothingYet ==
    ASSUME Base, NEW c \in Conns, conn[c] = Unopened
    PROVE  /\ \A t \in Servers : RequestsOf(c, cmdQue[t]) = <<>>
           /\ \A s \in Servers : pc[s] # "idle" => forking[s] # c
<1> USE DEF Base
<1>1. conn[c].to \notin Servers
  BY MigrationAssumption DEF Unopened
<1>2. ASSUME NEW t \in Servers PROVE RequestsOf(c, cmdQue[t]) = <<>>
  <2>1. cmdQue[t] \in Seq(Queueable)
    BY DEF TypeOK
  <2>2. \A i \in 1..Len(cmdQue[t]) : cmdQue[t][i].conn # c
    BY <1>1, <2>1, SeqFacts DEF Addressed
  <2> QED BY <2>1, <2>2, RequestsAllOrNone
<1> QED BY <1>1, <1>2 DEF Busy

\* connect, or its failure.
LEMMA ConnectFlow ==
    ASSUME Base, Flows, NEW s \in Servers, NEW t \in Servers, NEW n \in Numbers,
           ConnectFails(s, n, t) \/ Connect(s, n, t)
    PROVE  Base' /\ Flows'
<1> USE DEF Base
<1>0. /\ <<>> \in Seq(Reqs) /\ Cat(<<>>, <<>>) = <<>>
      /\ \A p \in Seq(Reqs) : Cat(<<>>, p) = p
  <2>1. <<>> \in Seq(Reqs)
    OBVIOUS
  <2> QED BY <2>1, CatLaws, Zenon
<1>1. CASE ConnectFails(s, n, t)
  <2>1. PICK c \in Conns : /\ c[1] = s /\ conn[c] = Unopened
                           /\ conn' = [conn EXCEPT ![c] = [Unopened EXCEPT
                                 !.to = t, !.number = n, !.result = "Connect faied"]]
    BY <1>1, Zenon DEF ConnectFails, Conns
  <2> DEFINE after == [Unopened EXCEPT !.to = t, !.number = n, !.result = "Connect faied"]
  <2>3. after \in Connection
    BY <1>0, Opened, Zenon
  <2>4. after.to = t /\ after.plan = <<>> /\ after.done = <<>> /\ ~after.alive
    BY DEF Unopened
  <2>5. conn' = [conn EXCEPT ![c] = after] /\ UNCHANGED <<up, password, content, forking, pc, cmdQue>>
    BY <1>1, <2>1, Zenon DEF ConnectFails
  <2> HIDE DEF after
  <2>6. /\ forking' \in [Servers -> Conns \cup {NoConn}]
        /\ pc' \in [Servers -> {"idle", "write", "read", "close"}]
    BY <2>5 DEF TypeOK
  <2>7. Busy'
    BY <2>1, <2>5, NothingYet DEF TypeOK, Busy
  <2>8. Flow(c)'
    <3>1. conn'[c] = after /\ Reqs' = Reqs
      BY <2>5, PasswordFixed DEF TypeOK
    <3>2. \E rest \in Seq(Reqs) : Cat(conn'[c].done, rest) = conn'[c].plan
      BY <1>0, <2>4, <3>1
    <3> QED BY <2>4, <3>1, <3>2 DEF Flow, Live
  <2>9. conn[c].to = NoConn
    BY <2>1 DEF Unopened
  <2> QED BY <2>3, <2>5, <2>6, <2>7, <2>8, <2>9, OneFlow, Zenon
<1>2. CASE Connect(s, n, t)
  <2>1. PICK c \in Conns : /\ c[1] = s /\ conn[c] = Unopened
                           /\ conn' = [conn EXCEPT ![c] = [Unopened EXCEPT
                                 !.to = t, !.number = n, !.plan = Fork(s, n),
                                 !.todo = Fork(s, n), !.open = TRUE, !.alive = TRUE]]
                           /\ forking' = [forking EXCEPT ![s] = c]
    BY <1>2, Zenon DEF Connect, Conns
  <2>2. PICK plan \in Seq(Reqs) : plan = Fork(s, n)
    <3>1. content[s][n] \subseteq AllKeys /\ IsFiniteSet(content[s][n])
      BY DEF TypeOK, Finite
    <3> QED BY <3>1, ForkType
  <2> DEFINE after == [Unopened EXCEPT !.to = t, !.number = n, !.plan = plan,
                                       !.todo = plan, !.open = TRUE, !.alive = TRUE]
  <2>4. after \in Connection
    BY Opened, Zenon
  <2>5. /\ after.to = t /\ after.plan = plan /\ after.todo = plan /\ after.rx = <<>>
        /\ after.done = <<>> /\ ~after.reset
    BY DEF Unopened
  <2>6. /\ conn' = [conn EXCEPT ![c] = after] /\ forking' = [forking EXCEPT ![s] = c]
        /\ pc' = [pc EXCEPT ![s] = "write"] /\ UNCHANGED <<up, password, content, cmdQue>>
    BY <1>2, <2>1, <2>2, Zenon DEF Connect
  <2> HIDE DEF after
  <2>7. /\ forking' \in [Servers -> Conns \cup {NoConn}]
        /\ pc' \in [Servers -> {"idle", "write", "read", "close"}]
    BY <2>6 DEF TypeOK
  <2>8. Busy'
    <3>1. conn'[c] = after /\ \A d \in Conns \ {c} : conn'[d] = conn[d]
      BY <2>6 DEF TypeOK
    <3>2. /\ pc'[s] = "write" /\ forking'[s] = c
          /\ \A u \in Servers \ {s} : pc'[u] = pc[u] /\ forking'[u] = forking[u]
      BY <2>6 DEF TypeOK
    <3>3. \A u \in Servers : pc[u] # "idle" => forking[u] # c
      BY <2>1, NothingYet
    <3>4. ASSUME NEW u \in Servers, pc'[u] # "idle"
          PROVE  /\ forking'[u] \in Conns /\ forking'[u][1] = u
                 /\ conn'[forking'[u]].to \in Servers /\ ~conn'[forking'[u]].reset
                 /\ pc'[u] # "write" => conn'[forking'[u]].todo = <<>>
      <4>1. CASE u = s
        BY <2>1, <2>5, <3>1, <3>2, <4>1
      <4>2. CASE u # s
        <5>1. forking[u] \in Conns \ {c} /\ pc[u] # "idle"
          BY <3>2, <3>3, <3>4, <4>2 DEF Busy
        <5> QED BY <3>1, <3>2, <4>2, <5>1 DEF Busy
      <4> QED BY <4>1, <4>2
    <3> QED BY <3>4 DEF Busy
  <2>9. Flow(c)'
    <3>1. conn'[c] = after /\ cmdQue' = cmdQue /\ Reqs' = Reqs
      BY <2>6, PasswordFixed DEF TypeOK
    <3>2. Queued(c)' = <<>>
      <4>1. RequestsOf(c, cmdQue[t]) = <<>>
        BY <2>1, NothingYet
      <4>2. Queued(c)' = RequestsOf(c, cmdQue[t])
        BY <2>5, <3>1 DEF Queued, RequestsOf
      <4> QED BY <4>1, <4>2
    <3>3. Line(c)' = <<>>
      BY <1>0, <2>5, <3>1, <3>2, Zenon DEF Line
    <3>4. Cat(<<>>, plan) = plan
      BY <1>0
    <3>5. Cat(Line(c)', plan) = plan /\ Cat(conn'[c].done, plan) = plan
      BY <2>5, <3>1, <3>3, <3>4, Zenon
    <3> QED BY <2>5, <3>1, <3>5, Zenon DEF Flow
  <2>10. conn[c].to = NoConn
    BY <2>1 DEF Unopened
  <2> QED BY <2>4, <2>6, <2>7, <2>8, <2>9, <2>10, OneFlow, Zenon
<1> QED BY <1>1, <1>2

\* The source writes a request: it leaves what is to be written and is the
\* last in the socket.
LEMMA WriteFlow ==
    ASSUME Base, Flows, NEW s \in Servers, Write(s)
    PROVE  Base' /\ Flows'
<1> USE DEF Base
<1>1. PICK c \in Conns : c = forking[s]
  BY Zenon DEF Write, Busy
<1>2. /\ up[s] /\ pc[s] = "write" /\ c[1] = s /\ conn[c].to \in Servers /\ ~conn[c].reset
      /\ conn[c] \in Connection
  BY <1>1 DEF Write, Busy, TypeOK
<1>3. /\ conn[c].rx \in Seq(Reqs) /\ conn[c].todo \in Seq(Reqs)
      /\ conn[c].done \in Seq(Reqs) /\ conn[c].plan \in Seq(Reqs)
  BY <1>2 DEF Connection
<1>4. conn[c].todo # <<>>
  BY <1>1 DEF Write
<1>5. PICK e \in Reqs, todo \in Seq(Reqs), one \in Seq(Reqs), rx \in Seq(Reqs) :
         /\ e = Head(conn[c].todo) /\ todo = Tail(conn[c].todo) /\ one = <<e>>
         /\ rx = Append(conn[c].rx, e) /\ rx = Cat(conn[c].rx, one)
         /\ conn[c].todo = Cat(one, todo)
  <2>1. PICK old \in Seq(Reqs), r \in Seq(Reqs) : old = conn[c].todo /\ r = conn[c].rx
    BY <1>3, Zenon
  <2>2. old # <<>>
    BY <1>4, <2>1
  <2>3. Head(old) \in Reqs /\ Tail(old) \in Seq(Reqs) /\ old = Cat(<<Head(old)>>, Tail(old))
    BY <2>2, AppendLaws
  <2>4. PICK e \in Reqs : e = Head(old)
    BY <2>3
  <2>5. <<e>> \in Seq(Reqs) /\ Append(r, e) \in Seq(Reqs)
    OBVIOUS
  <2>6. Append(r, e) = Cat(r, <<e>>)
    BY DEF Cat
  <2>7. old = Cat(<<e>>, Tail(old))
    BY <2>3, <2>4
  <2> QED BY <2>1, <2>3, <2>4, <2>5, <2>6, <2>7
<1> DEFINE after == Written(conn[c], todo, rx)
<1>6. conn' = [conn EXCEPT ![c] = after] /\ UNCHANGED <<up, password, content, forking, pc, cmdQue>>
  BY <1>1, <1>5 DEF Write, Written
<1>7. /\ after \in Connection
      /\ after.to = conn[c].to /\ after.plan = conn[c].plan /\ after.done = conn[c].done
      /\ after.reset = conn[c].reset /\ after.alive = conn[c].alive
      /\ after.todo = todo /\ after.rx = rx
  BY <1>2, ZenonT(30) DEF Connection, Written
<1> HIDE DEF after
<1>8. /\ forking' \in [Servers -> Conns \cup {NoConn}]
      /\ pc' \in [Servers -> {"idle", "write", "read", "close"}]
  BY <1>6 DEF TypeOK
<1>9. conn'[c] = after /\ \A d \in Conns \ {c} : conn'[d] = conn[d]
  BY <1>6 DEF TypeOK
<1>10. Busy'
  <2> SUFFICES ASSUME NEW u \in Servers, pc[u] # "idle"
               PROVE /\ forking[u] \in Conns /\ forking[u][1] = u
                     /\ conn'[forking[u]].to \in Servers /\ ~conn'[forking[u]].reset
                     /\ pc[u] # "write" => conn'[forking[u]].todo = <<>>
    BY <1>6 DEF Busy
  <2>1. /\ forking[u] \in Conns /\ forking[u][1] = u
        /\ conn[forking[u]].to \in Servers /\ ~conn[forking[u]].reset
        /\ pc[u] # "write" => conn[forking[u]].todo = <<>>
    BY DEF Busy
  <2>2. CASE forking[u] = c
    <3>1. u = s
      BY <1>2, <2>1, <2>2
    <3> QED BY <1>2, <1>7, <1>9, <2>1, <2>2, <3>1
  <2>3. CASE forking[u] # c
    BY <1>9, <2>1, <2>3
  <2> QED BY <2>2, <2>3
<1>11. Flow(c)'
  <2>1. Queued(c)' = Queued(c)
    BY <1>6, <1>7, <1>9, SameQueue
  <2>2. Live(c)' => Live(c)
    BY <1>6, <1>7, <1>9 DEF Live
  <2>3. Flow(c) /\ Reqs' = Reqs /\ up' = up
    BY <1>6, PasswordFixed DEF Flows
  <2>4. ASSUME Live(c)
        PROVE  Cat(Line(c)', todo) = conn[c].plan
    <3>1. Cat(Line(c), conn[c].todo) = conn[c].plan
      BY <1>2, <2>3, <2>4, Zenon DEF Flow
    <3>2. Queued(c) \in Seq(Reqs)
      BY <1>2, RequestsCat DEF Queued, TypeOK
    <3>3. PICK d \in Seq(Reqs), q \in Seq(Reqs), x \in Seq(Reqs) :
             d = conn[c].done /\ q = Queued(c) /\ x = conn[c].rx
      BY <1>3, <3>2, Zenon
    <3>4. Line(c)' = Cat(Cat(d, q), Cat(x, one)) /\ Line(c) = Cat(Cat(d, q), x)
      BY <1>5, <1>7, <1>9, <2>1, <3>3, Zenon DEF Line
    <3>5. Cat(Cat(Cat(d, q), Cat(x, one)), todo) = Cat(Cat(Cat(d, q), x), Cat(one, todo))
      BY LineSplit
    <3> QED BY <1>5, <3>1, <3>4, <3>5, Zenon
  <2> QED BY <1>2, <1>7, <1>9, <2>2, <2>3, <2>4, Zenon DEF Flow
<1> QED BY <1>6, <1>7, <1>8, <1>10, <1>11, OneFlow, Zenon

\* The source closes the connection: requests may be lost, the last ones.
LEMMA CloseFlow ==
    ASSUME Base, Flows, NEW s \in Servers, Close(s)
    PROVE  Base' /\ Flows'
<1> USE DEF Base
<1>1. PICK c \in Conns : c = forking[s]
  BY Zenon DEF Close, Busy
<1>2. /\ pc[s] = "close" /\ c[1] = s /\ conn[c].to \in Servers /\ conn[c] \in Connection
  BY <1>1 DEF Close, Busy, TypeOK
<1>3. conn[c].rx \in Seq(Reqs) /\ conn[c].done \in Seq(Reqs) /\ conn[c].plan \in Seq(Reqs)
  BY <1>2 DEF Connection
<1>4. PICK n \in 0..Len(conn[c].rx) :
         conn' = [conn EXCEPT ![c] = Closed(conn[c], SubSeq(conn[c].rx, 1, n), n < Len(conn[c].rx))]
  BY <1>1, Zenon DEF Close, Closed
<1>5. /\ UNCHANGED <<up, password, content, cmdQue>>
      /\ forking' = [forking EXCEPT ![s] = NoConn] /\ pc' = [pc EXCEPT ![s] = "idle"]
  BY Zenon DEF Close
<1>6. PICK rx \in Seq(Reqs), lost \in Seq(Reqs), reset \in BOOLEAN :
         /\ rx = SubSeq(conn[c].rx, 1, n) /\ conn[c].rx = Cat(rx, lost)
         /\ reset = (n < Len(conn[c].rx)) /\ (~reset => lost = <<>>)
  <2>1. PICK x \in Seq(Reqs) : x = conn[c].rx
    BY <1>3
  <2> DEFINE head == SubSeq(x, 1, n)
  <2> DEFINE tail == SubSeq(x, n + 1, Len(x))
  <2>2. n \in 0..Len(x) /\ Len(x) \in Nat
    BY <1>4, <2>1
  <2>3. /\ head \in Seq(Reqs) /\ Len(head) = n /\ \A i \in 1..n : head[i] = x[i]
    BY <2>2
  <2>4. /\ tail \in Seq(Reqs) /\ Len(tail) = Len(x) - n
        /\ \A i \in 1..Len(x) - n : tail[i] = x[n + i]
    BY <2>2
  <2> HIDE DEF head, tail
  <2>5. x = Cat(head, tail)
    <3>1. /\ Len(x) = Len(head) + Len(tail)
          /\ \A i \in 1..Len(head) : x[i] = head[i]
          /\ \A i \in 1..Len(tail) : x[Len(head) + i] = tail[i]
      BY <2>2, <2>3, <2>4
    <3> QED BY <2>3, <2>4, <3>1, CatIs, Zenon
  <2>6. ~(n < Len(x)) => tail = <<>>
    BY <2>2, <2>4
  <2>7. (n < Len(x)) \in BOOLEAN
    OBVIOUS
  <2> QED BY <2>1, <2>3, <2>4, <2>5, <2>6, <2>7, Zenon DEF head
<1> DEFINE after == Closed(conn[c], rx, reset)
<1>7. conn' = [conn EXCEPT ![c] = after]
  BY <1>4, <1>6, Zenon
<1>8. /\ after \in Connection
      /\ after.to = conn[c].to /\ after.plan = conn[c].plan /\ after.done = conn[c].done
      /\ after.alive = conn[c].alive /\ after.todo = conn[c].todo /\ after.rx = rx
      /\ after.reset = reset
  <2>1. after \in Connection /\ after.to = conn[c].to /\ after.alive = conn[c].alive
        /\ after.todo = conn[c].todo /\ after.rx = rx
    BY <1>2, Shut
  <2>2. after.plan = conn[c].plan /\ after.done = conn[c].done /\ after.reset = reset
    BY <1>2 DEF Connection, Closed
  <2> QED BY <2>1, <2>2
<1> HIDE DEF after
<1>9. /\ forking' \in [Servers -> Conns \cup {NoConn}]
      /\ pc' \in [Servers -> {"idle", "write", "read", "close"}]
  BY <1>5 DEF TypeOK
<1>10. conn'[c] = after /\ \A d \in Conns \ {c} : conn'[d] = conn[d]
  BY <1>7 DEF TypeOK
<1>11. Busy'
  <2>1. pc'[s] = "idle" /\ \A u \in Servers \ {s} : pc'[u] = pc[u] /\ forking'[u] = forking[u]
    BY <1>5 DEF TypeOK
  <2>2. ASSUME NEW u \in Servers, pc'[u] # "idle"
        PROVE  /\ forking'[u] \in Conns /\ forking'[u][1] = u
               /\ conn'[forking'[u]].to \in Servers /\ ~conn'[forking'[u]].reset
               /\ pc'[u] # "write" => conn'[forking'[u]].todo = <<>>
    <3>1. u # s /\ pc[u] # "idle" /\ forking'[u] = forking[u] /\ pc'[u] = pc[u]
      BY <2>1, <2>2
    <3>2. forking[u] \in Conns \ {c}
      BY <1>2, <3>1 DEF Busy
    <3> QED BY <1>10, <3>1, <3>2 DEF Busy
  <2> QED BY <2>2 DEF Busy
<1>12. Flow(c)'
  <2>1. Queued(c)' = Queued(c)
    BY <1>5, <1>8, <1>10, SameQueue
  <2>2. Live(c)' => Live(c)
    BY <1>5, <1>8, <1>10 DEF Live
  <2>3. Flow(c) /\ Reqs' = Reqs /\ up' = up
    BY <1>5, PasswordFixed DEF Flows
  <2>4. ASSUME Live(c)
        PROVE  \E rest \in Seq(Reqs) : /\ Cat(Line(c)', rest) = conn[c].plan
                                       /\ up[c[1]] /\ ~reset => rest = conn[c].todo
    <3>1. PICK more \in Seq(Reqs) : /\ Cat(Line(c), more) = conn[c].plan
                                    /\ up[c[1]] /\ ~conn[c].reset => more = conn[c].todo
      BY <1>2, <2>3, <2>4, Zenon DEF Flow
    <3>2. Queued(c) \in Seq(Reqs)
      BY <1>2, RequestsCat DEF Queued, TypeOK
    <3>3. PICK d \in Seq(Reqs), q \in Seq(Reqs) : d = conn[c].done /\ q = Queued(c)
      BY <1>3, <3>2, Zenon
    <3>4. Line(c)' = Cat(Cat(d, q), rx) /\ Line(c) = Cat(Cat(d, q), Cat(rx, lost))
      BY <1>6, <1>8, <1>10, <2>1, <3>3, Zenon DEF Line
    <3>5. Cat(Cat(Cat(d, q), Cat(rx, lost)), more) = Cat(Cat(Cat(d, q), rx), Cat(lost, more))
      BY LineSplit
    <3>6. Cat(lost, more) \in Seq(Reqs) /\ (lost = <<>> => Cat(lost, more) = more)
      BY CatLaws, Zenon
    <3>7. ~conn[c].reset
      BY <1>1, <1>2 DEF Busy
    <3> QED BY <1>6, <3>1, <3>4, <3>5, <3>6, <3>7, Zenon
  <2> QED BY <1>2, <1>8, <1>10, <2>2, <2>3, <2>4, Zenon DEF Flow
<1> QED BY <1>5, <1>7, <1>8, <1>9, <1>11, <1>12, OneFlow, Zenon

\* An io thread queues what has arrived, after what is queued.
LEMMA ReadFlow ==
    ASSUME Base, Flows, NEW c \in Conns, IoRead(c)
    PROVE  Base' /\ Flows'
<1> USE DEF Base
<1>1. conn[c] \in Connection
  BY DEF TypeOK
<1>2. PICK t \in Servers, rx \in Seq(Reqs), none \in Seq(Reqs), todo \in Seq(Reqs) :
         t = conn[c].to /\ rx = conn[c].rx /\ none = <<>> /\ todo = conn[c].todo
  <2>1. conn[c].to \in Servers
    BY <1>1 DEF IoRead, Receiving, Connection
  <2>2. conn[c].rx \in Seq(Reqs) /\ conn[c].todo \in Seq(Reqs)
    BY <1>1 DEF Connection
  <2>3. <<>> \in Seq(Reqs)
    OBVIOUS
  <2> QED BY <2>1, <2>2, <2>3, Zenon
<1>3. PICK old \in Seq(Queueable) : old = cmdQue[t]
  BY DEF TypeOK
<1> DEFINE new == [i \in DOMAIN rx |-> [conn |-> c, req |-> rx[i]]]
<1>4. /\ new \in Seq(Queueable) /\ Len(new) = Len(rx)
      /\ \A i \in 1..Len(new) : new[i].conn = c
      /\ Reqs_of(new) = rx
  <2>1. DOMAIN rx = 1..Len(rx) /\ Len(rx) \in Nat /\ \A i \in 1..Len(rx) : rx[i] \in Reqs
    BY <1>2
  <2>2. \A i \in 1..Len(rx) : [conn |-> c, req |-> rx[i]] \in Queueable
    BY <2>1 DEF Queueable
  <2>3. new \in Seq(Queueable) /\ Len(new) = Len(rx) /\ DOMAIN new = DOMAIN rx
    BY <2>1, <2>2
  <2>4. \A i \in DOMAIN rx : new[i].conn = c /\ new[i].req = rx[i]
    OBVIOUS
  <2> HIDE DEF new
  <2>5. Reqs_of(new) = rx
    BY <2>1, <2>3, <2>4 DEF Reqs_of
  <2> QED BY <2>1, <2>3, <2>4, <2>5
<1>5. /\ cmdQue' = [cmdQue EXCEPT ![t] = Cat(old, new)]
      /\ conn' = [conn EXCEPT ![c] = Written(conn[c], todo, none)]
      /\ UNCHANGED <<up, password, content, forking, pc>>
  <2>1. Written(conn[c], todo, none) = [conn[c] EXCEPT !.rx = <<>>]
    BY <1>1, <1>2, Zenon DEF Written, Connection
  <2> QED BY <1>2, <1>3, <2>1 DEF IoRead, Cat
<1> HIDE DEF new
<1>6. PICK add \in Seq(Queueable), que \in Seq(Queueable) : add = new /\ que = Cat(old, add)
  BY <1>4, CatLaws, Zenon
<1>7. /\ \A d \in Conns \ {c} : conn'[d] = conn[d]
      /\ conn'[c] \in Connection /\ conn'[c].to = t /\ conn'[c].plan = conn[c].plan
      /\ conn'[c].done = conn[c].done /\ conn'[c].rx = <<>> /\ conn'[c].todo = conn[c].todo
      /\ conn'[c].reset = conn[c].reset /\ conn'[c].alive = conn[c].alive
  <2> DEFINE after == Written(conn[c], todo, none)
  <2>1. conn'[c] = after /\ \A d \in Conns \ {c} : conn'[d] = conn[d]
    BY <1>5 DEF TypeOK
  <2>2. /\ after \in Connection
        /\ after.to = conn[c].to /\ after.plan = conn[c].plan /\ after.done = conn[c].done
        /\ after.reset = conn[c].reset /\ after.alive = conn[c].alive
        /\ after.todo = todo /\ after.rx = none
    BY <1>1, ZenonT(30) DEF Connection, Written
  <2> HIDE DEF after
  <2> QED BY <1>2, <2>1, <2>2
<1>8. cmdQue'[t] = que /\ \A u \in Servers \ {t} : cmdQue'[u] = cmdQue[u]
  BY <1>5, <1>6 DEF TypeOK
<1>9. \A d \in Conns : /\ conn'[d].to = conn[d].to /\ conn'[d].reset = conn[d].reset
                       /\ conn'[d].todo = conn[d].todo
  BY <1>2, <1>7
<1>10. TypeOK'
  <2>1. cmdQue' \in [Servers -> Seq(Queueable)]
    BY <1>5, <1>6, Zenon DEF TypeOK
  <2>2. conn' \in [Conns -> Connection]
    BY <1>5, <1>7 DEF TypeOK
  <2> QED BY <1>5, <2>1, <2>2, PasswordFixed DEF TypeOK
<1>11. Finite' /\ Busy'
  BY <1>5, <1>9 DEF Finite, Busy
<1>12. Addressed'
  <2> SUFFICES ASSUME NEW u \in Servers, NEW i \in DOMAIN cmdQue'[u]
               PROVE conn'[cmdQue'[u][i].conn].to = u
    BY DEF Addressed
  <2>1. ASSUME i \in DOMAIN cmdQue[u], cmdQue'[u][i] = cmdQue[u][i]
        PROVE  conn'[cmdQue'[u][i].conn].to = u
    <3>1. PICK d \in Conns : d = cmdQue[u][i].conn
      BY <2>1, QueueType
    <3>2. conn[d].to = u
      BY <2>1, <3>1 DEF Addressed
    <3> QED BY <1>9, <2>1, <3>1, <3>2
  <2>2. CASE u # t
    BY <1>8, <2>1, <2>2
  <2>3. CASE u = t
    <3>1. /\ DOMAIN que = 1..Len(old) + Len(add) /\ DOMAIN old = 1..Len(old) /\ Len(old) \in Nat
          /\ \A j \in 1..Len(old) : que[j] = old[j]
          /\ \A j \in 1..Len(add) : que[Len(old) + j] = add[j]
          /\ Len(add) \in Nat
      BY <1>6, ConcatFacts, SeqFacts DEF Cat
    <3>2. CASE i \in 1..Len(old)
      BY <1>3, <1>8, <2>1, <2>3, <3>1, <3>2
    <3>3. CASE i \notin 1..Len(old)
      <4>1. i - Len(old) \in 1..Len(add) /\ i = Len(old) + (i - Len(old))
        BY <1>8, <2>3, <3>1, <3>3
      <4>2. cmdQue'[u][i].conn = c
        BY <1>4, <1>6, <1>8, <2>3, <3>1, <4>1
      <4> QED BY <1>7, <2>3, <4>2
    <3> QED BY <3>2, <3>3
  <2> QED BY <2>2, <2>3
<1>13. Flows'
  <2> SUFFICES ASSUME NEW d \in Conns PROVE Flow(d)'
    BY DEF Flows
  <2>0. Flow(d) /\ password' = password /\ up' = up /\ Reqs' = Reqs
    BY <1>5, PasswordFixed DEF Flows
  <2>1. Live(d)' => Live(d)
    BY <1>5, <1>7, <1>9 DEF Live
  <2>2. /\ RequestsOf(d, que) = Cat(RequestsOf(d, old), RequestsOf(d, add))
        /\ RequestsOf(d, old) \in Seq(Reqs)
    BY <1>6, RequestsCat
  <2>3. CASE d # c
    <3>1. conn'[d] = conn[d]
      BY <1>7, <2>3
    <3>2. ASSUME Live(d)' PROVE Queued(d)' = Queued(d)
      <4>1. CASE conn[d].to # t
        BY <1>8, <2>1, <3>1, <3>2, <4>1, SameQueue DEF Live
      <4>2. CASE conn[d].to = t
        <5>1. \A i \in 1..Len(add) : add[i].conn # d
          BY <1>4, <1>6, <2>3
        <5>2. RequestsOf(d, add) = <<>>
          BY <5>1, RequestsAllOrNone
        <5>3. RequestsOf(d, que) = RequestsOf(d, old)
          BY <2>2, <5>2, CatLaws, Zenon
        <5>4. Queued(d)' = RequestsOf(d, que)
          BY <1>8, <3>1, <4>2 DEF Queued, RequestsOf
        <5>5. Queued(d) = RequestsOf(d, old)
          BY <1>3, <4>2 DEF Queued
        <5> QED BY <5>3, <5>4, <5>5
      <4> QED BY <4>1, <4>2
    <3> QED BY <2>0, <2>1, <3>1, <3>2, SameFlow
  <2>4. CASE d = c
    <3>1. RequestsOf(c, add) = rx
      BY <1>4, <1>6, RequestsAllOrNone
    <3>2. Queued(c)' = RequestsOf(c, que)
      BY <1>7, <1>8 DEF Queued, RequestsOf
    <3>3. Queued(c) = RequestsOf(c, old)
      BY <1>2, <1>3 DEF Queued
    <3>4. conn[c].done \in Seq(Reqs)
      BY <1>1 DEF Connection
    <3>5. PICK q \in Seq(Reqs), x \in Seq(Reqs) : q = Queued(c) /\ x = conn[c].done
      BY <2>2, <2>4, <3>3, <3>4, Zenon
    <3>6. Line(c)' = Cat(Cat(x, Cat(q, rx)), <<>>)
      BY <1>7, <2>2, <2>4, <3>1, <3>2, <3>3, <3>5, Zenon DEF Line
    <3>7. Line(c) = Cat(Cat(x, q), rx)
      BY <1>2, <3>5 DEF Line
    <3>8. Line(c)' = Line(c)
      <4>1. /\ \A p, r \in Seq(Reqs) : Cat(p, r) \in Seq(Reqs)
            /\ \A p, r, y \in Seq(Reqs) : Cat(Cat(p, r), y) = Cat(p, Cat(r, y))
            /\ \A p \in Seq(Reqs) : Cat(p, <<>>) = p
        BY CatLaws, Zenon
      <4>2. PICK both \in Seq(Reqs) : both = Cat(x, Cat(q, rx))
        BY <4>1, Zenon
      <4> QED BY <3>6, <3>7, <4>1, <4>2
    <3> QED BY <1>7, <1>9, <2>0, <2>1, <2>4, <3>8, Zenon DEF Flow
  <2> QED BY <2>3, <2>4
<1> QED BY <1>10, <1>11, <1>12, <1>13

\* A connection that chose database n with req.
Selected(c, req, n) == [Answered(c, req) EXCEPT !.cur = n]

\* A reply leaves the requests of a connection where they are, and adds to
\* what has been executed.
LEMMA AnsweredFlow ==
    ASSUME NEW c \in Conns, conn[c] \in Connection, NEW req \in Reqs, NEW n \in Numbers,
           NEW after, after = Answered(c, req) \/ after = Selected(c, req, n)
    PROVE  /\ after \in Connection
           /\ after.to = conn[c].to /\ after.plan = conn[c].plan
           /\ after.todo = conn[c].todo /\ after.rx = conn[c].rx
           /\ after.reset = conn[c].reset /\ after.alive = conn[c].alive
           /\ after.done = Append(conn[c].done, req)
<1>1. PICK done \in Seq(Reqs), k \in Int, i \in {"in", "out"} :
         done = Append(conn[c].done, req) /\ k = conn[c].sendBuf + 1 /\ i = "out"
  <2>1. conn[c].done \in Seq(Reqs) /\ conn[c].sendBuf \in Int
    BY DEF Connection
  <2>2. Append(conn[c].done, req) \in Seq(Reqs) /\ conn[c].sendBuf + 1 \in Int
    BY <2>1
  <2> QED BY <2>2, Zenon
<1>2. Answered(c, req) = [conn[c] EXCEPT !.done = done, !.sendBuf = k, !.interest = i]
  BY <1>1 DEF Answered
<1>3. ASSUME NEW r \in Connection
      PROVE LET a == [r EXCEPT !.done = done, !.sendBuf = k, !.interest = i]
            IN /\ a \in Connection /\ a.to = r.to /\ a.plan = r.plan /\ a.todo = r.todo
               /\ a.rx = r.rx /\ a.reset = r.reset /\ a.alive = r.alive /\ a.done = done
  BY ZenonT(30) DEF Connection
<1>4. ASSUME NEW r \in Connection
      PROVE LET a == [r EXCEPT !.cur = n]
            IN /\ a \in Connection /\ a.to = r.to /\ a.plan = r.plan /\ a.todo = r.todo
               /\ a.rx = r.rx /\ a.reset = r.reset /\ a.alive = r.alive /\ a.done = r.done
  BY ZenonT(30) DEF Connection
<1>5. PICK a \in Connection : a = Answered(c, req)
  BY <1>2, <1>3, Zenon
<1>6. /\ a.to = conn[c].to /\ a.plan = conn[c].plan /\ a.todo = conn[c].todo
      /\ a.rx = conn[c].rx /\ a.reset = conn[c].reset /\ a.alive = conn[c].alive
      /\ a.done = done
  BY <1>2, <1>3, <1>5, Zenon
<1>7. CASE after = a
  BY <1>1, <1>6, <1>7
<1>8. CASE after = [a EXCEPT !.cur = n]
  BY <1>1, <1>4, <1>6, <1>8
<1> QED BY <1>5, <1>7, <1>8 DEF Selected

\* The first request of the queue of t, req on c, is taken, and executed
\* unless its connection is gone.
Takes(t, c, req, after) ==
    /\ UNCHANGED <<up, password, forking, pc>> /\ Finite'
    /\ content' \in [Servers -> [Numbers -> SUBSET AllKeys]]
    /\ cmdQue[t] # <<>> /\ up[t] /\ cmdQue' = [cmdQue EXCEPT ![t] = Tail(cmdQue[t])]
    /\ c = Head(cmdQue[t]).conn /\ req = Head(cmdQue[t]).req
    /\ conn' = [conn EXCEPT ![c] = after]
    /\ after.to = conn[c].to /\ after.plan = conn[c].plan /\ after.todo = conn[c].todo
    /\ after.rx = conn[c].rx /\ after.reset = conn[c].reset /\ after.alive = conn[c].alive
    /\ after.done = IF conn[c].alive THEN Append(conn[c].done, req) ELSE conn[c].done

\* What is taken is the next request of its connection.
LEMMA TakeFlow ==
    ASSUME Base, Flows, NEW t \in Servers, NEW c \in Conns, NEW req \in Reqs,
           NEW after \in Connection, Takes(t, c, req, after)
    PROVE  Base' /\ Flows'
<1>0. TypeOK /\ Busy /\ Addressed
  BY DEF Base
<1>1. PICK old \in Seq(Queueable) : old = cmdQue[t] /\ old # <<>>
  BY <1>0 DEF TypeOK, Takes
<1>2. /\ Len(old) \in Nat /\ DOMAIN old = 1..Len(old) /\ Len(old) >= 1 /\ Head(old) = old[1]
      /\ Head(old) \in Queueable /\ Tail(old) \in Seq(Queueable) /\ Len(Tail(old)) = Len(old) - 1
      /\ \A i \in 1..Len(old) - 1 : Tail(old)[i] = old[i + 1]
  BY <1>1, SeqFacts DEF Takes
<1>3. PICK first \in Queueable, one \in Seq(Queueable), que \in Seq(Queueable) :
         first = Head(old) /\ one = <<first>> /\ que = Tail(old) /\ old = Cat(one, que)
  <2>1. PICK first \in Queueable : first = Head(old)
    BY <1>2
  <2>2. <<first>> \in Seq(Queueable)
    OBVIOUS
  <2>3. old = Cat(<<Head(old)>>, Tail(old))
    BY <1>1, AppendLaws
  <2> QED BY <1>2, <2>1, <2>2, <2>3
<1>4. /\ first.conn = c /\ first.req = req /\ Len(one) = 1 /\ one[1] = first
      /\ Reqs_of(one) = <<req>>
  <2>1. first.conn = c /\ first.req = req
    BY <1>1, <1>3, Zenon DEF Takes
  <2>2. Len(<<first>>) = 1 /\ <<first>>[1] = first /\ DOMAIN <<first>> = 1..1
    OBVIOUS
  <2>3. Len(one) = 1 /\ one[1] = first /\ DOMAIN one = 1..1
    BY <1>3, <2>2, Zenon
  <2>4. Reqs_of(one) = [i \in 1..1 |-> one[i].req]
    BY <2>3, Zenon DEF Reqs_of
  <2>5. [i \in 1..1 |-> one[i].req] = <<req>>
    BY <2>1, <2>3
  <2> QED BY <2>1, <2>3, <2>4, <2>5, Zenon
<1>5. conn'[c] = after /\ \A d \in Conns \ {c} : conn'[d] = conn[d]
  BY <1>0, Zenon DEF Takes, TypeOK
<1>6. cmdQue'[t] = que /\ \A u \in Servers \ {t} : cmdQue'[u] = cmdQue[u]
  BY <1>0, <1>1, <1>3, Zenon DEF Takes, TypeOK
<1>7. \A d \in Conns : /\ conn'[d].to = conn[d].to /\ conn'[d].reset = conn[d].reset
                       /\ conn'[d].todo = conn[d].todo /\ conn'[d].alive = conn[d].alive
                       /\ conn'[d].plan = conn[d].plan /\ conn'[d].rx = conn[d].rx
  BY <1>5 DEF Takes
<1>8. TypeOK'
  <2>1. cmdQue' \in [Servers -> Seq(Queueable)]
    BY <1>0, <1>1, <1>2, Zenon DEF Takes, TypeOK
  <2>2. conn' \in [Conns -> Connection]
    BY <1>0, Zenon DEF Takes, TypeOK
  <2> QED BY <1>0, <2>1, <2>2, PasswordFixed, Zenon DEF Takes, TypeOK
<1>9. Busy'
  <2> SUFFICES ASSUME NEW u \in Servers, pc'[u] # "idle"
               PROVE /\ forking'[u] \in Conns /\ forking'[u][1] = u
                     /\ conn'[forking'[u]].to \in Servers /\ ~conn'[forking'[u]].reset
                     /\ pc'[u] # "write" => conn'[forking'[u]].todo = <<>>
    BY DEF Busy
  <2>1. pc' = pc /\ forking' = forking
    BY DEF Takes
  <2>2. /\ forking[u] \in Conns /\ forking[u][1] = u
        /\ conn[forking[u]].to \in Servers /\ ~conn[forking[u]].reset
        /\ pc[u] # "write" => conn[forking[u]].todo = <<>>
    BY <1>0, <2>1 DEF Busy
  <2> QED BY <1>7, <2>1, <2>2
<1>10. Addressed'
  <2> SUFFICES ASSUME NEW u \in Servers, NEW i \in DOMAIN cmdQue'[u]
               PROVE conn'[cmdQue'[u][i].conn].to = u
    BY DEF Addressed
  <2>1. PICK j \in DOMAIN cmdQue[u] : cmdQue'[u][i] = cmdQue[u][j]
    <3>1. CASE u # t
      BY <1>6, <3>1
    <3>2. CASE u = t
      <4>1. i \in 1..Len(old) - 1 /\ i + 1 \in 1..Len(old)
        BY <1>2, <1>3, <1>6, <3>2, SeqFacts
      <4>2. cmdQue'[u][i] = old[i + 1]
        BY <1>2, <1>3, <1>6, <3>2, <4>1
      <4> QED BY <1>1, <1>2, <3>2, <4>1, <4>2, Zenon
    <3> QED BY <3>1, <3>2
  <2>2. PICK d \in Conns : d = cmdQue[u][j].conn
    BY <1>0, QueueType
  <2>3. conn[d].to = u
    BY <1>0, <2>2 DEF Addressed
  <2> QED BY <1>7, <2>1, <2>2, <2>3
<1>11. Flows'
  <2> SUFFICES ASSUME NEW d \in Conns PROVE Flow(d)'
    BY DEF Flows
  <2>0. Flow(d) /\ password' = password /\ up' = up /\ Reqs' = Reqs
    BY PasswordFixed DEF Flows, Takes
  <2>1. Live(d)' => Live(d)
    BY <1>7 DEF Live, Takes
  <2>2. /\ RequestsOf(d, old) = Cat(RequestsOf(d, one), RequestsOf(d, que))
        /\ RequestsOf(d, que) \in Seq(Reqs)
    BY <1>3, RequestsCat
  <2>3. CASE d # c
    <3>1. conn'[d] = conn[d]
      BY <1>5, <2>3
    <3>2. ASSUME Live(d)' PROVE Queued(d)' = Queued(d)
      <4>1. CASE conn[d].to # t
        BY <1>6, <2>1, <3>1, <3>2, <4>1, SameQueue DEF Live
      <4>2. CASE conn[d].to = t
        <5>1. \A i \in 1..Len(one) : one[i].conn # d
          BY <1>4, <2>3
        <5>2. RequestsOf(d, one) = <<>>
          BY <5>1, RequestsAllOrNone
        <5>3. RequestsOf(d, que) = RequestsOf(d, old)
          BY <2>2, <5>2, CatLaws, Zenon
        <5>4. Queued(d)' = RequestsOf(d, que)
          <6>1. cmdQue'[conn'[d].to] = que
            BY <1>6, <3>1, <4>2, Zenon
          <6> QED BY <6>1, QueuedAfter
        <5>5. Queued(d) = RequestsOf(d, old)
          BY <1>1, <4>2 DEF Queued
        <5> QED BY <5>3, <5>4, <5>5
      <4> QED BY <4>1, <4>2
    <3> QED BY <2>0, <2>1, <3>1, <3>2, SameFlow
  <2>4. CASE d = c /\ ~conn[c].alive
    <3>1. ~Live(c)' /\ conn'[c].done = conn[c].done
      BY <1>5, <2>4 DEF Live, Takes
    <3>2. conn'[c].to = conn[c].to /\ conn'[c].plan = conn[c].plan
      BY <1>7
    <3> QED BY <2>0, <2>4, <3>1, <3>2, Zenon DEF Flow
  <2>5. CASE d = c /\ conn[c].alive
    <3>1. 1 \in DOMAIN cmdQue[t] /\ cmdQue[t][1].conn = c
      BY <1>1, <1>2, <1>3, <1>4
    <3>2. conn[c].to = t
      BY <1>0, <3>1, Zenon DEF Addressed
    <3>3. Live(c)
      BY <2>5, <3>2 DEF Live, Takes
    <3>4. RequestsOf(c, one) = <<req>>
      BY <1>4, RequestsAllOrNone
    <3>5. Queued(c)' = RequestsOf(c, que)
      <4>1. cmdQue'[conn'[c].to] = que
        BY <1>6, <1>7, <3>2, Zenon
      <4> QED BY <4>1, QueuedAfter
    <3>6. Queued(c) = RequestsOf(c, old)
      BY <1>1, <3>2 DEF Queued
    <3>7. conn[c] \in Connection
      BY <1>0 DEF TypeOK
    <3>8. conn[c].done \in Seq(Reqs) /\ conn[c].rx \in Seq(Reqs)
      BY <3>7 DEF Connection
    <3>9. PICK x \in Seq(Reqs), q \in Seq(Reqs), rx \in Seq(Reqs), e \in Seq(Reqs) :
             x = conn[c].done /\ q = Queued(c)' /\ rx = conn[c].rx /\ e = <<req>>
      <4>1. <<req>> \in Seq(Reqs)
        OBVIOUS
      <4> QED BY <2>2, <2>5, <3>5, <3>8, <4>1, Zenon
    <3>10. Append(x, req) = Cat(x, e)
      <4>1. Append(x, req) = Cat(x, <<req>>)
        BY AppendLaws
      <4> QED BY <3>9, <4>1
    <3>11. PICK dn \in Seq(Reqs) : dn = Cat(x, e)
      BY CatLaws, Zenon
    <3>12. conn'[c].done = dn
      BY <1>5, <2>5, <3>9, <3>10, <3>11, Zenon DEF Takes
    <3>13. Line(c)' = Cat(Cat(dn, q), rx)
      BY <1>7, <3>9, <3>12 DEF Line
    <3>14. Line(c) = Cat(Cat(x, Cat(e, q)), rx)
      BY <2>2, <2>5, <3>4, <3>5, <3>6, <3>9, Zenon DEF Line
    <3>15. Line(c)' = Line(c)
      <4>1. \A p, r, y \in Seq(Reqs) : Cat(Cat(p, r), y) = Cat(p, Cat(r, y))
        BY CatLaws, Zenon
      <4>2. Cat(dn, q) = Cat(x, Cat(e, q))
        BY <3>11, <4>1
      <4> QED BY <3>13, <3>14, <4>2, Zenon
    <3>16. PICK rest \in Seq(Reqs) : /\ Cat(Line(c), rest) = conn[c].plan
                                     /\ up[c[1]] /\ ~conn[c].reset => rest = conn[c].todo
      BY <2>0, <2>5, <3>2, <3>3, Zenon DEF Flow
    <3>17. /\ Cat(Cat(q, rx), rest) \in Seq(Reqs)
           /\ Cat(Cat(Cat(dn, q), rx), rest) = Cat(dn, Cat(Cat(q, rx), rest))
      BY LineTail
    <3>18. \E more \in Seq(Reqs) : Cat(conn'[c].done, more) = conn'[c].plan
      <4>1. Cat(dn, Cat(Cat(q, rx), rest)) = conn[c].plan
        BY <3>13, <3>15, <3>16, <3>17
      <4>2. conn'[c].plan = conn[c].plan
        BY <1>7
      <4> QED BY <3>12, <3>17, <4>1, <4>2
    <3>19. \E more \in Seq(Reqs) : /\ Cat(Line(c)', more) = conn'[c].plan
                                   /\ up'[c[1]] /\ ~conn'[c].reset => more = conn'[c].todo
      BY <1>7, <2>0, <3>15, <3>16, Zenon
    <3> QED BY <2>0, <2>5, <3>18, <3>19, Zenon DEF Flow
  <2> QED BY <2>3, <2>4, <2>5
<1> QED BY <1>8, <1>9, <1>10, <1>11 DEF Base, Takes

\* The command thread of t takes a request.
LEMMA ExecFlow ==
    ASSUME Base, Flows, NEW t \in Servers, ExecGone(t) \/ ExecSelect(t) \/ ExecPut(t)
    PROVE  Base' /\ Flows'
<1> USE DEF Base
<1>1. /\ cmdQue[t] # <<>> /\ up[t] /\ cmdQue' = [cmdQue EXCEPT ![t] = Tail(cmdQue[t])]
      /\ UNCHANGED <<up, password, forking, pc>>
  BY Zenon DEF ExecGone, ExecSelect, ExecPut, Idle
<1>2. cmdQue[t] \in Seq(Queueable)
  BY DEF TypeOK
<1>3. PICK c \in Conns, req \in Reqs : c = Head(cmdQue[t]).conn /\ req = Head(cmdQue[t]).req
  BY <1>1, <1>2, SeqFacts, QueueType
<1>4. conn[c] \in Connection /\ conn[c].cur \in Numbers
  BY DEF TypeOK, Connection
<1>5. CASE ExecGone(t)
  <2>1. conn' = [conn EXCEPT ![c] = conn[c]] /\ content' = content /\ ~conn[c].alive
    BY <1>3, <1>5 DEF ExecGone, TypeOK
  <2>2. Finite' /\ content' \in [Servers -> [Numbers -> SUBSET AllKeys]]
    BY <2>1 DEF TypeOK, Finite
  <2>3. Takes(t, c, req, conn[c])
    BY <1>1, <1>3, <2>1, <2>2, Zenon DEF Takes
  <2> QED BY <1>4, <2>3, TakeFlow
<1>6. ASSUME NEW after, NEW n \in Numbers, conn[c].alive,
             after = Answered(c, req) \/ after = Selected(c, req, n),
             conn' = [conn EXCEPT ![c] = after],
             Finite', content' \in [Servers -> [Numbers -> SUBSET AllKeys]]
      PROVE  Base' /\ Flows'
  <2>1. /\ after \in Connection
        /\ after.to = conn[c].to /\ after.plan = conn[c].plan
        /\ after.todo = conn[c].todo /\ after.rx = conn[c].rx
        /\ after.reset = conn[c].reset /\ after.alive = conn[c].alive
        /\ after.done = Append(conn[c].done, req)
    BY <1>4, <1>6, AnsweredFlow
  <2>2. after.done = IF conn[c].alive THEN Append(conn[c].done, req) ELSE conn[c].done
    BY <1>6, <2>1
  <2>3. Takes(t, c, req, after)
    BY <1>1, <1>3, <1>6, <2>1, <2>2, Zenon DEF Takes
  <2> QED BY <2>1, <2>3, TakeFlow
<1>7. CASE ExecSelect(t)
  <2>1. /\ req.cmd = "SELECT" /\ content' = content /\ conn[c].alive
        /\ \/ conn' = [conn EXCEPT ![c] = Selected(c, req, req.number)]
           \/ conn' = [conn EXCEPT ![c] = Selected(c, req, 0)]
    BY <1>3, <1>7, Zenon DEF ExecSelect, Selected
  <2>2. req.number \in Numbers /\ 0 \in Numbers
    BY <2>1, MigrationAssumption DEF Reqs
  <2>3. Finite' /\ content' \in [Servers -> [Numbers -> SUBSET AllKeys]]
    BY <2>1 DEF TypeOK, Finite
  <2> QED BY <1>6, <2>1, <2>2, <2>3, Zenon
<1>8. CASE ExecPut(t)
  <2>1. /\ req.cmd = "PUT" /\ conn[c].alive
        /\ content' = [content EXCEPT ![t][conn[c].cur] = @ \cup {req.key}]
        /\ conn' = [conn EXCEPT ![c] = Answered(c, req)]
    BY <1>3, <1>8 DEF ExecPut
  <2>2. PICK key \in AllKeys : key = req.key
    BY <2>1 DEF Reqs
  <2>3. content' \in [Servers -> [Numbers -> SUBSET AllKeys]]
    BY <1>4, <2>1, <2>2 DEF TypeOK
  <2>4. Finite'
    <3> SUFFICES ASSUME NEW s \in Servers, NEW n \in Numbers PROVE IsFiniteSet(content'[s][n])
      BY DEF Finite
    <3>1. content'[s][n] = content[s][n] \/ content'[s][n] = content[s][n] \cup {key}
      BY <1>4, <2>1, <2>2 DEF TypeOK
    <3>2. IsFiniteSet(content[s][n])
      BY DEF Finite
    <3>3. IsFiniteSet(content[s][n] \cup {key})
      BY <3>2, FS_AddElement
    <3> QED BY <3>1, <3>2, <3>3
  <2> QED BY <1>4, <1>6, <2>1, <2>3, <2>4, Zenon
<1> QED BY <1>5, <1>7, <1>8

\* A server is killed: what it had queued was never executed, and what it had
\* not written yet is never sent.
LEMMA CrashFlow ==
    ASSUME Base, Flows, NEW s \in Servers, Crash(s)
    PROVE  Base' /\ Flows'
<1> USE DEF Base
<1>1. /\ up' = [up EXCEPT ![s] = FALSE] /\ pc' = [pc EXCEPT ![s] = "idle"]
      /\ forking' = [forking EXCEPT ![s] = NoConn] /\ cmdQue' = [cmdQue EXCEPT ![s] = <<>>]
      /\ conn' = [c \in Conns |->
                    IF c[1] = s THEN [conn[c] EXCEPT !.open = FALSE, !.todo = <<>>] ELSE conn[c]]
      /\ UNCHANGED <<password, content>>
  BY Zenon DEF Crash
<1>2. ASSUME NEW c \in Conns
      PROVE  /\ conn'[c] \in Connection
             /\ conn'[c].to = conn[c].to /\ conn'[c].plan = conn[c].plan
             /\ conn'[c].done = conn[c].done /\ conn'[c].rx = conn[c].rx
             /\ conn'[c].reset = conn[c].reset /\ conn'[c].alive = conn[c].alive
             /\ c[1] # s => conn'[c].todo = conn[c].todo
  <2>1. conn[c] \in Connection
    BY DEF TypeOK
  <2>2. PICK none \in Seq(Reqs), shut \in BOOLEAN : none = <<>> /\ shut = FALSE
    <3>1. <<>> \in Seq(Reqs) /\ FALSE \in BOOLEAN
      OBVIOUS
    <3> QED BY <3>1, Zenon
  <2> DEFINE after == [conn[c] EXCEPT !.open = shut, !.todo = none]
  <2>3. /\ after \in Connection
        /\ after.to = conn[c].to /\ after.plan = conn[c].plan
        /\ after.done = conn[c].done /\ after.rx = conn[c].rx
        /\ after.reset = conn[c].reset /\ after.alive = conn[c].alive
    BY <2>1, ZenonT(40) DEF Connection
  <2>4. conn'[c] = IF c[1] = s THEN after ELSE conn[c]
    BY <1>1, <2>2, Zenon
  <2> HIDE DEF after
  <2> QED BY <2>1, <2>3, <2>4
<1>3. /\ up' \in [Servers -> BOOLEAN] /\ ~up'[s]
      /\ \A u \in Servers \ {s} : up'[u] = up[u] /\ pc'[u] = pc[u] /\ forking'[u] = forking[u]
      /\ \A u \in Servers \ {s} : cmdQue'[u] = cmdQue[u]
      /\ pc'[s] = "idle" /\ cmdQue'[s] = <<>>
  BY <1>1, Zenon DEF TypeOK
<1>4. TypeOK'
  <2>1. conn' \in [Conns -> Connection]
    BY <1>1, <1>2, Zenon
  <2>2. <<>> \in Seq(Queueable)
    OBVIOUS
  <2>3. cmdQue' \in [Servers -> Seq(Queueable)]
    BY <1>1, <2>2, Zenon DEF TypeOK
  <2> QED BY <1>1, <1>3, <2>1, <2>3, PasswordFixed, Zenon DEF TypeOK
<1>5. Finite'
  BY <1>1 DEF Finite
<1>6. Busy'
  <2> SUFFICES ASSUME NEW u \in Servers, pc'[u] # "idle"
               PROVE /\ forking'[u] \in Conns /\ forking'[u][1] = u
                     /\ conn'[forking'[u]].to \in Servers /\ ~conn'[forking'[u]].reset
                     /\ pc'[u] # "write" => conn'[forking'[u]].todo = <<>>
    BY DEF Busy
  <2>1. u # s /\ pc'[u] = pc[u] /\ forking'[u] = forking[u]
    BY <1>3
  <2>2. /\ forking[u] \in Conns /\ forking[u][1] = u
        /\ conn[forking[u]].to \in Servers /\ ~conn[forking[u]].reset
        /\ pc[u] # "write" => conn[forking[u]].todo = <<>>
    BY <2>1 DEF Busy
  <2> QED BY <1>2, <2>1, <2>2
<1>7. Addressed'
  <2> SUFFICES ASSUME NEW u \in Servers, NEW i \in DOMAIN cmdQue'[u]
               PROVE conn'[cmdQue'[u][i].conn].to = u
    BY DEF Addressed
  <2>1. u # s
    BY <1>3
  <2>2. cmdQue'[u] = cmdQue[u] /\ i \in DOMAIN cmdQue[u]
    BY <1>3, <2>1
  <2>3. PICK d \in Conns : d = cmdQue[u][i].conn
    BY <2>2, QueueType
  <2> QED BY <1>2, <2>2, <2>3 DEF Addressed
<1>8. Flows'
  <2> SUFFICES ASSUME NEW c \in Conns PROVE Flow(c)'
    BY DEF Flows
  <2>1. Flow(c) /\ password' = password
    BY <1>1 DEF Flows
  <2>2. ASSUME Live(c)' PROVE Live(c) /\ Queued(c)' = Queued(c)
    <3>1. conn'[c].to \in Servers \ {s}
      BY <1>3, <2>2 DEF Live
    <3> QED BY <1>2, <1>3, <2>2, <3>1, SameQueue DEF Live
  <2>3. c[1] \in Servers
    BY DEF Conns
  <2>4. up'[c[1]] /\ ~conn'[c].reset =>
            up[c[1]] /\ ~conn[c].reset /\ conn'[c].todo = conn[c].todo
    BY <1>2, <1>3, <2>3
  <2> QED BY <1>2, <2>1, <2>2, <2>4, SameFlow
<1> QED BY <1>4, <1>5, <1>6, <1>7, <1>8

\* Nothing is under way at first.
LEMMA InitFlow == Init => Base /\ Flows
<1> SUFFICES ASSUME Init PROVE Base /\ Flows
  OBVIOUS
<1>1. TypeOK /\ Apart
  BY InitGood DEF Good
<1>2. Finite
  BY <1>1, MigrationAssumption, FS_Subset DEF Apart, Finite
<1>3. Busy
  BY DEF Init, Busy
<1>4. Addressed
  <2>1. \A t \in Servers : DOMAIN cmdQue[t] = {}
    BY DEF Init
  <2> QED BY <2>1 DEF Addressed
<1>5. Flows
  <2>1. \A c \in Conns : conn[c] = Unopened
    BY DEF Init
  <2>2. Unopened.to \notin Servers
    BY MigrationAssumption DEF Unopened
  <2> QED BY <2>1, <2>2 DEF Flows, Flow
<1> QED BY <1>1, <1>2, <1>3, <1>4, <1>5 DEF Base

\* What is put together from a sequence begins with it.
LEMMA CatBegins ==
    ASSUME NEW S, NEW p \in Seq(S), NEW q \in Seq(S)
    PROVE  Begins(p, Cat(p, q))
BY DEF Begins, Cat

\* The requests of a FORK are executed in the order Db::Fork made them and
\* each once, and none is missing as long as both servers run and nobody hung
\* up: ServerCommand::Exec and Handler on any number of servers, whatever
\* their passwords, with sockets of any size and servers killed at any time.
THEOREM NothingLostOrTwice == Spec => []Conserved
<1>1. Init => Base /\ Flows
  BY InitFlow
<1>2. Base /\ Flows /\ [Next]_vars => Base' /\ Flows'
  <2> SUFFICES ASSUME Base, Flows, [Next]_vars PROVE Base' /\ Flows'
    OBVIOUS
  <2>1. ASSUME NEW s \in Servers, NEW t \in Servers, NEW n \in Numbers,
               ConnectFails(s, n, t) \/ Connect(s, n, t)
        PROVE  Base' /\ Flows'
    BY <2>1, ConnectFlow
  <2>2. ASSUME NEW s \in Servers, SourceStep(s) PROVE Base' /\ Flows'
    BY <2>2, WriteFlow, CloseFlow, QuietFlow DEF SourceStep
  <2>3. ASSUME NEW s \in Servers, ExecStep(s) PROVE Base' /\ Flows'
    BY <2>3, ExecFlow DEF ExecStep
  <2>4. ASSUME NEW s \in Servers, Crash(s) PROVE Base' /\ Flows'
    BY <2>4, CrashFlow
  <2>5. ASSUME NEW c \in Conns, IoRead(c) \/ IoEnd(c) \/ IoSend(c) PROVE Base' /\ Flows'
    BY <2>5, ReadFlow, QuietFlow
  <2>6. CASE UNCHANGED vars
    <3>1. Base'
      BY <2>6, PasswordFixed DEF vars, Base, TypeOK, Finite, Busy, Addressed
    <3>2. Flows'
      BY <2>6, PasswordFixed DEF vars, Flows, Flow, Line, Live, Queued, RequestsOf
    <3> QED BY <3>1, <3>2
  <2> QED BY <2>1, <2>2, <2>3, <2>4, <2>5, <2>6 DEF Next
<1>3. Base /\ Flows => Conserved
  <2> SUFFICES ASSUME Base, Flows, NEW c \in Conns, conn[c].to # NoConn
               PROVE  /\ Begins(conn[c].done, conn[c].plan)
                      /\ conn[c].alive /\ ~conn[c].reset /\ up[c[1]] /\ up[conn[c].to] =>
                           conn[c].done \o Queued(c) \o conn[c].rx \o conn[c].todo = conn[c].plan
    BY DEF Conserved
  <2>1. conn[c] \in Connection /\ conn[c].to \in Servers
    BY DEF Base, TypeOK, Connection
  <2>2. Flow(c)
    BY DEF Flows
  <2>3. conn[c].done \in Seq(Reqs)
    BY <2>1 DEF Connection
  <2>4. Begins(conn[c].done, conn[c].plan)
    BY <2>1, <2>2, <2>3, CatBegins DEF Flow
  <2>5. ASSUME conn[c].alive, ~conn[c].reset, up[c[1]], up[conn[c].to]
        PROVE  conn[c].done \o Queued(c) \o conn[c].rx \o conn[c].todo = conn[c].plan
    <3>1. Cat(Line(c), conn[c].todo) = conn[c].plan
      BY <2>1, <2>2, <2>5, Zenon DEF Flow, Live
    <3> QED BY <3>1 DEF Line, Cat
  <2> QED BY <2>4, <2>5
<1> QED BY <1>1, <1>2, <1>3, PTL DEF Spec
=============================================================================
