--------------------------- MODULE ReactorProofs ----------------------------
(***************************************************************************)
(* Proofs, for any number of connections, io threads and descriptors and   *)
(* for every load, of what Reactor says about the order of commands and    *)
(* replies, and for waiting clients about who owns a descriptor.           *)
(***************************************************************************)
EXTENDS ReactorStructureProofs, FiniteSetTheorems

\* The commands of a client among the first i of cmd_que_.
Count(que, c, i) == Cardinality({j \in 1..i : que[j].conn = c})

\* What a command counts for a client.
One(command, c) == IF command.conn = c THEN 1 ELSE 0

\* The requests of a client that have been executed or are in cmd_que_.
Due(c) == executed[c] + Count(cmdQue, c, Len(cmdQue))

\* The io thread t pushes requests of c.
Pushes(t, c) == io[t].pc = "push" /\ io[t].conn = c

\* The commands of c in cmd_que_ follow the ones that have been executed.
Ordered(c) ==
    \A i \in DOMAIN cmdQue : cmdQue[i].conn = c =>
      cmdQue[i].req = executed[c] + Count(cmdQue, c, i)

\* The requests an io thread has exported for its client and not yet pushed
\* are the next ones; with no such thread all the exported ones are pushed.
Pushed(c) ==
    /\ \A t \in IoThreads : Pushes(t, c) =>
         /\ io[t].next = Due(c) + 1
         /\ io[t].last = info[c].parsed
         /\ io[t].next <= io[t].last + 1
    /\ (\A t \in IoThreads : ~ Pushes(t, c)) => info[c].parsed = Due(c)

InOrder == \A c \in Conns : Alive(c) => Ordered(c) /\ Pushed(c)

IInv == Structure /\ InOrder

(***************************************************************************)
(* Queues.                                                                 *)
(***************************************************************************)
\* Taking the first element of a queue followed by another.
LEMMA TailConcat ==
    ASSUME NEW S, NEW s \in Seq(S), NEW q \in Seq(S), s # <<>>
    PROVE  s \o q # <<>> /\ Tail(s \o q) = Tail(s) \o q
<1>1. /\ s \o q \in Seq(S) /\ Len(s \o q) = Len(s) + Len(q)
      /\ Len(s) \in Nat \ {0} /\ Len(q) \in Nat
      /\ \A i \in 1..Len(s) : (s \o q)[i] = s[i]
      /\ \A i \in 1..Len(q) : (s \o q)[Len(s) + i] = q[i]
  OBVIOUS
<1>2. s \o q # <<>>
  <2>1. Len(s \o q) # 0
    BY <1>1
  <2> QED BY <2>1
<1>3. \A r \in Seq(S) : r # <<>> =>
         /\ Tail(r) \in Seq(S) /\ Len(Tail(r)) = Len(r) - 1
         /\ \A i \in 1..Len(r) - 1 : Tail(r)[i] = r[i + 1]
  OBVIOUS
<1> DEFINE a == Tail(s)
           v == Tail(s \o q)
<1>4. /\ a \in Seq(S) /\ Len(a) = Len(s) - 1
      /\ \A i \in 1..Len(s) - 1 : a[i] = s[i + 1]
  BY <1>3
<1>5. /\ v \in Seq(S) /\ Len(v) = Len(s) + Len(q) - 1
      /\ \A i \in 1..Len(s) + Len(q) - 1 : v[i] = (s \o q)[i + 1]
  BY <1>1, <1>2, <1>3
<1> HIDE DEF a, v
<1>6. \A i \in 1..Len(a) : v[i] = a[i]
  BY <1>1, <1>4, <1>5
<1>7. ASSUME NEW i \in 1..Len(q) PROVE v[Len(a) + i] = q[i]
  <2>1. Len(a) + i \in 1..Len(s) + Len(q) - 1 /\ (Len(a) + i) + 1 = Len(s) + i
    BY <1>1, <1>4
  <2> QED BY <1>1, <1>5, <2>1
<1>8. Len(v) = Len(a) + Len(q)
  BY <1>1, <1>4, <1>5
<1>9. v = Cat(a, q)
  BY <1>4, <1>5, <1>6, <1>7, <1>8, CatIs, Zenon
<1> QED BY <1>2, <1>9 DEF Cat, a, v

\* Three queues, one after the other.
LEMMA Associative ==
    ASSUME NEW S, NEW s \in Seq(S), NEW t \in Seq(S), NEW u \in Seq(S)
    PROVE  s \o t \in Seq(S) /\ (s \o t) \o u = s \o (t \o u)
BY CatLaws DEF Cat

\* Moving the first n elements of one queue to the end of another.
LEMMA MoveConcat ==
    ASSUME NEW S, NEW s \in Seq(S), NEW q \in Seq(S), NEW n \in 0..Len(q)
    PROVE  (s \o SubSeq(q, 1, n)) \o SubSeq(q, n + 1, Len(q)) = s \o q
<1> DEFINE a == SubSeq(q, 1, n)
           b == SubSeq(q, n + 1, Len(q))
<1>1. n \in Nat /\ Len(q) \in Nat /\ n <= Len(q)
  OBVIOUS
<1>2. a \in Seq(S) /\ Len(a) = n /\ \A i \in 1..n : a[i] = q[i]
  BY <1>1
<1>3. b \in Seq(S) /\ Len(b) = Len(q) - n /\ \A i \in 1..Len(q) - n : b[i] = q[n + i]
  BY <1>1
<1> HIDE DEF a, b
<1>4. a \in Seq(S) /\ b \in Seq(S)
  BY <1>2, <1>3
<1>5. a \o b = q
  <2>1. q = Cat(a, b)
    <3>1. /\ Len(q) = Len(a) + Len(b) /\ \A i \in 1..Len(a) : q[i] = a[i]
          /\ \A i \in 1..Len(b) : q[Len(a) + i] = b[i]
      BY <1>1, <1>2, <1>3
    <3> QED BY <1>4, <3>1, CatIs, Zenon
  <2> QED BY <2>1 DEF Cat
<1>6. (s \o a) \o b = s \o (a \o b)
  BY <1>4, Associative
<1>7. (s \o a) \o b = s \o q
  BY <1>5, <1>6
<1> QED BY <1>7, Zenon DEF a, b

(***************************************************************************)
(* Counting commands.                                                      *)
(***************************************************************************)
\* One more command of the queue counts for the client it is of.
LEMMA CountStep ==
    ASSUME NEW que, NEW c, NEW i \in Nat
    PROVE  /\ Count(que, c, i) \in Nat
           /\ Count(que, c, 0) = 0
           /\ Count(que, c, i + 1) = Count(que, c, i)
                                     + One(que[i + 1], c)
<1> DEFINE S(n) == {j \in 1..n : que[j].conn = c}
<1>1. IsFiniteSet(S(i)) /\ Cardinality(S(i)) \in Nat
  <2>1. IsFiniteSet(1..i)
    BY FS_Interval
  <2>2. S(i) \in SUBSET (1..i)
    OBVIOUS
  <2> QED BY <2>1, <2>2, FS_Subset, FS_CardinalityType
<1>2. Cardinality(S(0)) = 0
  <2>1. S(0) = {}
    OBVIOUS
  <2> QED BY <2>1, FS_EmptySet
<1>3. CASE que[i + 1].conn = c
  <2>1. S(i + 1) = S(i) \cup {i + 1} /\ i + 1 \notin S(i)
    BY <1>3
  <2> HIDE DEF S
  <2>2. Cardinality(S(i + 1)) = Cardinality(S(i)) + 1
    BY <2>1, <1>1, FS_AddElement
  <2> QED BY <1>1, <1>2, <1>3, <2>2 DEF Count, S, One
<1>4. CASE que[i + 1].conn # c
  <2>1. S(i + 1) = S(i)
    BY <1>4
  <2> HIDE DEF S
  <2>2. Cardinality(S(i + 1)) = Cardinality(S(i)) + 0
    BY <1>1, <2>1
  <2> QED BY <1>1, <1>2, <1>4, <2>2 DEF Count, S, One
<1> QED BY <1>3, <1>4

\* What counts is the part of the queue that is looked at.
LEMMA CountSame ==
    ASSUME NEW que, NEW r, NEW c, NEW i \in Nat, \A j \in 1..i : que[j] = r[j]
    PROVE  Count(que, c, i) = Count(r, c, i)
<1>1. {j \in 1..i : que[j].conn = c} = {j \in 1..i : r[j].conn = c}
  OBVIOUS
<1> QED BY <1>1, Zenon DEF Count

\* Without its first command the queue counts one less for its client.
LEMMA CountTail ==
    ASSUME NEW que \in Seq(Unit), que # <<>>, NEW c, NEW i \in 0..Len(que) - 1
    PROVE  Count(que, c, i + 1) = Count(Tail(que), c, i)
                                  + One(Head(que), c)
<1> DEFINE S == {n \in 0..Len(que) - 1 :
                   Count(que, c, n + 1) = Count(Tail(que), c, n) + One(Head(que), c)}
<1>1. Len(que) \in Nat /\ Len(que) - 1 \in Nat /\ que[1] = Head(que)
  OBVIOUS
<1>2. 0 \in S
  <2>1. Count(que, c, 0 + 1) = Count(que, c, 0) + One(que[0 + 1], c)
    BY CountStep
  <2>2. Count(que, c, 0) = 0 /\ Count(Tail(que), c, 0) = 0
    BY CountStep
  <2> QED BY <1>1, <2>1, <2>2 DEF One
<1>3. ASSUME NEW n \in 0..Len(que) - 1, n \in S, n < Len(que) - 1 PROVE n + 1 \in S
  <2>1. n \in Nat /\ n + 1 \in Nat /\ n + 1 \in 0..Len(que) - 1
    BY <1>1, <1>3
  <2>2. Count(que, c, (n + 1) + 1) =
          Count(que, c, n + 1) + One(que[(n + 1) + 1], c)
    BY <2>1, CountStep
  <2>3. Count(Tail(que), c, n + 1) =
          Count(Tail(que), c, n) + One(Tail(que)[n + 1], c)
    BY <2>1, CountStep, Zenon
  <2>4. Tail(que)[n + 1] = que[(n + 1) + 1]
    BY <1>1, <1>3
  <2>5. Count(que, c, n + 1) = Count(Tail(que), c, n) + One(Head(que), c)
    BY <1>3
  <2>6. /\ Count(que, c, n + 1) \in Nat /\ Count(Tail(que), c, n) \in Nat
        /\ One(Head(que), c) \in Nat /\ One(que[(n + 1) + 1], c) \in Nat
    BY <2>1, CountStep DEF One
  <2> QED BY <2>1, <2>2, <2>3, <2>4, <2>5, <2>6
<1>4. 0..Len(que) - 1 \subseteq S
  <2> HIDE DEF S
  <2> QED BY <1>1, <1>2, <1>3, InductUpTo, Zenon
<1> QED BY <1>4

(***************************************************************************)
(* Commands in order.                                                      *)
(***************************************************************************)
\* Nothing that concerns the commands of d has changed.
LEMMA OrderKept ==
    ASSUME NEW d, Ordered(d), Pushed(d),
           cmdQue' = cmdQue, executed' = executed, info'[d].parsed = info[d].parsed,
           \A t \in IoThreads : Pushes(t, d)' <=> Pushes(t, d),
           \A t \in IoThreads : Pushes(t, d)' =>
             io'[t].next = io[t].next /\ io'[t].last = io[t].last
    PROVE  Ordered(d)' /\ Pushed(d)'
<1>1. Due(d)' = Due(d)
  BY DEF Due, Count
<1>2. Ordered(d)'
  BY DEF Ordered, Count
<1>3. ASSUME NEW t \in IoThreads, Pushes(t, d)'
      PROVE  /\ io'[t].next = Due(d)' + 1
             /\ io'[t].last = info'[d].parsed
             /\ io'[t].next <= io'[t].last + 1
  <2>1. Pushes(t, d) /\ io'[t].next = io[t].next /\ io'[t].last = io[t].last
    BY <1>3
  <2> QED BY <1>1, <2>1 DEF Pushed
<1>4. (\A t \in IoThreads : ~ Pushes(t, d)') => info'[d].parsed = Due(d)'
  BY <1>1 DEF Pushed
<1> QED BY <1>2, <1>3, <1>4 DEF Pushed

\* A new client has no commands.
LEMMA OrderNew ==
    ASSUME Structure, Accept, NEW d \in Conns, info[d].fd = None
    PROVE  Ordered(d)' /\ Pushed(d)'
<1>1. \A i \in DOMAIN cmdQue : cmdQue[i].conn # d
  BY DEF Structure, Accepted
<1>2. \A t \in IoThreads : ~ Pushes(t, d)
  BY ReactorAssumption DEF Structure, Accepted, Pushes
<1>3. info[d].parsed = 0 /\ executed[d] = 0
  BY DEF Structure, Untouched
<1>4. cmdQue' = cmdQue /\ executed' = executed /\ io' = io /\ info'[d].parsed = info[d].parsed
  BY AcceptIs, AcceptFds DEF Structure, Accepts
<1>5. Count(cmdQue, d, Len(cmdQue)) = 0
  <2>1. DOMAIN cmdQue = 1..Len(cmdQue)
    BY DEF Structure, TypeOK
  <2>2. {j \in 1..Len(cmdQue) : cmdQue[j].conn = d} = {}
    BY <1>1, <2>1
  <2> QED BY <2>2, FS_EmptySet, Zenon DEF Count
<1>6. Ordered(d) /\ Pushed(d)
  BY <1>1, <1>2, <1>3, <1>5 DEF Ordered, Pushed, Due
<1>7. \A t \in IoThreads : Pushes(t, d)' <=> Pushes(t, d)
  BY <1>4 DEF Pushes
<1> QED BY <1>2, <1>4, <1>6, <1>7, OrderKept

\* Read and ExportMessages: the exported requests are the next ones.
LEMMA OrderRead ==
    ASSUME Structure, NEW t \in IoThreads, IoRead(t), NEW d \in Conns, Ordered(d), Pushed(d)
    PROVE  Ordered(d)' /\ Pushed(d)'
<1> DEFINE c == io[t].conn
           n == (info[c].recv + sock[Named(c)].rx) \div load.fragments
<1>1. /\ c \in Conns /\ info[c] \in ClientInfo /\ io[t] \in Worker
      /\ Named(c) \in Conns /\ sock[Named(c)] \in Socket /\ io[t].pc = "IN"
  BY Works DEF IoRead, Structure
<1>2. n \in Nat
  <2>1. info[c].recv \in Nat /\ sock[Named(c)].rx \in Nat /\ load.fragments \in Nat \ {0}
    BY <1>1, Zenon DEF Structure, TypeOK, ClientInfo, Socket, Load
  <2>2. info[c].recv + sock[Named(c)].rx \in Nat
    BY <2>1
  <2> QED BY <2>1, <2>2
<1>3. /\ cmdQue' = cmdQue /\ executed' = executed
      /\ info' = [info EXCEPT ![c] = [info[c] EXCEPT
                     !.recv = (info[c].recv + sock[Named(c)].rx) % load.fragments,
                     !.parsed = info[c].parsed + n]]
      /\ io' = [io EXCEPT ![t] = [io[t] EXCEPT !.pc = "push", !.next = info[c].parsed + 1,
                                               !.last = info[c].parsed + n]]
  BY Zenon DEF IoRead
<1> HIDE DEF n
<1>4. /\ io'[t].pc = "push" /\ io'[t].conn = c /\ io'[t].next = info[c].parsed + 1
      /\ io'[t].last = info[c].parsed + n
  BY <1>1, <1>3 DEF Structure, TypeOK, Worker
<1>5. \A u \in IoThreads : u # t => io'[u] = io[u]
  BY <1>3 DEF Structure, TypeOK
<1>6. CASE d # c
  <2>1. info'[d] = info[d]
    BY <1>3, <1>6 DEF Structure, TypeOK
  <2>2. \A u \in IoThreads : Pushes(u, d)' <=> Pushes(u, d)
    BY <1>1, <1>4, <1>5, <1>6 DEF Pushes
  <2>3. \A u \in IoThreads : Pushes(u, d)' =>
             io'[u].next = io[u].next /\ io'[u].last = io[u].last
    BY <1>4, <1>5, <1>6 DEF Pushes
  <2> QED BY <1>3, <2>1, <2>2, <2>3, OrderKept, Zenon
<1>7. CASE d = c
  <2>1. info'[d].parsed = info[d].parsed + n /\ info[d].parsed \in Nat
    BY <1>1, <1>3, <1>7 DEF Structure, TypeOK, ClientInfo
  <2>2. \A u \in IoThreads : u # t => io[u].pc = "idle"
    BY <1>1, OneWorks DEF Structure
  <2>3. \A u \in IoThreads : ~ Pushes(u, d)
    BY <1>1, <2>2 DEF Pushes
  <2>4. info[d].parsed = Due(d)
    BY <2>3 DEF Pushed
  <2>5. Due(d)' = Due(d) /\ Ordered(d)'
    BY <1>3 DEF Due, Count, Ordered
  <2>6. \A u \in IoThreads : Pushes(u, d)' => u = t
    BY <1>5, <2>2 DEF Pushes
  <2>7. Pushes(t, d)'
    BY <1>4, <1>7 DEF Pushes
  <2>8. /\ io'[t].next = Due(d)' + 1 /\ io'[t].last = info'[d].parsed
        /\ io'[t].next <= io'[t].last + 1
    BY <1>2, <1>4, <1>7, <2>1, <2>4, <2>5
  <2> QED BY <2>5, <2>6, <2>7, <2>8 DEF Pushed
<1> QED BY <1>6, <1>7

\* A request that is pushed follows those pushed before.
LEMMA OrderPush ==
    ASSUME Structure, NEW t \in IoThreads, IoPush(t), NEW d \in Conns, Ordered(d), Pushed(d)
    PROVE  Ordered(d)' /\ Pushed(d)'
<1> DEFINE c == io[t].conn
           e == [conn |-> c, req |-> io[t].next]
           n == Len(cmdQue)
<1>1. /\ c \in Conns /\ io[t] \in Worker /\ io[t].pc = "push" /\ io[t].next <= io[t].last
      /\ cmdQue \in Seq(Unit) /\ executed[d] \in Nat
  BY Works, Zenon DEF IoPush, Structure, TypeOK
<1>2. /\ cmdQue' = Append(cmdQue, e) /\ executed' = executed /\ info' = info
      /\ io' = [io EXCEPT ![t] = [io[t] EXCEPT !.next = io[t].next + 1]]
  BY DEF IoPush
<1>3. io[t].next \in Nat /\ io[t].last \in Nat /\ n \in Nat
  BY <1>1 DEF Worker
<1>4. e \in Unit /\ e.conn = c /\ e.req = io[t].next
  BY <1>1, <1>3 DEF Unit
<1>5. /\ io'[t].pc = "push" /\ io'[t].conn = c /\ io'[t].next = io[t].next + 1
      /\ io'[t].last = io[t].last /\ \A u \in IoThreads : u # t => io'[u] = io[u]
  BY <1>1, <1>2 DEF Structure, TypeOK, Worker
<1> HIDE DEF e
<1>6. Len(cmdQue') = n + 1 /\ cmdQue'[n + 1] = e /\ \A j \in 1..n : cmdQue'[j] = cmdQue[j]
  BY <1>1, <1>2, <1>4
<1>7. \A i \in 0..n : Count(cmdQue', d, i) = Count(cmdQue, d, i)
  BY <1>3, <1>6, CountSame
<1>8. Count(cmdQue', d, n + 1) = Count(cmdQue, d, n) + One(e, d) /\ Count(cmdQue, d, n) \in Nat
  <2>1. Count(cmdQue', d, n + 1) = Count(cmdQue', d, n) + One(cmdQue'[n + 1], d)
    BY <1>3, CountStep
  <2>2. Count(cmdQue, d, n) \in Nat
    BY <1>3, CountStep
  <2> QED BY <1>3, <1>6, <1>7, <2>1, <2>2
<1> HIDE DEF n
<1>9. Due(d) = executed[d] + Count(cmdQue, d, n) /\ Due(d)' = Due(d) + One(e, d) /\ Due(d) \in Nat
  <2>1. Due(d) = executed[d] + Count(cmdQue, d, n)
    BY DEF Due, n
  <2>2. Due(d)' = executed[d] + Count(cmdQue', d, n + 1)
    BY <1>2, <1>6 DEF Due
  <2>3. One(e, d) \in Nat
    BY DEF One
  <2> QED BY <1>1, <1>8, <2>1, <2>2, <2>3
<1>10. CASE d # c
  <2>1. One(e, d) = 0
    BY <1>4, <1>10 DEF One
  <2>2. Ordered(d)'
    <3> SUFFICES ASSUME NEW i \in DOMAIN cmdQue', cmdQue'[i].conn = d
                 PROVE  cmdQue'[i].req = executed'[d] + Count(cmdQue', d, i)
      BY DEF Ordered
    <3>1. i \in DOMAIN cmdQue /\ cmdQue'[i] = cmdQue[i]
      BY <1>1, <1>2, <1>4, <1>10, AppendIndex
    <3>2. i \in 0..n
      BY <1>1, <3>1 DEF n
    <3> QED BY <1>2, <1>7, <3>1, <3>2 DEF Ordered
  <2>3. Due(d)' = Due(d)
    BY <1>9, <2>1
  <2>4. \A u \in IoThreads : Pushes(u, d)' <=> Pushes(u, d)
    BY <1>5, <1>10 DEF Pushes
  <2>5. \A u \in IoThreads : Pushes(u, d)' => io'[u] = io[u]
    BY <1>5, <1>10 DEF Pushes
  <2> QED BY <1>2, <2>2, <2>3, <2>4, <2>5, Zenon DEF Pushed
<1>11. CASE d = c
  <2>1. One(e, d) = 1
    BY <1>4, <1>11 DEF One
  <2>2. Pushes(t, d)
    BY <1>1, <1>11 DEF Pushes
  <2>3. io[t].next = Due(d) + 1 /\ io[t].last = info[d].parsed
    BY <2>2 DEF Pushed
  <2>4. Ordered(d)'
    <3> SUFFICES ASSUME NEW i \in DOMAIN cmdQue', cmdQue'[i].conn = d
                 PROVE  cmdQue'[i].req = executed'[d] + Count(cmdQue', d, i)
      BY DEF Ordered
    <3>1. CASE i \in DOMAIN cmdQue /\ cmdQue'[i] = cmdQue[i]
      <4>1. i \in 0..n
        BY <1>1, <3>1 DEF n
      <4> QED BY <1>2, <1>7, <3>1, <4>1 DEF Ordered
    <3>2. CASE i = n + 1 /\ cmdQue'[i] = e
      <4>1. cmdQue'[i].req = executed[d] + Count(cmdQue, d, n) + 1
        BY <1>4, <1>9, <2>3, <3>2
      <4>2. Count(cmdQue', d, i) = Count(cmdQue, d, n) + 1
        BY <1>8, <2>1, <3>2
      <4>3. executed[d] \in Nat /\ Count(cmdQue, d, n) \in Nat /\ executed'[d] = executed[d]
        BY <1>1, <1>2, <1>8
      <4>4. executed[d] + Count(cmdQue, d, n) + 1 = executed[d] + (Count(cmdQue, d, n) + 1)
        BY <4>3
      <4> QED BY <4>1, <4>2, <4>3, <4>4
    <3> QED BY <1>1, <1>2, <1>4, <3>1, <3>2, AppendIndex DEF n
  <2>5. \A u \in IoThreads : Pushes(u, d)' => u = t
    <3>1. \A u \in IoThreads : u # t => io[u].pc = "idle"
      BY <1>1, OneWorks DEF Structure
    <3> QED BY <1>5, <3>1 DEF Pushes
  <2>6. Pushes(t, d)'
    BY <1>5, <1>11 DEF Pushes
  <2>7. /\ io'[t].next = Due(d)' + 1 /\ io'[t].last = info'[d].parsed
        /\ io'[t].next <= io'[t].last + 1
    BY <1>1, <1>2, <1>3, <1>5, <1>9, <2>1, <2>3
  <2> QED BY <2>4, <2>5, <2>6, <2>7 DEF Pushed
<1> QED BY <1>10, <1>11

\* An io thread that is done has pushed all it has exported.
LEMMA OrderPushed ==
    ASSUME Structure, NEW t \in IoThreads, IoPushed(t), NEW d \in Conns, Ordered(d), Pushed(d)
    PROVE  Ordered(d)' /\ Pushed(d)'
<1>1. /\ cmdQue' = cmdQue /\ executed' = executed /\ info' = info
      /\ io[t].pc = "push" /\ io[t].next > io[t].last
      /\ io' = [io EXCEPT ![t] = [IoIdle EXCEPT !.pc = "loop"]]
  BY DEF IoPushed, IoDone
<1>2. io'[t].pc = "loop" /\ \A u \in IoThreads : u # t => io'[u] = io[u]
  BY <1>1 DEF Structure, TypeOK, IoIdle
<1>3. \A u \in IoThreads : u # t => io[u].pc = "idle"
  BY <1>1, OneWorks DEF Structure
<1>4. \A u \in IoThreads : ~ Pushes(u, d)'
  BY <1>2, <1>3 DEF Pushes
<1>5. Due(d)' = Due(d) /\ Ordered(d)'
  BY <1>1 DEF Due, Count, Ordered
<1>6. CASE Pushes(t, d)
  <2>1. /\ io[t].next = Due(d) + 1 /\ io[t].last = info[d].parsed
        /\ io[t].next <= io[t].last + 1
    BY <1>6 DEF Pushed
  <2>2. Due(d) \in Nat /\ io[t].last \in Nat
    <3>1. Count(cmdQue, d, Len(cmdQue)) \in Nat /\ executed[d] \in Nat
      BY CountStep DEF Structure, TypeOK
    <3> QED BY <3>1 DEF Structure, TypeOK, Worker, Due
  <2>3. info[d].parsed = Due(d)
    BY <1>1, <2>1, <2>2
  <2> QED BY <1>1, <1>4, <1>5, <2>3 DEF Pushed
<1>7. CASE ~ Pushes(t, d)
  <2>1. \A u \in IoThreads : ~ Pushes(u, d)
    BY <1>3, <1>7 DEF Pushes
  <2> QED BY <1>1, <1>4, <1>5, <2>1 DEF Pushed
<1> QED BY <1>6, <1>7

\* A command that is taken is the next of its client.
LEMMA OrderPop ==
    ASSUME Structure, ExecPop, NEW d \in Conns, Alive(d), Ordered(d), Pushed(d)
    PROVE  Ordered(d)' /\ Pushed(d)'
<1> DEFINE r == Head(cmdQue)
<1>1. cmdQue \in Seq(Unit) /\ cmdQue # <<>> /\ cmdQue' = Tail(cmdQue) /\ io' = io /\ info' = info
  BY DEF ExecPop, Structure, TypeOK
<1>2. executed[d] \in Nat /\ r \in Unit /\ r.conn \in Conns
  <2>1. r \in Unit
    BY <1>1
  <2> QED BY <2>1 DEF Structure, TypeOK, Unit
<1>3. executed'[d] = executed[d] + One(r, d) /\ One(r, d) \in Nat
  BY <1>2 DEF ExecPop, Structure, TypeOK, One
<1> HIDE DEF r
<1>4. \A i \in 0..Len(cmdQue') : Count(cmdQue, d, i + 1) = Count(cmdQue', d, i) + One(r, d)
  BY <1>1, CountTail DEF r
<1>5. \A i \in 0..Len(cmdQue') : Count(cmdQue', d, i) \in Nat
  <2>1. \A i \in 0..Len(cmdQue') : i \in Nat
    OBVIOUS
  <2> QED BY <2>1, CountStep
<1>6. Len(cmdQue') + 1 = Len(cmdQue) /\ Len(cmdQue') \in Nat /\ Len(cmdQue') \in 0..Len(cmdQue')
  BY <1>1
<1>7. Due(d)' = Due(d)
  <2>1. Due(d)' = executed'[d] + Count(cmdQue', d, Len(cmdQue'))
    BY DEF Due
  <2>2. Due(d) = executed[d] + Count(cmdQue, d, Len(cmdQue') + 1)
    BY <1>6 DEF Due
  <2> QED BY <1>2, <1>3, <1>4, <1>5, <1>6, <2>1, <2>2
<1>8. Ordered(d)'
  <2> SUFFICES ASSUME NEW i \in DOMAIN cmdQue', cmdQue'[i].conn = d
               PROVE  cmdQue'[i].req = executed'[d] + Count(cmdQue', d, i)
    BY DEF Ordered
  <2>1. i + 1 \in DOMAIN cmdQue /\ cmdQue'[i] = cmdQue[i + 1] /\ i \in 0..Len(cmdQue')
    BY <1>1
  <2>2. cmdQue'[i].req = executed[d] + Count(cmdQue, d, i + 1)
    BY <2>1 DEF Ordered
  <2>3. /\ Count(cmdQue, d, i + 1) = Count(cmdQue', d, i) + One(r, d)
        /\ Count(cmdQue', d, i) \in Nat
    BY <1>4, <1>5, <2>1
  <2>4. \A a, b, o \in Nat : a + (b + o) = (a + o) + b
    OBVIOUS
  <2> QED BY <1>2, <1>3, <2>2, <2>3, <2>4
<1> QED BY <1>1, <1>7, <1>8 DEF Pushed, Pushes

\* The other steps do not concern commands.
LEMMA OrderOther ==
    ASSUME Structure, Next, ~ ExecPop, NEW d \in Conns, Ordered(d), Pushed(d),
           \A t \in IoThreads : ~ (IoRead(t) \/ IoPush(t) \/ IoPushed(t))
    PROVE  Ordered(d)' /\ Pushed(d)'
<1>1. cmdQue' = cmdQue /\ executed' = executed
  BY Steps, Zenon DEF ClientStep, Connect, SendSegment, Receive, Close, EpollWait, Accept, LookupClient,
     WaitReturns, Handle, RunReturns, IoStep, IoTake, IoWait, IoReadNothing, IoReadBad,
     IoLogout, IoSendNothing, IoSend, IoSendClosed, IoSendReset, IoSendBad, IoSent,
     IoEnableRead, ExecAppend, ExecEnableSend
<1>2. info'[d].parsed = info[d].parsed
  <2>1. CASE info' = info
    BY <2>1
  <2>2. CASE Accept
    BY <2>2, AcceptIs, AcceptFds DEF Structure
  <2>3. ASSUME NEW t \in IoThreads, IoSend(t) \/ IoSendClosed(t)
        PROVE  info'[d].parsed = info[d].parsed
    <3>1. info[io[t].conn] \in ClientInfo /\ io[t].conn \in Conns
      BY <2>3, Works, Zenon DEF IoSend, IoSendClosed, Structure
    <3>2. PICK m : info' = [info EXCEPT ![io[t].conn] = [info[io[t].conn] EXCEPT !.send = m]]
      BY <2>3, Zenon DEF IoSend, IoSendClosed
    <3> QED BY <3>1, <3>2 DEF Structure, TypeOK, ClientInfo
  <2>4. CASE ExecAppend
    BY <2>4, Held DEF ExecAppend, Structure, Locals, TypeOK, ClientInfo
  <2> QED BY <2>1, <2>2, <2>3, <2>4, Steps, Zenon DEF ClientStep, Connect, SendSegment, Receive,
     Close, EpollWait, LookupClient, WaitReturns, Handle, RunReturns, IoStep, IoTake, IoWait,
     IoReadNothing, IoReadBad, IoLogout, IoSendNothing, IoSendReset, IoSendBad, IoSent,
     IoEnableRead, ExecEnableSend
<1>3. CASE io' = io
  BY <1>1, <1>2, <1>3, OrderKept DEF Pushes
<1>4. ASSUME NEW t \in IoThreads, IoStep(t) PROVE Ordered(d)' /\ Pushed(d)'
  <2>1. io[t].pc # "push" /\ io'[t].pc # "push" /\ \A u \in IoThreads : u # t => io'[u] = io[u]
    <3>1. CASE IoTake(t)
      <4>1. cliQue \in Seq(Returned) /\ cliQue # <<>>
        BY <3>1 DEF IoTake, Structure, TypeOK
      <4>2. Head(cliQue) \in Returned
        BY <4>1
      <4>3. Head(cliQue).evt # "push"
        BY <4>2 DEF Returned, Interest
      <4>4. CASE io' = [io EXCEPT ![t] = [IoIdle EXCEPT !.pc = Head(cliQue).evt, !.conn = Head(cliQue).conn]]
        BY <3>1, <4>3, <4>4, Zenon DEF IoTake, IoIdle, Structure, TypeOK
      <4>5. CASE io' = IoDone(t)
        BY <3>1, <4>5, Zenon DEF IoTake, IoDone, IoIdle, Structure, TypeOK
      <4> QED BY <3>1, <4>4, <4>5 DEF IoTake
    <3>2. CASE IoWait(t)
      BY <3>2 DEF IoWait, IoIdle, Structure, TypeOK
    <3>3. CASE IoReadNothing(t) \/ IoReadBad(t) \/ IoLogout(t) \/ IoEnableRead(t)
      BY <3>3 DEF IoReadNothing, IoReadBad, IoLogout, IoEnableRead, IoDone, IoIdle, Structure, TypeOK
    <3>4. CASE IoSendNothing(t) \/ IoSend(t) \/ IoSendClosed(t) \/ IoSendReset(t) \/ IoSendBad(t)
      BY <3>4, Zenon DEF IoSendNothing, IoSend, IoSendClosed, IoSendReset, IoSendBad, IoTo,
         Structure, TypeOK, Worker
    <3>5. CASE IoSent(t)
      BY <3>5 DEF IoSent, IoTo, IoDone, IoIdle, Structure, TypeOK, Worker
    <3> QED BY <1>4, <3>1, <3>2, <3>3, <3>4, <3>5 DEF IoStep
  <2>2. \A u \in IoThreads : Pushes(u, d)' <=> Pushes(u, d)
    BY <2>1 DEF Pushes
  <2>3. \A u \in IoThreads : Pushes(u, d)' => io'[u] = io[u]
    BY <2>1 DEF Pushes
  <2> QED BY <1>1, <1>2, <2>2, <2>3, OrderKept
<1> QED BY <1>3, <1>4, Steps, Zenon DEF ClientStep, Connect, SendSegment, Receive, Close, EpollWait,
     Accept, LookupClient, WaitReturns, Handle, RunReturns, ExecAppend, ExecEnableSend

\* Every step keeps the order of commands.
LEMMA InOrderStep ==
    ASSUME Structure, InOrder, Next
    PROVE  InOrder'
<1> SUFFICES ASSUME NEW d \in Conns, Alive(d)' PROVE Ordered(d)' /\ Pushed(d)'
  BY DEF InOrder
<1>1. CASE Accept /\ info[d].fd = None
  BY <1>1, OrderNew
<1>2. CASE ~ (Accept /\ info[d].fd = None)
  <2>1. Alive(d)
    BY <1>2, NoRevival, AcceptMakesOne DEF Structure
  <2>2. Ordered(d) /\ Pushed(d)
    BY <2>1 DEF InOrder
  <2>3. CASE ExecPop
    BY <2>1, <2>2, <2>3, OrderPop
  <2>4. CASE \E t \in IoThreads : IoRead(t) \/ IoPush(t) \/ IoPushed(t)
    BY <2>2, <2>4, OrderRead, OrderPush, OrderPushed
  <2> QED BY <2>2, <2>3, <2>4, OrderOther
<1> QED BY <1>1, <1>2

(***************************************************************************)
(* Replies in order.                                                       *)
(***************************************************************************)
Wire(c) == sock[c].tx \o info[c].send
Unreplied(c) == IF exec.conn = c /\ exec.pc = "append" THEN 1 ELSE 0

\* What RepliesInOrder says of one client.
Replied(c) ==
    /\ \A i \in DOMAIN Wire(c) : Wire(c)[i] =
         [conn |-> c, req |-> (client[c].got + i - 1) \div ReplyLen + 1]
    /\ client[c].got + Len(Wire(c)) = ReplyLen * (executed[c] - Unreplied(c))

InReply == \A c \in Conns : ~ client[c].closed => Replied(c)

\* The reply the command thread is about to append is to the request it
\* executed last of that client.
Replying == exec.pc = "append" => exec.req = executed[exec.conn]

\* Every step keeps Replying: the command taken was the next.
LEMMA ReplyingStep ==
    ASSUME Structure, InOrder, Replying, Next
    PROVE  Replying'
<1>1. CASE exec' = exec /\ executed' = executed
  BY <1>1 DEF Replying
<1>2. CASE ExecPop
  <2>1. /\ cmdQue \in Seq(Unit) /\ cmdQue # <<>> /\ Head(cmdQue) = cmdQue[1]
        /\ 1 \in DOMAIN cmdQue /\ cmdQue[1] \in Unit
    BY <1>2 DEF ExecPop, Structure, TypeOK
  <2> DEFINE c == cmdQue[1].conn
  <2>2. c \in Conns /\ executed[c] \in Nat
    BY <2>1 DEF Unit, Structure, TypeOK
  <2>3. CASE Alive(c)
    <3>1. cmdQue[1].req = executed[c] + Count(cmdQue, c, 1)
      BY <2>1, <2>2, <2>3 DEF InOrder, Ordered
    <3>2. Count(cmdQue, c, 0 + 1) = Count(cmdQue, c, 0) + One(cmdQue[0 + 1], c)
      BY CountStep
    <3>3. Count(cmdQue, c, 0) = 0 /\ One(cmdQue[1], c) = 1
      BY CountStep DEF One
    <3>4. cmdQue[1].req = executed[c] + 1
      BY <3>1, <3>2, <3>3
    <3>5. /\ exec' = [pc |-> "append", conn |-> c, req |-> cmdQue[1].req]
          /\ executed' = [executed EXCEPT ![c] = @ + 1]
      BY <1>2, <2>1, <2>3 DEF ExecPop
    <3> QED BY <2>2, <3>4, <3>5 DEF Replying, Structure, TypeOK
  <2>4. CASE ~ Alive(c)
    BY <1>1, <1>2, <2>1, <2>4 DEF ExecPop
  <2> QED BY <2>3, <2>4
<1>3. CASE ExecAppend \/ ExecEnableSend
  BY <1>3 DEF ExecAppend, ExecEnableSend, ExecIdle, Replying, Structure, TypeOK, Executor
<1> QED BY <1>1, <1>2, <1>3, Steps, Zenon DEF ClientStep, Connect, SendSegment, Receive, Close,
     EpollWait, Accept, LookupClient, WaitReturns, Handle, RunReturns, IoStep, IoTake, IoWait,
     IoRead, IoReadNothing, IoReadBad, IoLogout, IoPush, IoPushed, IoSendNothing, IoSend,
     IoSendClosed, IoSendReset, IoSendBad, IoSent, IoEnableRead

\* Nothing that concerns the replies to d has changed.
LEMMA ReplyKept ==
    ASSUME NEW d, Replied(d), Wire(d)' = Wire(d), client'[d].got = client[d].got,
           executed'[d] = executed[d], Unreplied(d)' = Unreplied(d)
    PROVE  Replied(d)'
BY DEF Replied

\* What the client takes is the first unit on its way.
LEMMA ReplyReceive ==
    ASSUME Structure, NEW d \in Conns, Receive(d), Replied(d)
    PROVE  Replied(d)'
<1>1. /\ sock[d].tx \in Seq(Unit) /\ sock[d].tx # <<>> /\ info[d].send \in Seq(Unit)
      /\ client[d].got \in Nat /\ executed[d] \in Nat
  BY DEF Receive, Structure, TypeOK, Socket, ClientInfo, Program
<1>2. /\ sock'[d].tx = Tail(sock[d].tx) /\ client'[d].got = client[d].got + 1
      /\ info' = info /\ exec' = exec /\ executed' = executed
  BY DEF Receive, Structure, TypeOK, Socket, Program
<1>3. /\ Wire(d) \in Seq(Unit) /\ Wire(d) # <<>> /\ Wire(d)' = Tail(Wire(d))
  <2> DEFINE tx == sock[d].tx
             send == info[d].send
  <2>1. tx \in Seq(Unit) /\ send \in Seq(Unit) /\ tx # <<>> /\ Wire(d) = tx \o send
        /\ Wire(d)' = Tail(tx) \o send
    BY <1>1, <1>2 DEF Wire
  <2> HIDE DEF tx, send
  <2>2. tx \o send \in Seq(Unit)
    BY <2>1
  <2> QED BY <2>1, <2>2, TailConcat
<1>4. Len(Wire(d)') = Len(Wire(d)) - 1 /\ Len(Wire(d)) \in Nat \ {0}
  BY <1>3
<1>5. Unreplied(d)' = Unreplied(d)
  BY <1>2 DEF Unreplied
<1>6. client'[d].got + Len(Wire(d)') = client[d].got + Len(Wire(d))
  <2>1. \A a, b \in Nat : (a + 1) + (b - 1) = a + b
    OBVIOUS
  <2> QED BY <1>1, <1>2, <1>4, <2>1, Zenon
<1>7. ASSUME NEW i \in DOMAIN Wire(d)'
      PROVE  Wire(d)'[i] = [conn |-> d, req |-> (client'[d].got + i - 1) \div ReplyLen + 1]
  <2>1. i + 1 \in DOMAIN Wire(d) /\ Wire(d)'[i] = Wire(d)[i + 1] /\ i \in Nat
    BY <1>3, <1>7, TailIndex
  <2>2. client[d].got + (i + 1) - 1 = client'[d].got + i - 1
    <3>1. \A a, b \in Nat : a + (b + 1) - 1 = (a + 1) + b - 1
      OBVIOUS
    <3> QED BY <1>1, <1>2, <2>1, <3>1, Zenon
  <2> QED BY <2>1, <2>2 DEF Replied
<1> QED BY <1>2, <1>5, <1>6, <1>7 DEF Replied

\* What Send moves to the socket leaves the units on their way as they were.
LEMMA ReplySend ==
    ASSUME Structure, NEW t \in IoThreads, IoSend(t), NEW d \in Conns, Replied(d),
           Named(io[t].conn) = io[t].conn
    PROVE  Replied(d)'
<1> DEFINE c == io[t].conn
           q == info[c].send
           room == TxCap - Len(sock[c].tx)
           n == IF Len(q) < room THEN Len(q) ELSE room
<1>1. c \in Conns /\ info[c] \in ClientInfo /\ sock[c] \in Socket
  BY Works, Zenon DEF IoSend, Structure, TypeOK
<1>2. /\ info' = [info EXCEPT ![c] = [info[c] EXCEPT !.send = SubSeq(q, n + 1, Len(q))]]
      /\ sock' = [sock EXCEPT ![c] = [sock[c] EXCEPT !.tx = sock[c].tx \o SubSeq(q, 1, n),
                                                     !.full = n < Len(q)]]
      /\ client' = client /\ exec' = exec /\ executed' = executed
  BY Zenon DEF IoSend
<1>3. q \in Seq(Unit) /\ sock[c].tx \in Seq(Unit) /\ Len(sock[c].tx) <= TxCap
  BY <1>1 DEF ClientInfo, Socket, Structure, Room
<1>4. n \in 0..Len(q)
  <2>1. Len(q) \in Nat /\ Len(sock[c].tx) \in Nat /\ TxCap \in Nat
    BY <1>3, ReactorAssumption
  <2>2. room \in Nat
    BY <1>3, <2>1
  <2> HIDE DEF room, q
  <2> QED BY <2>1, <2>2
<1> HIDE DEF n, q
<1>5. Unreplied(d)' = Unreplied(d)
  BY <1>2 DEF Unreplied
<1>6. CASE d # c
  <2>1. Wire(d)' = Wire(d)
    BY <1>2, <1>6, Zenon DEF Wire, Structure, TypeOK
  <2> QED BY <1>2, <1>5, <2>1, ReplyKept
<1>7. CASE d = c
  <2>1. info'[c].send = SubSeq(q, n + 1, Len(q))
    BY <1>1, <1>2, Zenon DEF Structure, TypeOK, ClientInfo
  <2>2. sock'[c].tx = sock[c].tx \o SubSeq(q, 1, n)
    BY <1>1, <1>2, Zenon DEF Structure, TypeOK, Socket
  <2>3. (sock[c].tx \o SubSeq(q, 1, n)) \o SubSeq(q, n + 1, Len(q)) = sock[c].tx \o q
    BY <1>3, <1>4, MoveConcat, Zenon
  <2>4. Wire(d)' = Wire(d)
    BY <1>7, <2>1, <2>2, <2>3, Zenon DEF Wire, q
  <2> QED BY <1>2, <1>5, <2>4, ReplyKept
<1> QED BY <1>6, <1>7

\* The units of the k-th reply.
LEMMA ReplyUnits ==
    ASSUME NEW k \in Nat, NEW j \in 1..ReplyLen
    PROVE  (ReplyLen * k + j - 1) \div ReplyLen = k
<1>1. ReplyLen \in Nat \ {0} /\ j - 1 \in 0..ReplyLen - 1
  BY ReactorAssumption
<1>2. \A r \in Nat \ {0} : \A m \in 0..r - 1 : (r * k + m) \div r = k
  OBVIOUS
<1>3. ReplyLen * k \in Nat
  BY <1>1
<1>4. ReplyLen * k + j - 1 = ReplyLen * k + (j - 1)
  BY <1>3
<1> QED BY <1>1, <1>2, <1>4

\* The reply to the request executed last follows those on their way.
LEMMA ReplyAppend ==
    ASSUME Structure, Replying, ExecAppend, NEW d \in Conns, Replied(d)
    PROVE  Replied(d)'
<1> DEFINE c == exec.conn
           reply == [i \in 1..ReplyLen |-> [conn |-> c, req |-> exec.req]]
<1>1. /\ c \in Conns /\ info[c] \in ClientInfo /\ exec.pc = "append" /\ exec.req \in Nat
      /\ exec.req = executed[c]
  BY Held DEF ExecAppend, Structure, Locals, TypeOK, Replying
<1>2. /\ info' = [info EXCEPT ![c] = [info[c] EXCEPT !.send = info[c].send \o reply]]
      /\ exec' = [exec EXCEPT !.pc = "enable"]
      /\ client' = client /\ sock' = sock /\ executed' = executed
  BY DEF ExecAppend
<1>3. Unreplied(d)' = 0
  BY <1>2 DEF Unreplied, Structure, TypeOK, Executor
<1>4. CASE d # c
  <2>1. Unreplied(d) = 0
    BY <1>4 DEF Unreplied
  <2>2. Wire(d)' = Wire(d)
    BY <1>2, <1>4, Zenon DEF Wire, Structure, TypeOK
  <2> QED BY <1>2, <1>3, <2>1, <2>2, ReplyKept
<1>5. CASE d = c
  <2>1. Unreplied(d) = 1
    BY <1>1, <1>5 DEF Unreplied
  <2>2. reply \in Seq(Unit) /\ Len(reply) = ReplyLen /\ ReplyLen \in Nat \ {0}
    <3>1. ReplyLen \in Nat \ {0}
      BY ReactorAssumption
    <3>2. [conn |-> c, req |-> exec.req] \in Unit
      BY <1>1 DEF Unit
    <3> QED BY <3>1, <3>2
  <2>3. \A j \in 1..ReplyLen : reply[j] = [conn |-> d, req |-> executed[d]]
    BY <1>1, <1>5
  <2> HIDE DEF reply
  <2>4. info'[d].send = info[d].send \o reply
    BY <1>1, <1>2, <1>5 DEF Structure, TypeOK, ClientInfo
  <2>5. /\ sock[d].tx \in Seq(Unit) /\ info[d].send \in Seq(Unit)
        /\ client[d].got \in Nat /\ executed[d] \in Nat
    BY DEF Structure, TypeOK, Socket, ClientInfo, Program
  <2>6. Wire(d) \in Seq(Unit) /\ Wire(d)' = Wire(d) \o reply
    <3> DEFINE tx == sock[d].tx
               send == info[d].send
    <3>1. tx \in Seq(Unit) /\ send \in Seq(Unit)
      BY <2>5
    <3>2. Wire(d) = tx \o send /\ Wire(d)' = tx \o (send \o reply)
      BY <1>2, <2>4, Zenon DEF Wire
    <3> HIDE DEF tx, send
    <3>3. reply \in Seq(Unit)
      BY <2>2
    <3>4. tx \o send \in Seq(Unit) /\ (tx \o send) \o reply = tx \o (send \o reply)
      BY <3>1, <3>3, Associative
    <3> QED BY <3>2, <3>4
  <2> DEFINE w == Wire(d)
             got == client[d].got
             e == executed[d]
  <2>7. /\ Len(w \o reply) = Len(w) + ReplyLen /\ Len(w) \in Nat
        /\ \A i \in 1..Len(w) + ReplyLen : (w \o reply)[i] =
             IF i <= Len(w) THEN w[i] ELSE reply[i - Len(w)]
    <3>1. ASSUME NEW x \in Seq(Unit)
          PROVE  /\ Len(x \o reply) = Len(x) + Len(reply)
                 /\ \A i \in 1..Len(x) + Len(reply) : (x \o reply)[i] =
                      IF i <= Len(x) THEN x[i] ELSE reply[i - Len(x)]
      <4>1. reply \in Seq(Unit)
        BY <2>2
      <4> QED BY <4>1
    <3>2. ASSUME NEW x \in Seq(Unit) PROVE Len(x) \in Nat
      OBVIOUS
    <3> QED BY <2>2, <2>6, <3>1, <3>2
  <2>8. got + Len(w) = ReplyLen * (e - 1)
    BY <2>1 DEF Replied
  <2>9. \A i \in 1..Len(w) : w[i] = [conn |-> d, req |-> (got + i - 1) \div ReplyLen + 1]
    BY <2>6 DEF Replied
  <2>10. got \in Nat /\ e \in Nat
    BY <2>5
  <2>11. DOMAIN (w \o reply) = 1..Len(w) + ReplyLen
    <3>1. w \o reply \in Seq(Unit)
      BY <2>2, <2>6
    <3> QED BY <2>7, <3>1
  <2>12. /\ Wire(d)' = w \o reply /\ client'[d].got = got /\ executed'[d] = e
    BY <1>2, <2>6
  <2> HIDE DEF w, got, e
  <2>13. e - 1 \in Nat
    <3>1. CASE e = 0
      <4>1. ReplyLen * (e - 1) = 0 - ReplyLen
        BY <2>2, <3>1
      <4> QED BY <2>2, <2>7, <2>8, <2>10, <4>1
    <3> QED BY <2>10, <3>1
  <2>14. ASSUME NEW i \in 1..Len(w) + ReplyLen
         PROVE  (w \o reply)[i] = [conn |-> d, req |-> (got + i - 1) \div ReplyLen + 1]
    <3>1. CASE i <= Len(w)
      BY <2>7, <2>9, <3>1
    <3>2. CASE i > Len(w)
      <4> DEFINE j == i - Len(w)
      <4>1. j \in 1..ReplyLen /\ i = Len(w) + j
        BY <2>2, <2>7, <3>2
      <4>2. (w \o reply)[i] = reply[j]
        BY <2>7, <3>2
      <4> HIDE DEF j
      <4>3. got + i - 1 = ReplyLen * (e - 1) + j - 1
        BY <2>7, <2>8, <2>10, <4>1
      <4>4. (got + i - 1) \div ReplyLen = e - 1
        BY <2>13, <4>1, <4>3, ReplyUnits
      <4>5. reply[j] = [conn |-> d, req |-> e]
        BY <2>3, <4>1 DEF e
      <4> QED BY <2>10, <4>2, <4>4, <4>5
    <3> QED BY <2>7, <3>1, <3>2
  <2>15. got + Len(w \o reply) = ReplyLen * (e - 0)
    <3>1. ReplyLen * (e - 0) = ReplyLen * (e - 1) + ReplyLen
      BY <2>2, <2>10
    <3> QED BY <2>2, <2>7, <2>8, <2>10, <3>1
  <2> QED BY <1>3, <2>11, <2>12, <2>14, <2>15, Zenon DEF Replied
<1> QED BY <1>4, <1>5

\* A request that has been executed is due a reply.
LEMMA ReplyPop ==
    ASSUME Structure, ExecPop, NEW d \in Conns, Replied(d)
    PROVE  Replied(d)'
<1> DEFINE c == Head(cmdQue).conn
<1>1. c \in Conns /\ executed \in [Conns -> Nat]
  <2>1. cmdQue \in Seq(Unit) /\ cmdQue # <<>>
    BY DEF ExecPop, Structure, TypeOK
  <2>2. Head(cmdQue) \in Unit
    BY <2>1
  <2> QED BY <2>2 DEF Unit, Structure, TypeOK
<1>2. Unreplied(d) = 0 /\ client' = client /\ Wire(d)' = Wire(d)
  BY DEF ExecPop, Unreplied, Wire
<1>3. CASE Alive(c)
  <2>1. exec'.pc = "append" /\ exec'.conn = c /\ executed' = [executed EXCEPT ![c] = @ + 1]
    BY <1>3 DEF ExecPop
  <2>2. executed'[d] - Unreplied(d)' = executed[d] - Unreplied(d)
    BY <1>1, <1>2, <2>1 DEF Unreplied
  <2> QED BY <1>2, <2>2 DEF Replied
<1>4. CASE ~ Alive(c)
  <2>1. exec' = exec /\ executed' = executed
    BY <1>4 DEF ExecPop
  <2> QED BY <1>2, <2>1, ReplyKept DEF Unreplied
<1> QED BY <1>3, <1>4

\* The other steps do not concern the replies to d.
LEMMA ReplyOther ==
    ASSUME Structure, NotHandedOn, Next, NEW d \in Conns, ~ client'[d].closed, Replied(d),
           ~ Receive(d), ~ ExecPop, ~ ExecAppend, \A t \in IoThreads : ~ IoSend(t)
    PROVE  Replied(d)'
<1>1. executed' = executed
  BY Steps, Zenon DEF ClientStep, Connect, SendSegment, Receive, Close, EpollWait, Accept, LookupClient,
     WaitReturns, Handle, RunReturns, IoStep, IoTake, IoWait, IoRead, IoReadNothing, IoReadBad,
     IoLogout, IoPush, IoPushed, IoSendNothing, IoSendClosed, IoSendReset, IoSendBad, IoSent,
     IoEnableRead, ExecEnableSend
<1>2. Unreplied(d)' = Unreplied(d)
  <2>1. CASE exec' = exec
    BY <2>1 DEF Unreplied
  <2>2. CASE ExecEnableSend
    BY <2>2 DEF Unreplied, ExecEnableSend, ExecIdle
  <2> QED BY <2>1, <2>2, Steps, Zenon DEF ClientStep, Connect, SendSegment, Receive, Close,
       EpollWait, Accept, LookupClient, WaitReturns, Handle, RunReturns, IoStep, IoTake, IoWait,
       IoRead, IoReadNothing, IoReadBad, IoLogout, IoPush, IoPushed, IoSendNothing,
       IoSendClosed, IoSendReset, IoSendBad, IoSent, IoEnableRead
<1>3. client'[d].got = client[d].got
  <2>1. CASE client' = client
    BY <2>1
  <2>2. ASSUME NEW c \in Conns, SendSegment(c) \/ Close(c) \/ (Receive(c) /\ c # d)
        PROVE  client'[d].got = client[d].got
    <3>1. CASE d # c
      BY <2>2, <3>1 DEF SendSegment, Close, Receive, Structure, TypeOK
    <3>2. CASE SendSegment(d) \/ Close(d)
      BY <3>2 DEF SendSegment, Close, Structure, TypeOK, Program
    <3> QED BY <2>2, <3>1, <3>2
  <2> QED BY <2>1, <2>2, Steps, Zenon DEF ClientStep, Connect,
       EpollWait, Accept, LookupClient, WaitReturns, Handle, RunReturns, IoStep, IoTake, IoWait,
       IoRead, IoReadNothing, IoReadBad, IoLogout, IoPush, IoPushed, IoSendNothing,
       IoSendClosed, IoSendReset, IoSendBad, IoSent, IoEnableRead, ExecEnableSend
<1>4. sock'[d].tx = sock[d].tx
  BY SocketsKept DEF Structure
<1>5. info'[d].send = info[d].send
  <2>1. CASE info' = info
    BY <2>1
  <2>2. CASE Accept
    BY <2>2, AcceptIs, AcceptFds DEF Structure
  <2>3. ASSUME NEW t \in IoThreads, IoRead(t) PROVE info'[d].send = info[d].send
    BY <2>3, Works DEF IoRead, Structure, TypeOK, ClientInfo
  <2>4. ASSUME NEW t \in IoThreads, IoSendClosed(t) PROVE info'[d].send = info[d].send
    <3>1. io[t].conn \in Conns /\ Named(io[t].conn) # None /\ client[Named(io[t].conn)].closed
      BY <2>4, Works DEF IoSendClosed, Structure
    <3>2. Alive(io[t].conn)
      BY DEF Alive
    <3>3. Named(io[t].conn) = io[t].conn
      BY <3>1, <3>2 DEF NotHandedOn
    <3>4. io[t].conn # d
      BY <2>4, <3>1, <3>3 DEF IoSendClosed
    <3> QED BY <2>4, <3>4 DEF IoSendClosed, Structure, TypeOK
  <2> QED BY <2>1, <2>2, <2>3, <2>4, Steps, Zenon DEF ClientStep, Connect, SendSegment, Receive, Close,
       EpollWait, LookupClient, WaitReturns, Handle, RunReturns, IoStep, IoTake, IoWait,
       IoReadNothing, IoReadBad, IoLogout, IoPush, IoPushed, IoSendNothing,
       IoSendReset, IoSendBad, IoSent, IoEnableRead, ExecEnableSend
<1> QED BY <1>1, <1>2, <1>3, <1>4, <1>5, ReplyKept, Zenon DEF Wire

\* Every step keeps the order of replies, unless a descriptor was handed on.
LEMMA InReplyStep ==
    ASSUME Structure, Replying, InReply, NotHandedOn, Next
    PROVE  InReply'
<1> SUFFICES ASSUME NEW d \in Conns, ~ client'[d].closed PROVE Replied(d)'
  BY DEF InReply
<1>1. ~ client[d].closed
  <2>1. CASE client' = client
    BY <2>1
  <2>2. ASSUME NEW c \in Conns, SendSegment(c) \/ Close(c) \/ Receive(c)
        PROVE  ~ client[d].closed
    BY <2>2, Zenon DEF SendSegment, Close, Receive, Structure, TypeOK, Program
  <2> QED BY <2>1, <2>2, Steps, Zenon DEF ClientStep, Connect,
       EpollWait, Accept, LookupClient, WaitReturns, Handle, RunReturns, IoStep, IoTake, IoWait,
       IoRead, IoReadNothing, IoReadBad, IoLogout, IoPush, IoPushed, IoSendNothing, IoSend,
       IoSendClosed, IoSendReset, IoSendBad, IoSent, IoEnableRead, ExecPop, ExecAppend,
       ExecEnableSend
<1>2. Replied(d)
  BY <1>1 DEF InReply
<1>3. ASSUME NEW t \in IoThreads, IoSend(t) PROVE Replied(d)'
  <2>1. io[t].conn \in Conns /\ Named(io[t].conn) # None
    BY <1>3, Works, Zenon DEF IoSend, Structure
  <2>2. Alive(io[t].conn)
    BY DEF Alive
  <2>3. Named(io[t].conn) = io[t].conn
    BY <2>1, <2>2 DEF NotHandedOn
  <2> QED BY <1>2, <1>3, <2>3, ReplySend
<1> QED BY <1>2, <1>3, ReplyReceive, ReplyPop, ReplyAppend, ReplyOther

\* InReply is RepliesInOrder, client by client.
LEMMA RepliesSame == InReply <=> RepliesInOrder
BY Zenon DEF InReply, Replied, RepliesInOrder, Wire, Unreplied

\* The invariants hold at the start.
LEMMA InitIInv == Init => IInv /\ Replying /\ InReply
<1> SUFFICES ASSUME Init PROVE IInv /\ Replying /\ InReply
  OBVIOUS
<1>1. \A c \in Conns : ~ Alive(c)
  <2>1. \A c \in Conns : c # None
    BY ReactorAssumption
  <2> QED BY <2>1 DEF Init, Alive, MainIdle, IoIdle, ExecIdle
<1>2. IInv
  BY <1>1, InitTypes, InitStructure DEF IInv, Structure, InOrder
<1>3. Replying
  BY DEF Init, ExecIdle, Replying
<1>4. ASSUME NEW c \in Conns PROVE Replied(c)
  <2>1. Wire(c) = <<>>
    <3>1. sock[c].tx = <<>> /\ info[c].send = <<>>
      BY DEF Init
    <3>2. <<>> \o <<>> = <<>>
      OBVIOUS
    <3> QED BY <3>1, <3>2 DEF Wire
  <2>2. Unreplied(c) = 0 /\ client[c].got = 0 /\ executed[c] = 0
    BY DEF Init, Unreplied, ExecIdle
  <2>3. ReplyLen * (0 - 0) = 0
    BY ReactorAssumption
  <2> QED BY <2>1, <2>2, <2>3 DEF Replied
<1> QED BY <1>2, <1>3, <1>4 DEF InReply

\* They hold after a step that changes nothing.
LEMMA StutterIInv ==
    ASSUME IInv, UNCHANGED vars
    PROVE  /\ IInv' /\ (Replying => Replying') /\ (InReply => InReply')
<1>1. Structure'
  BY Zenon DEF IInv, Structure, TypeOK, Locals, Room, Waiting, Accepted, Untouched, vars
<1>2. ASSUME NEW d \in Conns, Alive(d)' PROVE Ordered(d)' /\ Pushed(d)'
  <2>1. Alive(d)
    BY <1>2 DEF Alive, vars
  <2>2. /\ cmdQue' = cmdQue /\ executed' = executed /\ info'[d].parsed = info[d].parsed
        /\ io' = io
    BY DEF vars
  <2>3. \A t \in IoThreads : Pushes(t, d)' <=> Pushes(t, d)
    BY <2>2 DEF Pushes
  <2> QED BY <2>1, <2>2, <2>3, OrderKept, Zenon DEF IInv, InOrder
<1>3. Replying => Replying'
  BY DEF Replying, vars
<1>4. InReply => InReply'
  BY Zenon DEF InReply, Replied, Wire, Unreplied, vars
<1> QED BY <1>1, <1>2, <1>3, <1>4 DEF IInv, InOrder

\* The inductive invariant of the order of commands is one.
LEMMA IInvStep ==
    ASSUME IInv, [Next]_vars
    PROVE  IInv'
BY StructureStep, InOrderStep, StutterIInv DEF IInv

\* Whatever the clients do, and however many io threads carry their requests,
\* the commands of a client reach the command thread in the order the client
\* sent them, each once: cmd_que_ goes on where the executed ones stopped.
THEOREM CommandsStayInOrder == Spec => []CommandsInOrder
<1>1. Init => IInv
  BY InitIInv
<1>2. IInv /\ [Next]_vars => IInv'
  BY IInvStep
<1>3. IInv => CommandsInOrder
  <2> SUFFICES ASSUME IInv, NEW i \in DOMAIN cmdQue, Alive(cmdQue[i].conn)
               PROVE  cmdQue[i].req = executed[cmdQue[i].conn] + Count(cmdQue, cmdQue[i].conn, i)
    BY DEF CommandsInOrder, Count
  <2>1. cmdQue[i] \in Unit
    BY DEF IInv, Structure, TypeOK
  <2>2. cmdQue[i].conn \in Conns
    BY <2>1 DEF Unit
  <2> QED BY <2>2 DEF IInv, InOrder, Ordered
<1> QED BY <1>1, <1>2, <1>3, PTL DEF Spec

\* In every behaviour in which no descriptor is given to a new connection
\* while a ClientInfo still holds it, the bytes on their way to a client are
\* the replies to its own requests, complete, in order and without
\* repetition, for every load: what the command thread appends and what the
\* io threads send from send_buffer_ fit together whatever the interleaving
\* and however little the socket takes at a time.
THEOREM RepliesStayInOrder == Spec /\ []NotHandedOn => []RepliesInOrder
<1> DEFINE Inv == IInv /\ Replying /\ InReply
<1>1. Init => Inv
  BY InitIInv
<1>2. Inv /\ NotHandedOn /\ [Next]_vars => Inv'
  BY IInvStep, StutterIInv, ReplyingStep, InReplyStep DEF IInv
<1>3. Inv => RepliesInOrder
  BY RepliesSame
<1> HIDE DEF Inv
<1> QED BY <1>1, <1>2, <1>3, PTL DEF Spec

(***************************************************************************)
(* A server with one client hands no descriptor on.                        *)
(***************************************************************************)
OneClient == \A c, d \in load.conns : c = d

\* Only the connections of the load are made.
Made ==
    /\ \A i \in DOMAIN backlog : backlog[i] \in load.conns
    /\ \A c \in Conns : info[c].fd # None => c \in load.conns

\* Every step keeps Made.
LEMMA MadeStep ==
    ASSUME Structure, Made, Next
    PROVE  Made'
<1>1. load' = load
  BY Steps, Zenon DEF ClientStep, Connect, SendSegment, Receive, Close, EpollWait, Accept, LookupClient,
     WaitReturns, Handle, RunReturns, IoStep, IoTake, IoWait, IoRead, IoReadNothing, IoReadBad,
     IoLogout, IoPush, IoPushed, IoSendNothing, IoSend, IoSendClosed, IoSendReset, IoSendBad,
     IoSent, IoEnableRead, ExecPop, ExecAppend, ExecEnableSend
<1>2. backlog \in Seq(Conns)
  BY DEF Structure, TypeOK
<1>3. CASE Accept
  <2>1. PICK c \in Conns, f \in Fds : Accepts(c, f)
    BY <1>3, AcceptIs DEF Structure
  <2>2. backlog # <<>> /\ backlog' = Tail(backlog) /\ c = backlog[1] /\ 1 \in DOMAIN backlog
    BY <1>2, <1>3, <2>1 DEF Accept, Accepts
  <2>3. \A i \in DOMAIN backlog' : backlog'[i] \in load.conns
    BY <1>2, <2>2, TailIndex DEF Made
  <2>4. \A d \in Conns : info'[d].fd # None => d \in load.conns
    BY <2>1, <2>2, AcceptFds DEF Made, Structure
  <2> QED BY <1>1, <2>3, <2>4 DEF Made
<1>4. ASSUME ~ Accept PROVE Made'
  <2>1. \A d \in Conns : info'[d].fd # None => d \in load.conns
    BY <1>4, FdKept DEF Made, Structure
  <2>2. CASE backlog' = backlog
    BY <1>1, <2>1, <2>2 DEF Made
  <2>3. ASSUME NEW c \in Conns, Connect(c) PROVE Made'
    <3>1. backlog' = Append(backlog, c) /\ c \in load.conns
      BY <2>3 DEF Connect
    <3>2. \A i \in DOMAIN backlog' : backlog'[i] \in load.conns
      BY <1>2, <3>1, AppendIndex DEF Made
    <3> QED BY <1>1, <2>1, <3>2 DEF Made
  <2> QED BY <1>4, <2>2, <2>3, Steps, Zenon DEF ClientStep, SendSegment, Receive, Close, EpollWait,
     LookupClient, WaitReturns, Handle, RunReturns, IoStep, IoTake, IoWait, IoRead,
     IoReadNothing, IoReadBad, IoLogout, IoPush, IoPushed, IoSendNothing, IoSend,
     IoSendClosed, IoSendReset, IoSendBad, IoSent, IoEnableRead, ExecPop, ExecAppend,
     ExecEnableSend
<1> QED BY <1>3, <1>4

\* With one client every descriptor in use is its own.
LEMMA OneClientOwns ==
    ASSUME Structure, Made, OneClient
    PROVE  NotHandedOn
<1> SUFFICES ASSUME NEW c \in Conns, Alive(c), Named(c) # None PROVE Named(c) = c
  BY DEF NotHandedOn
<1>1. info[c].fd \in Fds
  BY AliveHasFd DEF Structure
<1>2. Named(c) \in Conns /\ info[Named(c)].fd = info[c].fd
  BY <1>1 DEF Named, Structure, TypeOK, MaybeConn, Accepted
<1>3. info[c].fd # None
  <2>1. MaxFd \in Nat /\ None \notin Nat
    BY ReactorAssumption
  <2>2. Fds \subseteq Nat
    BY <2>1 DEF Fds
  <2> QED BY <1>1, <2>1, <2>2, Zenon
<1> QED BY <1>2, <1>3 DEF Made, OneClient

\* With one client that pipelines, fragments its requests and hangs up as it
\* likes, the bytes on their way to it are the replies to its requests, in
\* order, each once.
THEOREM OneClientRepliesInOrder == Spec => [](OneClient => RepliesInOrder)
<1> DEFINE Inv == IInv /\ Made /\ Replying /\ (OneClient => InReply)
<1>1. Init => Inv
  <2>1. Init => Made
    BY DEF Init, Made
  <2> QED BY <2>1, InitIInv
<1>2. ASSUME Inv, Next PROVE Inv'
  <2>1. OneClient' <=> OneClient
    BY <1>2, Steps, Zenon DEF OneClient, ClientStep, Connect, SendSegment, Receive, Close, EpollWait,
     Accept, LookupClient, WaitReturns, Handle, RunReturns, IoStep, IoTake, IoWait, IoRead,
     IoReadNothing, IoReadBad, IoLogout, IoPush, IoPushed, IoSendNothing, IoSend,
     IoSendClosed, IoSendReset, IoSendBad, IoSent, IoEnableRead, ExecPop, ExecAppend,
     ExecEnableSend
  <2>2. IInv' /\ Made' /\ Replying'
    BY <1>2, IInvStep, MadeStep, ReplyingStep DEF IInv
  <2>3. OneClient => InReply'
    BY <1>2, OneClientOwns, InReplyStep DEF IInv
  <2> QED BY <2>1, <2>2, <2>3
<1>3. ASSUME Inv, UNCHANGED vars PROVE Inv'
  <2>1. Made' /\ (OneClient' <=> OneClient)
    BY <1>3 DEF Made, OneClient, vars
  <2> QED BY <1>3, <2>1, StutterIInv
<1>4. Inv => (OneClient => RepliesInOrder)
  BY RepliesSame
<1> HIDE DEF Inv
<1> QED BY <1>1, <1>2, <1>3, <1>4, PTL DEF Spec

\* The first command of the queue has not been executed.
LEMMA PoppedIsDue ==
    ASSUME Structure, InOrder, cmdQue # <<>>, NEW c \in Conns, Head(cmdQue).conn = c, Alive(c)
    PROVE  executed[c] < info[c].parsed
<1>1. cmdQue \in Seq(Unit) /\ executed[c] \in Nat /\ info[c].parsed \in Nat
  BY DEF Structure, TypeOK, ClientInfo
<1>2. Len(cmdQue) \in Nat /\ Len(cmdQue) - 1 \in 0..Len(cmdQue) - 1 /\ Len(cmdQue) - 1 \in Nat
  BY <1>1
<1>3. Count(cmdQue, c, (Len(cmdQue) - 1) + 1) = Count(Tail(cmdQue), c, Len(cmdQue) - 1) + One(Head(cmdQue), c)
  BY <1>1, <1>2, CountTail
<1>4. Count(Tail(cmdQue), c, Len(cmdQue) - 1) \in Nat /\ One(Head(cmdQue), c) = 1
  BY <1>2, CountStep DEF One
<1>5. Count(cmdQue, c, Len(cmdQue)) \in Nat /\ Count(cmdQue, c, Len(cmdQue)) >= 1
  BY <1>2, <1>3, <1>4
<1>6. Due(c) = executed[c] + Count(cmdQue, c, Len(cmdQue)) /\ Pushed(c)
  BY DEF InOrder, Due
<1>7. Due(c) \in Nat /\ executed[c] < Due(c)
  BY <1>1, <1>5, <1>6
<1>8. ASSUME NEW t \in IoThreads, Pushes(t, c) PROVE Due(c) + 1 <= info[c].parsed + 1
  BY <1>6, <1>8, Zenon DEF Pushed
<1>9. Due(c) <= info[c].parsed
  BY <1>1, <1>6, <1>7, <1>8 DEF Pushed
<1> QED BY <1>1, <1>7, <1>9

\* The command thread keeps it.
LEMMA AccountedExec ==
    ASSUME Structure, InOrder, Kept, Next, NEW c \in Conns, Accounted(c),
           ExecPop \/ ExecAppend \/ ExecEnableSend
    PROVE  Accounted(c)' /\ (ExecEnableSend /\ exec.conn = c => ~ Fresh(c)')
<1> DEFINE size == load.fragments
           p == client[c]
           s == sock[c]
           i == info[c]
           n == executed[c]
<1>1. /\ size \in Nat \ {0} /\ p \in Program /\ s \in Socket /\ i \in ClientInfo /\ n \in Nat
  BY AccountTypes
<1>2. Account(size, p, s, i, n, Serving(c)) /\ ~ s.reset /\ c # None
  BY ReactorAssumption DEF Accounted
<1>3. load' = load /\ client' = client
  BY LoadKept, Zenon DEF ExecPop, ExecAppend, ExecEnableSend
<1>4. exec \in Executor /\ (exec.pc = "idle" <=> exec.conn = None)
  BY DEF Structure, TypeOK, Locals
<1>5. CASE ExecPop
  <2>1. sock' = sock /\ info' = info /\ exec.pc = "idle" /\ cmdQue # <<>> /\ ~ ExecEnableSend
    BY <1>5 DEF ExecPop, ExecEnableSend
  <2>2. Serving(c) = "idle"
    BY <2>1 DEF Serving
  <2>3. CASE exec' = exec /\ executed' = executed
    <3>1. Serving(c)' = Serving(c)
      BY <2>3 DEF Serving
    <3> QED BY <1>3, <2>1, <2>3, <3>1, AccountedSame
  <2>4. CASE /\ Alive(Head(cmdQue).conn)
             /\ exec' = [pc |-> "append", conn |-> Head(cmdQue).conn, req |-> Head(cmdQue).req]
             /\ executed' = [executed EXCEPT ![Head(cmdQue).conn] = @ + 1]
    <3>1. CASE Head(cmdQue).conn = c
      <4>1. n < i.parsed
        BY <2>1, <2>4, <3>1, PoppedIsDue
      <4>2. Serving(c)' = "append" /\ executed'[c] = n + 1
        BY <2>4, <3>1 DEF Serving, Structure, TypeOK
      <4> HIDE DEF size, p, s, i, n
      <4>3. Account(size, p, s, i, n + 1, "append")
        BY <1>1, <1>2, <2>2, <4>1, AccountPop
      <4> QED BY <1>2, <1>3, <2>1, <4>2, <4>3 DEF Accounted, size, p, s, i
    <3>2. CASE Head(cmdQue).conn # c
      <4>1. Serving(c)' = Serving(c) /\ executed'[c] = executed[c]
        BY <2>2, <2>4, <3>2 DEF Serving, Structure, TypeOK
      <4> QED BY <1>3, <2>1, <4>1, AccountedSame
    <3> QED BY <3>1, <3>2
  <2> QED BY <1>5, <2>1, <2>3, <2>4 DEF ExecPop
<1>6. CASE ExecAppend
  <2> DEFINE reply == [k \in 1..ReplyLen |-> [conn |-> exec.conn, req |-> exec.req]]
  <2>1. sock' = sock /\ executed' = executed /\ exec.pc = "append" /\ ~ ExecEnableSend
    BY <1>6 DEF ExecAppend, ExecEnableSend
  <2>2. exec' = [exec EXCEPT !.pc = "enable"]
        /\ info' = [info EXCEPT ![exec.conn] = [info[exec.conn] EXCEPT !.send = @ \o reply]]
    BY <1>6 DEF ExecAppend
  <2>3. exec'.conn = exec.conn /\ exec'.pc = "enable"
    BY <1>4, <2>2, Zenon DEF Executor
  <2>4. CASE c # exec.conn
    <3>1. Serving(c)' = Serving(c) /\ info'[c] = info[c]
      BY <2>2, <2>3, <2>4 DEF Serving, Structure, TypeOK
    <3> QED BY <1>3, <2>1, <3>1, AccountedSame
  <2>5. CASE c = exec.conn
    <3>1. Serving(c) = "append" /\ Serving(c)' = "enable"
      BY <2>1, <2>3, <2>5 DEF Serving
    <3>2. /\ info'[c].recv = i.recv /\ info'[c].parsed = i.parsed
          /\ info'[c].send = i.send \o reply
      <4> HIDE DEF reply
      <4> QED BY <1>1, <2>2, <2>5, Zenon DEF Structure, TypeOK, ClientInfo
    <3>3. reply \in Seq(Unit) /\ Len(reply) = ReplyLen
      <4>1. exec.req \in Nat /\ exec.conn \in Conns /\ ReplyLen \in Nat
        BY <2>1, <2>5, ReactorAssumption DEF Structure, Locals
      <4>2. [conn |-> exec.conn, req |-> exec.req] \in Unit
        BY <4>1 DEF Unit
      <4> QED BY <4>1, <4>2
    <3>4. Len(i.send \o reply) = Len(i.send) + ReplyLen
      <4>1. i.send \in Seq(Unit)
        BY <1>1 DEF ClientInfo
      <4> HIDE DEF reply, i
      <4> QED BY <3>3, <4>1
    <3>5. info'[c] \in ClientInfo
      <4>1. TypeOK'
        BY TypeStep DEF Structure
      <4> QED BY <4>1 DEF TypeOK
    <3> HIDE DEF size, p, s, i, n, reply
    <3>6. Account(size, p, s, info'[c], n, "enable")
      BY <1>1, <1>2, <3>1, <3>2, <3>4, <3>5, AccountAppend
    <3> QED BY <1>2, <1>3, <2>1, <3>1, <3>6 DEF Accounted, size, p, s, n
  <2> QED BY <2>1, <2>4, <2>5
<1>7. CASE ExecEnableSend
  <2>1. info' = info /\ executed' = executed /\ exec.pc = "enable" /\ exec' = ExecIdle
    BY <1>7 DEF ExecEnableSend
  <2>2. /\ sock'[c].tx = sock[c].tx /\ sock'[c].rx = sock[c].rx
        /\ sock'[c].reset = sock[c].reset
    <3>1. info[exec.conn].fd \in Fds
      BY <2>1, KeptExec
    <3> QED BY <1>7, <3>1, ModifyKeeps DEF ExecEnableSend, Structure, Interest
  <2>3. Serving(c)' = "idle" /\ exec'.conn = None
    BY <2>1 DEF Serving, ExecIdle
  <2>4. CASE c # exec.conn
    <3>1. Serving(c) = "idle"
      BY <2>4 DEF Serving
    <3> QED BY <1>3, <2>1, <2>2, <2>3, <2>4, <3>1, AccountedSame
  <2>5. CASE c = exec.conn
    <3>1. Serving(c) = "enable"
      BY <2>1, <2>5 DEF Serving
    <3> HIDE DEF size, p, s, i, n
    <3>2. Account(size, p, s, i, n, "idle") /\ n = i.parsed
      BY <1>1, <1>2, <3>1, AccountAnnounce
    <3>3. Account(size, p, sock'[c], i, n, "idle")
      BY <2>2, <3>2, AccountSame DEF s
    <3>4. Accounted(c)'
      BY <1>2, <1>3, <2>1, <2>2, <2>3, <3>3 DEF Accounted, size, p, s, i, n
    <3>5. ~ (executed[c] < info[c].parsed)
      <4>1. info[c].parsed \in Nat
        BY <1>1 DEF i, ClientInfo
      <4> QED BY <3>2, <4>1 DEF n, i
    <3> QED BY <1>2, <2>1, <2>3, <3>4, <3>5 DEF Fresh
  <2> QED BY <2>4, <2>5
<1> QED BY <1>5, <1>6, <1>7

\* Every step keeps the account of a client that waits.
LEMMA AccountedStep ==
    ASSUME Structure, InOrder, Waits, Kept, Next, NEW c \in Conns, Accounted(c)
    PROVE  Accounted(c)'
<1>1. CASE \E d \in Conns : ClientStep(d)
  BY <1>1, AccountedClient
<1>2. CASE \E t \in IoThreads : IoRead(t)
  BY <1>2, AccountedRead
<1>3. CASE \E t \in IoThreads : IoSend(t)
  BY <1>3, AccountedSend
<1>4. CASE ExecPop \/ ExecAppend \/ ExecEnableSend
  BY <1>4, AccountedExec
<1> DEFINE Quiet == /\ client' = client /\ executed' = executed /\ exec' = exec
                    /\ sock'[c].tx = sock[c].tx /\ sock'[c].rx = sock[c].rx
                    /\ sock'[c].reset = sock[c].reset
                    /\ info'[c].recv = info[c].recv /\ info'[c].parsed = info[c].parsed
                    /\ info'[c].send = info[c].send
<1>5. ASSUME Quiet PROVE Accounted(c)'
  <2>1. Serving(c)' = Serving(c)
    BY <1>5 DEF Serving
  <2> QED BY <1>5, <2>1, LoadKept, AccountedSame
<1>6. CASE Accept
  <2>1. PICK d \in Conns, f \in Fds : Accepts(d, f)
    BY <1>6, AcceptIs DEF Structure
  <2>2. /\ info'[c].recv = info[c].recv /\ info'[c].parsed = info[c].parsed
        /\ info'[c].send = info[c].send
    BY <2>1 DEF Accepts, Structure, TypeOK, ClientInfo
  <2>3. /\ sock'[c].tx = sock[c].tx /\ sock'[c].rx = sock[c].rx
        /\ sock'[c].reset = sock[c].reset
    BY <2>1 DEF Accepts, Structure, TypeOK, Socket
  <2>4. client' = client /\ executed' = executed /\ exec' = exec
    BY <2>1, Zenon DEF Accepts
  <2> QED BY <1>5, <2>2, <2>3, <2>4
<1>7. CASE LookupClient
  <2>1. PICK f \in Fds, e \in Interest : Looks(f, e)
    BY <1>7, LookupIs
  <2>2. /\ sock'[c].tx = sock[c].tx /\ sock'[c].rx = sock[c].rx
        /\ sock'[c].reset = sock[c].reset
    <3>1. CASE sock' = sock
      BY <3>1
    <3>2. CASE sock' = IF file[f] = None THEN sock ELSE [sock EXCEPT ![file[f]].interest = None]
      BY <3>2, OffEpollKeeps DEF Structure
    <3> QED BY <2>1, <3>1, <3>2 DEF Looks
  <2>3. client' = client /\ executed' = executed /\ exec' = exec /\ info' = info
    BY <1>7, Zenon DEF LookupClient
  <2> QED BY <1>5, <2>2, <2>3
<1>8. ASSUME NEW t \in IoThreads, IoLogout(t) PROVE Accounted(c)'
  <2>1. info[io[t].conn].fd \in Fds
    BY <1>8, KeptIo DEF IoLogout
  <2>2. /\ sock'[c].tx = sock[c].tx /\ sock'[c].rx = sock[c].rx
        /\ sock'[c].reset = sock[c].reset
    BY <1>8, <2>1, OffEpollKeeps DEF IoLogout, RemoveCli, Structure
  <2>3. client' = client /\ executed' = executed /\ exec' = exec /\ info' = info
    BY <1>8, Zenon DEF IoLogout
  <2> QED BY <1>5, <2>2, <2>3
<1>9. ASSUME NEW t \in IoThreads, IoEnableRead(t) PROVE Accounted(c)'
  <2>1. info[io[t].conn].fd \in Fds
    BY <1>9, KeptIo DEF IoEnableRead
  <2>2. /\ sock'[c].tx = sock[c].tx /\ sock'[c].rx = sock[c].rx
        /\ sock'[c].reset = sock[c].reset
    BY <1>9, <2>1, ModifyKeeps DEF IoEnableRead, Structure, Interest
  <2>3. client' = client /\ executed' = executed /\ exec' = exec /\ info' = info
    BY <1>9, Zenon DEF IoEnableRead
  <2> QED BY <1>5, <2>2, <2>3
<1>10. CASE /\ client' = client /\ executed' = executed /\ exec' = exec /\ info' = info
            /\ sock' = sock
  BY <1>5, <1>10
<1> HIDE DEF Quiet
<1> QED BY <1>1, <1>2, <1>3, <1>4, <1>6, <1>7, <1>8, <1>9, <1>10, NoReset, Steps, Zenon
     DEF EpollWait, WaitReturns, Handle, RunReturns, IoStep, IoTake, IoWait, IoReadNothing, IoReadBad,
         IoPush, IoPushed, IoSendNothing, IoSendBad, IoSent

\* A client gets a request that is not answered when it is read.
LEMMA FreshStep ==
    ASSUME Structure, InOrder, Next, NEW c \in Conns, Fresh(c)',
           \A t \in IoThreads : IoRead(t) => io[t].conn # c
    PROVE  Fresh(c)
<1>1. info \in [Conns -> ClientInfo] /\ info[c] \in ClientInfo /\ c # None /\ exec \in Executor
  BY ReactorAssumption DEF Structure, TypeOK
<1>2. info'[c].parsed = info[c].parsed
  <2>1. CASE info' = info
    BY <2>1
  <2>2. CASE Accept
    BY <2>2, AcceptIs, AcceptFds DEF Structure
  <2>3. ASSUME NEW t \in IoThreads, IoRead(t) PROVE info'[c].parsed = info[c].parsed
    BY <1>1, <2>3, Zenon DEF IoRead
  <2>4. ASSUME NEW t \in IoThreads, IoSend(t) \/ IoSendClosed(t) PROVE info'[c].parsed = info[c].parsed
    <3>1. PICK d, q : info' = [info EXCEPT ![d] = [info[d] EXCEPT !.send = q]]
      BY <2>4, Zenon DEF IoSend, IoSendClosed
    <3> QED BY <1>1, <3>1, Zenon DEF ClientInfo
  <2>5. CASE ExecAppend
    <3>1. PICK d, q : info' = [info EXCEPT ![d] = [info[d] EXCEPT !.send = q]]
      BY <2>5, Zenon DEF ExecAppend
    <3> QED BY <1>1, <3>1, Zenon DEF ClientInfo
  <2> QED BY <2>1, <2>2, <2>3, <2>4, <2>5, Steps, Zenon DEF ClientStep, Connect, SendSegment, Receive, Close,
       EpollWait, LookupClient, WaitReturns, Handle, RunReturns, IoStep, IoTake, IoWait,
       IoReadNothing, IoReadBad, IoLogout, IoPush, IoPushed, IoSendNothing,
       IoSendReset, IoSendBad, IoSent, IoEnableRead, ExecPop, ExecEnableSend
<1>3. CASE exec' = exec /\ executed' = executed
  BY <1>2, <1>3 DEF Fresh
<1>4. CASE ExecPop
  <2>1. CASE /\ Alive(Head(cmdQue).conn) /\ cmdQue # <<>>
             /\ exec' = [pc |-> "append", conn |-> Head(cmdQue).conn, req |-> Head(cmdQue).req]
             /\ executed' = [executed EXCEPT ![Head(cmdQue).conn] = @ + 1]
    <3>1. CASE Head(cmdQue).conn = c
      BY <2>1, <3>1, PoppedIsDue DEF Fresh
    <3>2. CASE Head(cmdQue).conn # c
      BY <1>2, <2>1, <3>2 DEF Fresh, Structure, TypeOK
    <3> QED BY <3>1, <3>2
  <2> QED BY <1>3, <1>4, <2>1 DEF ExecPop
<1>5. CASE ExecAppend
  <2>1. exec'.conn = exec.conn /\ executed' = executed
    BY <1>1, <1>5 DEF ExecAppend, Executor
  <2> QED BY <1>2, <2>1 DEF Fresh
<1>6. CASE ExecEnableSend
  BY <1>1, <1>2, <1>6 DEF Fresh, ExecEnableSend, ExecIdle
<1> QED BY <1>3, <1>4, <1>5, <1>6, Steps, Zenon DEF ClientStep, Connect, SendSegment, Receive, Close,
     EpollWait, Accept, LookupClient, WaitReturns, Handle, RunReturns, IoStep, IoTake, IoWait, IoRead,
     IoReadNothing, IoReadBad, IoLogout, IoPush, IoPushed, IoSendNothing, IoSend, IoSendClosed,
     IoSendReset, IoSendBad, IoSent, IoEnableRead

\* The events of a client that stays in use stay in order.
LEMMA EventsStep ==
    ASSUME Structure, InOrder, Batch, Kept, Next, NEW c \in Conns, Alive(c), Alive(c)'
    PROVE  EventsInOrder(c)'
<1>0. "IN" \in Interest /\ "OUT" \in Interest /\ None # "IN" /\ None # "OUT"
  BY ReactorAssumption DEF Interest
<1>1. EventsInOrder(c) /\ Accounted(c) /\ Named(c) = c /\ sock[c] \in Socket
  BY DEF Kept, Registered, Structure, TypeOK
<1>2. ASSUME ~ EpollWait, NEW d \in Interest, NEW e \in Interest
      PROVE  (Flies(c, e)' => Flies(c, e)) /\ (Before(c, d, e)' => Before(c, d, e))
  BY <1>2, FlightStep
<1>3. CASE LogsOut(c)
  <2>1. client[c].closed /\ sock'[c].interest = None
    BY <1>3, InterestSet
  <2>2. \A t \in IoThreads : IoRead(t) => io[t].conn # c
    <3>1. sock[c].rx = 0
      BY <1>1, <2>1, NothingDue
    <3> QED BY <1>1, <3>1 DEF IoRead
  <2>3. ~ Fresh(c)'
    BY <1>1, <2>1, <2>2, NothingDue, FreshStep
  <2> QED BY <1>0, <2>1, <2>3 DEF EventsInOrder
<1>4. CASE EnablesRead(c)
  <2>1. PICK t \in IoThreads : IoEnableRead(t) /\ io[t].conn = c
    BY <1>4 DEF EnablesRead
  <2>2. io[t].pc \in Kind("OUT") /\ main' = main /\ info' = info /\ exec' = exec /\ executed' = executed
    BY <2>1 DEF IoEnableRead, Kind
  <2>3. ~ Fresh(c)'
    BY <2>1, <2>2, SendsAnnounced DEF Fresh
  <2>4. ~ EpollWait
    <3>1. io'[t].pc = "loop" /\ io[t].pc = "enable"
      BY <2>1 DEF IoEnableRead, IoDone, IoIdle, Structure, TypeOK
    <3> QED BY <3>1 DEF EpollWait
  <2>5. sock'[c].interest = IF sock[c].interest = None THEN None ELSE "IN"
    BY <1>4, InterestSet
  <2>6. ASSUME sock'[c].interest = "IN" PROVE ~ Before(c, "IN", "OUT")'
    <3>1. CASE sock[c].interest = "IN"
      BY <1>0, <1>1, <1>2, <2>4, <3>1 DEF EventsInOrder
    <3>2. CASE sock[c].interest = "OUT"
      <4>1. ~ Flies(c, "IN")
        BY <2>1, <2>2, <3>2, SendsFirst
      <4>2. ~ Before(c, "IN", "OUT")
        BY <4>1 DEF Flies, Before
      <4> QED BY <1>0, <1>2, <2>4, <4>2
    <3> QED BY <1>0, <1>1, <2>5, <2>6, <3>1, <3>2 DEF Socket, MaybeInterest, Interest
  <2>7. sock'[c].interest # "OUT"
    BY <1>0, <2>5
  <2> QED BY <2>3, <2>6, <2>7 DEF EventsInOrder
<1>5. CASE EnablesSend(c)
  <2>1. exec.conn = c /\ exec.pc = "enable" /\ ExecEnableSend /\ info' = info /\ exec' = ExecIdle
    BY <1>5 DEF EnablesSend, ExecEnableSend
  <2>2. ~ Fresh(c)'
    BY <1>1, <2>1, AccountedExec
  <2>3. Len(info[c].send) = ReplyLen
    BY <1>1, <2>1 DEF Accounted, Account, Serving
  <2>4. sock[c].interest = "IN" /\ ~ Flies(c, "OUT")
    BY <1>1, <2>1 DEF EventsInOrder, Fresh
  <2>5. ~ EpollWait
    BY <2>1, ReactorAssumption DEF EpollWait, ExecIdle
  <2>6. sock'[c].interest = "OUT"
    BY <1>0, <1>5, <2>4, InterestSet
  <2>7. ~ Before(c, "OUT", "IN")
    BY <2>4 DEF Flies, Before
  <2>8. ~ Before(c, "OUT", "IN")'
    BY <1>0, <1>2, <2>5, <2>7
  <2> QED BY <2>1, <2>2, <2>3, <2>6, <2>8 DEF EventsInOrder
<1>6. CASE ~ LogsOut(c) /\ ~ EnablesRead(c) /\ ~ EnablesSend(c)
  <2>1. sock'[c].interest = sock[c].interest
    BY <1>6, InterestStep
  <2>2. /\ sock'[c].interest = "IN" => ~ Before(c, "IN", "OUT")'
        /\ sock'[c].interest = "OUT" => ~ Before(c, "OUT", "IN")'
    BY <1>0, <1>1, <2>1, FlightStep DEF EventsInOrder
  <2>3. Fresh(c)' => sock'[c].interest = "IN" /\ ~ Flies(c, "OUT")'
    <3>1. CASE sock[c].interest = "IN" /\ ~ Flies(c, "OUT")
      BY <1>0, <2>1, <3>1, FlightStep
    <3>2. CASE \E t \in IoThreads : IoRead(t) /\ io[t].conn = c
      BY <3>1, <3>2, ReadsFirst
    <3>3. CASE \A t \in IoThreads : IoRead(t) => io[t].conn # c
      BY <1>1, <3>1, <3>3, FreshStep DEF EventsInOrder
    <3> QED BY <3>2, <3>3
  <2>4. ASSUME sock'[c].interest = "OUT", Flies(c, "IN")' PROVE Len(info'[c].send) = ReplyLen
    <3>1. sock[c].interest = "OUT" /\ Flies(c, "IN")
      BY <1>0, <2>1, <2>4, FlightStep
    <3>2. \A t \in IoThreads : IoSend(t) => io[t].conn # c
      BY <3>1, SendsFirst DEF IoSend, Kind
    <3>3. ExecAppend => exec.conn # c
      BY <1>0, <1>1, <3>1 DEF EventsInOrder, Fresh
    <3>4. info'[c].send = info[c].send
      BY <3>2, <3>3, SendStep
    <3> QED BY <1>1, <3>1, <3>4 DEF EventsInOrder
  <2> QED BY <2>2, <2>3, <2>4 DEF EventsInOrder
<1> QED BY <1>3, <1>4, <1>5, <1>6

\* The client Accept makes.
LEMMA AcceptKept ==
    ASSUME Structure, Kept, Accept, NEW c \in Conns, Alive(c)', ~ Alive(c)
    PROVE  EventsInOrder(c)' /\ Registered(c)' /\ info[c].fd = None
<1>1. info[c].fd = None
  BY AcceptMakesOne DEF Structure
<1>2. PICK d \in Conns, f \in Fds : Accepts(d, f) /\ info[d].fd = None
  BY AcceptIs DEF Structure
<1>3. None \notin Conns /\ None \notin Fds /\ main \in Main
  BY ReactorAssumption DEF Fds, Structure, TypeOK
<1>4. /\ cliQue' = cliQue /\ io' = io /\ exec' = exec /\ executed' = executed
      /\ main'.ret = main.ret
  BY <1>2, <1>3 DEF Accepts, Main
<1>5. /\ \A t \in IoThreads : io[t].conn # c
      /\ exec.conn # c
      /\ \A k \in DOMAIN cliQue : cliQue[k].conn # c
      /\ \A k \in DOMAIN main.ret : main.ret[k].conn # c
      /\ \A g \in Fds : clientMap[g] # c
  BY <1>1, <1>3 DEF Structure, Accepted
<1>6. d = c
  <2>1. PICK g \in Fds : clientMap'[g] = c
    BY <1>4, <1>5 DEF Alive
  <2> QED BY <1>2, <1>5, <2>1 DEF Accepts, Structure, TypeOK
<1>7. info'[c].fd = f /\ info'[c].parsed = info[c].parsed /\ file'[f] = c
  BY <1>2, <1>6, AcceptFds DEF Accepts, Structure, TypeOK
<1>8. clientMap[f] = None
  <2>1. ASSUME clientMap[f] # None PROVE FALSE
    <3>1. clientMap[f] \in Conns /\ info[clientMap[f]].fd = f
      BY <2>1 DEF Structure, TypeOK, MaybeConn, Accepted
    <3>2. Alive(clientMap[f])
      BY DEF Alive
    <3>3. file[f] = clientMap[f]
      BY <3>1, <3>2 DEF Kept, Registered, Named
    <3> QED BY <1>2, <1>3, <3>1, <3>3 DEF Accepts
  <2> QED BY <2>1
<1>9. clientMap'[f] = c /\ sock'[c].interest = "IN"
  BY <1>2, <1>6, <1>8 DEF Accepts, Structure, TypeOK, Socket
<1>10. ~ Fresh(c)'
  BY <1>1, <1>4, <1>5, <1>7 DEF Fresh, Structure, Untouched
<1>11. ~ Before(c, "IN", "OUT")'
  BY <1>4, <1>5 DEF Before, AtIo, AtQue
<1>12. Registered(c)'
  BY <1>7, <1>9, ReactorAssumption DEF Registered, Named
<1> QED BY <1>1, <1>9, <1>10, <1>11, <1>12 DEF EventsInOrder

\* Every step keeps what is said of waiting clients.
LEMMA KeptStep ==
    ASSUME Structure, InOrder, Batch, Waits, Kept, Next
    PROVE  Kept'
<1>1. ASSUME NEW c \in Conns, Alive(c)' PROVE Alive(c) \/ (Accept /\ info[c].fd = None)
  <2>1. CASE Accept
    BY <1>1, <2>1, AcceptMakesOne DEF Structure
  <2>2. CASE ~ Accept
    BY <1>1, <2>2, NoRevival DEF Structure
  <2> QED BY <2>1, <2>2
<1>2. ASSUME NEW c \in Conns, info'[c].fd = None PROVE info[c].fd = None
  <2>1. CASE Accept
    <3>1. PICK d \in Conns, f \in Fds : Accepts(d, f)
      BY <2>1, AcceptIs DEF Structure
    <3>2. f # None
      BY ReactorAssumption DEF Fds
    <3> QED BY <1>2, <3>1, <3>2, AcceptFds DEF Structure
  <2>2. CASE ~ Accept
    BY <1>2, <2>2, FdKept DEF Structure
  <2> QED BY <2>1, <2>2
<1>3. ASSUME NEW c \in Conns, Alive(c)' \/ info'[c].fd = None PROVE Accounted(c)'
  <2>1. Accounted(c)
    BY <1>1, <1>2, <1>3 DEF Kept
  <2> QED BY <2>1, AccountedStep
<1>4. ASSUME NEW c \in Conns, Alive(c)' PROVE EventsInOrder(c)' /\ Registered(c)'
  <2>1. CASE Alive(c)
    BY <1>4, <2>1, EventsStep, RegisteredStep
  <2>2. CASE ~ Alive(c)
    BY <1>1, <1>4, <2>2, AcceptKept
  <2> QED BY <2>1, <2>2
<1> QED BY <1>3, <1>4 DEF Kept

\* It holds at the start.
LEMMA InitWInv == Init => WInv
<1> SUFFICES ASSUME Init PROVE WInv
  OBVIOUS
<1>1. Batch
  BY DEF Init, Batch, MainIdle
<1>2. ASSUME NEW c \in Conns PROVE ~ Alive(c)
  BY ReactorAssumption DEF Init, Alive, MainIdle, IoIdle, ExecIdle
<1>3. ASSUME NEW c \in Conns PROVE Accounted(c)
  <2>1. /\ client[c] = [sent |-> 0, part |-> 0, got |-> 0, closed |-> FALSE]
        /\ sock[c] = [rx |-> 0, tx |-> <<>>, full |-> FALSE, reset |-> FALSE, interest |-> None]
        /\ info[c] = [fd |-> None, recv |-> 0, parsed |-> 0, send |-> <<>>]
        /\ executed[c] = 0 /\ exec = ExecIdle
    BY DEF Init
  <2>2. Serving(c) = "idle"
    BY <2>1 DEF Serving, ExecIdle
  <2>3. load.fragments \in Nat \ {0} /\ ReplyLen \in Nat
    BY ReactorAssumption DEF Init, Load
  <2> QED BY <2>1, <2>2, <2>3 DEF Accounted, Account
<1> QED BY <1>1, <1>2, <1>3 DEF WInv, Kept

\* A step that changes nothing keeps it.
LEMMA StutterWInv ==
    ASSUME WInv, UNCHANGED vars
    PROVE  WInv' /\ (Waits' <=> Waits)
<1>1. Waits' <=> Waits
  BY DEF Waits, vars
<1>2. Batch'
  BY DEF WInv, Batch, vars
<1>3. ASSUME NEW c PROVE /\ Alive(c)' <=> Alive(c)
                         /\ Accounted(c)' <=> Accounted(c)
                         /\ EventsInOrder(c)' <=> EventsInOrder(c)
                         /\ Registered(c)' <=> Registered(c)
                         /\ info'[c].fd = info[c].fd
  <2>1. Alive(c)' <=> Alive(c)
    BY DEF Alive, vars
  <2>2. Accounted(c)' <=> Accounted(c)
    BY DEF Accounted, Serving, vars
  <2>3. \A e, k : AtIo(c, e)' = AtIo(c, e) /\ AtQue(c, e, k)' = AtQue(c, e, k) /\ AtMain(c, e)' = AtMain(c, e)
    BY DEF AtIo, AtQue, AtMain, vars
  <2>4. EventsInOrder(c)' <=> EventsInOrder(c)
    BY <2>3 DEF EventsInOrder, Fresh, Flies, Before, vars
  <2>5. Registered(c)' <=> Registered(c)
    BY DEF Registered, Named, vars
  <2> QED BY <2>1, <2>2, <2>4, <2>5 DEF vars
<1> QED BY <1>1, <1>2, <1>3 DEF WInv, Kept

\* Every step keeps the invariant.
LEMMA WInvStep ==
    ASSUME IInv, WInv, Next
    PROVE  WInv' /\ (Waits' <=> Waits)
<1>1. Waits' <=> Waits
  BY LoadKept DEF Waits
<1>2. Batch'
  BY BatchStep DEF WInv, IInv
<1> QED BY <1>1, <1>2, KeptStep DEF WInv, IInv

\* As long as clients wait for their replies, a descriptor that a ClientInfo
\* holds names its connection: no descriptor is closed early or handed on, by
\* any number of clients, io threads and descriptors.
THEOREM DescriptorsStayOwned == Spec => []DescriptorOwned
<1> DEFINE Inv == IInv /\ WInv
<1>1. Init => Inv
  BY InitIInv, InitWInv
<1>2. ASSUME Inv, Next PROVE Inv'
  BY <1>2, IInvStep, WInvStep
<1>3. ASSUME Inv, UNCHANGED vars PROVE Inv'
  BY <1>3, StutterIInv, StutterWInv
<1>4. Inv => DescriptorOwned
  BY DEF WInv, Kept, Registered, DescriptorOwned
<1> HIDE DEF Inv
<1> QED BY <1>1, <1>2, <1>3, <1>4, PTL DEF Spec

\* Clients that wait for their replies get them: the bytes on their way to each
\* are the replies to its requests, in order, each once, with any number of
\* clients.
THEOREM WaitingRepliesInOrder == Spec => [](Waits => RepliesInOrder)
<1> DEFINE Inv == IInv /\ WInv /\ Replying /\ (Waits => InReply)
<1>1. Init => Inv
  BY InitIInv, InitWInv
<1>2. ASSUME Inv, Next PROVE Inv'
  <2>1. IInv' /\ WInv' /\ Replying' /\ (Waits' <=> Waits)
    BY <1>2, IInvStep, WInvStep, ReplyingStep DEF IInv
  <2>2. Waits => NotHandedOn
    BY <1>2 DEF WInv, Kept, Registered, NotHandedOn
  <2>3. Waits => InReply'
    BY <1>2, <2>2, InReplyStep DEF IInv
  <2> QED BY <2>1, <2>3
<1>3. ASSUME Inv, UNCHANGED vars PROVE Inv'
  BY <1>3, StutterIInv, StutterWInv
<1>4. Inv => (Waits => RepliesInOrder)
  BY RepliesSame
<1> HIDE DEF Inv
<1> QED BY <1>1, <1>2, <1>3, <1>4, PTL DEF Spec

=============================================================================
