------------------------- MODULE SubsequencesProofs -------------------------
(***************************************************************************)
(* What Pick returns, for sequences of any length.  The library's induction*)
(* theorems take a predicate as a parameter; here induction is over a set  *)
(* of numbers, so that the set can be named where it is used.              *)
(***************************************************************************)
EXTENDS Subsequences, WellFoundedInduction, TLAPS

\* A set of numbers that holds 0 and the successor of each of its numbers is
\* all of Nat.
LEMMA Induct ==
    ASSUME NEW S \in SUBSET Nat, 0 \in S, \A n \in S : n + 1 \in S
    PROVE  S = Nat
<1> SUFFICES ASSUME Nat \ S # {} PROVE FALSE
  OBVIOUS
<1> DEFINE Less == OpToRel(<, Nat)
<1> DEFINE T == Nat \ S
<1>1. PICK x \in T : \A y \in T : ~ (<<y, x>> \in Less)
  BY WFMin, NatLessThanWellFounded
<1>2. x - 1 \in Nat /\ x - 1 < x
  OBVIOUS
<1>3. <<x - 1, x>> \in Less
  BY <1>2 DEF OpToRel
<1>4. x - 1 \in S
  BY <1>1, <1>2, <1>3
<1> QED BY <1>2, <1>4

\* Induction up to a bound.
LEMMA InductUpTo ==
    ASSUME NEW m \in Nat, NEW S, 0 \in S,
           \A n \in 0..m : n \in S /\ n < m => n + 1 \in S
    PROVE  0..m \subseteq S
<1> DEFINE T == {n \in Nat : n <= m => n \in S}
<1>1. 0 \in T
  OBVIOUS
<1>2. \A n \in T : n + 1 \in T
  OBVIOUS
<1>3. T = Nat
  <2> HIDE DEF T
  <2> T \in SUBSET Nat
    BY DEF T
  <2> QED BY <1>1, <1>2, Induct
<1> QED BY <1>3

\* f gives what a loop has after each of m steps, when it starts with b and
\* step i takes what it has to step[i] of that.
IsLoop(m, D, b, step, f) ==
    /\ f \in [0..m -> D]
    /\ f[0] = b
    /\ \A i \in 1..m : f[i] = step[i][f[i - 1]]

\* Such a loop has a result after every number of steps.
LEMMA LoopExists ==
    ASSUME NEW m \in Nat, NEW D, NEW b \in D, NEW step \in [1..m -> [D -> D]]
    PROVE  \E f : IsLoop(m, D, b, step, f)
<1> DEFINE S == {n \in 0..m : \E f : IsLoop(n, D, b, step, f)}
<1>1. 0 \in S
  <2>1. IsLoop(0, D, b, step, [i \in 0..0 |-> b])
    BY DEF IsLoop
  <2>2. 0 \in 0..m
    OBVIOUS
  <2> QED BY <2>1, <2>2, Zenon
<1>2. ASSUME NEW n \in 0..m, n \in S, n < m PROVE n + 1 \in S
  <2>1. PICK f : IsLoop(n, D, b, step, f)
    BY <1>2
  <2> DEFINE g == [i \in 0..n + 1 |-> IF i <= n THEN f[i] ELSE step[i][f[n]]]
  <2>2. step[n + 1][f[n]] \in D
    BY <1>2, <2>1 DEF IsLoop
  <2>3. g \in [0..n + 1 -> D]
    BY <1>2, <2>1, <2>2 DEF IsLoop
  <2>4. ASSUME NEW i \in 1..n + 1 PROVE g[i] = step[i][g[i - 1]]
    BY <1>2, <2>1 DEF IsLoop
  <2>5. g[0] = b
    BY <1>2, <2>1 DEF IsLoop
  <2>6. IsLoop(n + 1, D, b, step, g)
    BY <2>3, <2>4, <2>5, Zenon DEF IsLoop
  <2>7. n + 1 \in 0..m
    BY <1>2
  <2> QED BY <2>6, <2>7, Zenon
<1>3. m \in S
  <2> HIDE DEF S
  <2>1. 0..m \subseteq S
    BY <1>1, <1>2, InductUpTo
  <2> QED BY <2>1
<1> QED BY <1>3

\* What the definition of Picked asks of the function it defines.
PickedOf(s, I, f) ==
    [i \in 0..Len(s) |->
        IF i = 0 THEN <<>>
        ELSE IF i \in I THEN Append(f[i - 1], s[i])
        ELSE f[i - 1]]

\* Picked is the loop it looks like.
LEMMA PickedDef ==
    ASSUME NEW S, NEW s \in Seq(S), NEW I
    PROVE  /\ Picked(s, I) \in [0..Len(s) -> Seq(S)]
           /\ Picked(s, I)[0] = <<>>
           /\ \A i \in 1..Len(s) :
                Picked(s, I)[i] = IF i \in I THEN Append(Picked(s, I)[i - 1], s[i])
                                  ELSE Picked(s, I)[i - 1]
<1> DEFINE step == [i \in 1..Len(s) |->
                      [q \in Seq(S) |-> IF i \in I THEN Append(q, s[i]) ELSE q]]
<1>1. Len(s) \in Nat /\ <<>> \in Seq(S)
  OBVIOUS
<1>2. step \in [1..Len(s) -> [Seq(S) -> Seq(S)]]
  OBVIOUS
<1>3. PICK f : IsLoop(Len(s), Seq(S), <<>>, step, f)
  <2> HIDE DEF step
  <2> QED BY <1>1, <1>2, LoopExists
<1>4. f \in [0..Len(s) -> Seq(S)] /\ f[0] = <<>>
  BY <1>3 DEF IsLoop
<1>5. \A i \in 1..Len(s) : f[i] = IF i \in I THEN Append(f[i - 1], s[i]) ELSE f[i - 1]
  <2> SUFFICES ASSUME NEW i \in 1..Len(s)
               PROVE f[i] = IF i \in I THEN Append(f[i - 1], s[i]) ELSE f[i - 1]
    OBVIOUS
  <2>1. f[i] = step[i][f[i - 1]]
    BY <1>3 DEF IsLoop
  <2>2. f[i - 1] \in Seq(S)
    BY <1>4
  <2> QED BY <2>1, <2>2
<1>6. f = PickedOf(s, I, f)
  <2>1. ASSUME NEW i \in 0..Len(s) PROVE f[i] = PickedOf(s, I, f)[i]
    <3>1. i = 0 \/ i \in 1..Len(s)
      OBVIOUS
    <3> QED BY <1>4, <1>5, <3>1 DEF PickedOf
  <2>2. f = [i \in 0..Len(s) |-> f[i]]
    BY <1>4
  <2>3. PickedOf(s, I, f) = [i \in 0..Len(s) |-> PickedOf(s, I, f)[i]]
    BY DEF PickedOf
  <2> QED BY <2>1, <2>2, <2>3, Zenon
<1>7. Picked(s, I) = CHOOSE g : g = PickedOf(s, I, g)
  BY DEF Picked, PickedOf
<1>8. Picked(s, I) = PickedOf(s, I, Picked(s, I))
  BY <1>6, <1>7
<1> DEFINE p == Picked(s, I)
<1> HIDE DEF p
<1>9. p = PickedOf(s, I, p)
  BY <1>8 DEF p
<1>10. /\ DOMAIN p = 0..Len(s) /\ p[0] = <<>>
       /\ p = [i \in 0..Len(s) |-> p[i]]
       /\ \A i \in 1..Len(s) : p[i] = IF i \in I THEN Append(p[i - 1], s[i]) ELSE p[i - 1]
  <2>1. ASSUME NEW i \in 1..Len(s)
        PROVE  p[i] = IF i \in I THEN Append(p[i - 1], s[i]) ELSE p[i - 1]
    <3>1. i \in 0..Len(s) /\ i # 0
      OBVIOUS
    <3>2. PickedOf(s, I, p)[i] = IF i \in I THEN Append(p[i - 1], s[i]) ELSE p[i - 1]
      BY <3>1, Zenon DEF PickedOf
    <3> QED BY <1>9, <3>2, Zenon
  <2>2. 0 \in 0..Len(s)
    OBVIOUS
  <2>3. PickedOf(s, I, p)[0] = <<>>
    BY <2>2, Zenon DEF PickedOf
  <2>4. PickedOf(s, I, p) = [i \in 0..Len(s) |-> PickedOf(s, I, p)[i]]
    BY Zenon DEF PickedOf
  <2>5. p = [i \in 0..Len(s) |-> p[i]]
    BY <1>9, <2>4, Zenon
  <2> QED BY <1>9, <2>1, <2>3, <2>5, Zenon
<1> DEFINE T == {i \in 0..Len(s) : p[i] \in Seq(S)}
<1>11. 0 \in T
  BY <1>1, <1>10
<1>12. ASSUME NEW n \in 0..Len(s), n \in T, n < Len(s) PROVE n + 1 \in T
  <2>1. n + 1 \in 1..Len(s) /\ (n + 1) - 1 = n
    BY <1>1, <1>12
  <2>2. p[n + 1] = IF n + 1 \in I THEN Append(p[n], s[n + 1]) ELSE p[n]
    BY <2>1, <1>10
  <2>3. p[n] \in Seq(S) /\ s[n + 1] \in S
    BY <2>1, <1>12
  <2>4. p[n + 1] \in Seq(S)
    BY <2>2, <2>3
  <2> QED BY <2>1, <2>4
<1>13. 0..Len(s) \subseteq T
  <2> HIDE DEF T
  <2> QED BY <1>1, <1>11, <1>12, InductUpTo
<1>14. p \in [0..Len(s) -> Seq(S)]
  BY <1>10, <1>13
<1> QED BY <1>10, <1>14 DEF p

\* What a sequence holds.
Elements(q) == {q[j] : j \in 1..Len(q)}

\* A longer part of the loop only adds elements at the end.
LEMMA PickedGrows ==
    ASSUME NEW S, NEW s \in Seq(S), NEW I
    PROVE  \A m, n \in 0..Len(s) : m <= n => Begins(Picked(s, I)[m], Picked(s, I)[n])
<1> DEFINE p == Picked(s, I)
<1> SUFFICES ASSUME NEW m \in 0..Len(s) PROVE \A n \in 0..Len(s) : m <= n => Begins(p[m], p[n])
  BY Zenon
<1> DEFINE T == {k \in 0..Len(s) : m <= k => Begins(p[m], p[k])}
<1>1. /\ p \in [0..Len(s) -> Seq(S)]
      /\ \A i \in 1..Len(s) : p[i] = IF i \in I THEN Append(p[i - 1], s[i]) ELSE p[i - 1]
  BY PickedDef
<1> HIDE DEF p
<1>2. Begins(p[m], p[m])
  BY <1>1 DEF Begins
<1>3. 0 \in T
  BY <1>2
<1>4. ASSUME NEW k \in 0..Len(s), k \in T, k < Len(s) PROVE k + 1 \in T
  <2>1. k + 1 \in 1..Len(s) /\ k + 1 \in 0..Len(s) /\ (k + 1) - 1 = k
    BY <1>4
  <2> SUFFICES ASSUME m <= k + 1 PROVE Begins(p[m], p[k + 1])
    BY <2>1
  <2>2. CASE m = k + 1
    BY <1>2, <2>2
  <2>3. CASE m <= k
    <3>1. Begins(p[m], p[k])
      BY <1>4, <2>3
    <3>2. p[k + 1] = IF k + 1 \in I THEN Append(p[k], s[k + 1]) ELSE p[k]
      BY <1>1, <2>1
    <3>3. p[k] \in Seq(S) /\ p[m] \in Seq(S) /\ s[k + 1] \in S
      BY <1>1, <2>1
    <3> QED BY <3>1, <3>2, <3>3 DEF Begins
  <2> QED BY <2>2, <2>3
<1>5. 0..Len(s) \subseteq T
  <2> HIDE DEF T
  <2>1. Len(s) \in Nat
    OBVIOUS
  <2> QED BY <1>3, <1>4, <2>1, InductUpTo
<1> QED BY <1>5

\* What is left are the elements of s at the positions asked for.
LEMMA PickedElements ==
    ASSUME NEW S, NEW s \in Seq(S), NEW I
    PROVE  \A n \in 0..Len(s) : Elements(Picked(s, I)[n]) = {s[i] : i \in I \cap 1..n}
<1> DEFINE p == Picked(s, I)
<1> DEFINE Want(k) == {s[i] : i \in I \cap 1..k}
<1> DEFINE T == {k \in 0..Len(s) : Elements(p[k]) = Want(k)}
<1>1. /\ p \in [0..Len(s) -> Seq(S)] /\ p[0] = <<>>
      /\ \A i \in 1..Len(s) : p[i] = IF i \in I THEN Append(p[i - 1], s[i]) ELSE p[i - 1]
  BY PickedDef
<1> HIDE DEF p
<1>2. 0 \in T
  <2>1. Elements(p[0]) = {} /\ Want(0) = {} /\ 0 \in 0..Len(s)
    BY <1>1 DEF Elements
  <2> QED BY <2>1
<1>3. ASSUME NEW k \in 0..Len(s), k \in T, k < Len(s) PROVE k + 1 \in T
  <2>1. k + 1 \in 1..Len(s) /\ k + 1 \in 0..Len(s) /\ (k + 1) - 1 = k
    BY <1>3
  <2>2. p[k + 1] = IF k + 1 \in I THEN Append(p[k], s[k + 1]) ELSE p[k]
    BY <1>1, <2>1
  <2>3. p[k] \in Seq(S) /\ s[k + 1] \in S
    BY <1>1, <2>1
  <2>4. Elements(Append(p[k], s[k + 1])) = Elements(p[k]) \cup {s[k + 1]}
    <3> DEFINE q == p[k]
    <3> DEFINE e == s[k + 1]
    <3> HIDE DEF q, e
    <3>1. q \in Seq(S) /\ e \in S
      BY <2>3 DEF q, e
    <3>2. Elements(Append(q, e)) \subseteq Elements(q) \cup {e}
      BY <3>1 DEF Elements
    <3>3. Elements(q) \subseteq Elements(Append(q, e))
      <4> SUFFICES ASSUME NEW j \in 1..Len(q) PROVE q[j] \in Elements(Append(q, e))
        BY DEF Elements
      <4>1. j \in 1..Len(Append(q, e)) /\ Append(q, e)[j] = q[j]
        BY <3>1
      <4> QED BY <4>1, Zenon DEF Elements
    <3>4. e \in Elements(Append(q, e))
      <4>1. Len(q) + 1 \in 1..Len(Append(q, e)) /\ Append(q, e)[Len(q) + 1] = e
        BY <3>1
      <4> QED BY <4>1, Zenon DEF Elements
    <3>5. Elements(Append(q, e)) = Elements(q) \cup {e}
      BY <3>2, <3>3, <3>4, Zenon
    <3> QED BY <3>5 DEF q, e
  <2>5. 1..k + 1 = (1..k) \cup {k + 1}
    OBVIOUS
  <2>6. Want(k + 1) = IF k + 1 \in I THEN Want(k) \cup {s[k + 1]} ELSE Want(k)
    BY <2>5, Zenon
  <2>7. Elements(p[k]) = Want(k)
    BY <1>3
  <2>8. Elements(p[k + 1]) = Want(k + 1)
    BY <2>2, <2>4, <2>6, <2>7, Zenon
  <2> QED BY <2>1, <2>8
<1>4. 0..Len(s) \subseteq T
  <2> HIDE DEF T
  <2>1. Len(s) \in Nat
    OBVIOUS
  <2> QED BY <1>2, <1>3, <2>1, InductUpTo
<1>5. \A n \in 0..Len(s) : Elements(p[n]) = Want(n)
  BY <1>4
<1> QED BY <1>5 DEF p

\* What Pick returns is made of elements of the sequence at the positions.
LEMMA PickElements ==
    ASSUME NEW S, NEW s \in Seq(S), NEW I
    PROVE  /\ Pick(s, I) \in Seq(S)
           /\ \A j \in 1..Len(Pick(s, I)) : \E i \in I \cap 1..Len(s) : Pick(s, I)[j] = s[i]
<1>1. Len(s) \in 0..Len(s)
  OBVIOUS
<1>2. Pick(s, I) \in Seq(S)
  BY <1>1, PickedDef DEF Pick
<1>3. Elements(Pick(s, I)) = {s[i] : i \in I \cap 1..Len(s)}
  BY <1>1, PickedElements DEF Pick
<1> QED BY <1>2, <1>3 DEF Elements

\* Concatenation under a name of its own, for equations the provers need not
\* look into.
Cat(p, q) == p \o q

\* Concatenation is associative, with the empty sequence as its unit.
LEMMA CatLaws ==
    ASSUME NEW S
    PROVE  /\ \A p, q \in Seq(S) : Cat(p, q) \in Seq(S)
           /\ \A p, q, r \in Seq(S) : Cat(Cat(p, q), r) = Cat(p, Cat(q, r))
           /\ \A p \in Seq(S) : Cat(p, <<>>) = p /\ Cat(<<>>, p) = p
<1>1. \A p, q \in Seq(S) : Cat(p, q) \in Seq(S)
  BY DEF Cat
<1>2. ASSUME NEW p \in Seq(S), NEW q \in Seq(S), NEW r \in Seq(S)
      PROVE  Cat(Cat(p, q), r) = Cat(p, Cat(q, r))
  <2>1. p \o q \in Seq(S) /\ q \o r \in Seq(S)
    OBVIOUS
  <2> QED BY <2>1 DEF Cat
<1>3. \A p \in Seq(S) : Cat(p, <<>>) = p /\ Cat(<<>>, p) = p
  BY DEF Cat
<1> QED BY <1>1, <1>2, <1>3

\* Sequences with the same elements at the same positions.
LEMMA CatIs ==
    ASSUME NEW S, NEW a \in Seq(S), NEW b \in Seq(S), NEW v \in Seq(S),
           Len(v) = Len(a) + Len(b),
           \A i \in 1..Len(a) : v[i] = a[i],
           \A i \in 1..Len(b) : v[Len(a) + i] = b[i]
    PROVE  v = Cat(a, b)
<1> DEFINE u == a \o b
<1>1. /\ u \in Seq(S) /\ Len(u) = Len(v) /\ Len(a) \in Nat /\ Len(b) \in Nat
      /\ \A i \in 1..Len(a) : u[i] = a[i]
      /\ \A i \in 1..Len(b) : u[Len(a) + i] = b[i]
  OBVIOUS
<1> HIDE DEF u
<1>2. ASSUME NEW i \in 1..Len(v) PROVE v[i] = u[i]
  <2>1. CASE i <= Len(a)
    BY <1>1, <2>1
  <2>2. CASE i > Len(a)
    <3>1. i - Len(a) \in 1..Len(b) /\ Len(a) + (i - Len(a)) = i
      BY <1>1, <2>2
    <3> QED BY <1>1, <3>1
  <2> QED BY <1>1, <2>1, <2>2
<1>3. v = u
  BY <1>1, <1>2
<1> QED BY <1>3 DEF u, Cat

\* An element at the end, and one at the front.
LEMMA AppendLaws ==
    ASSUME NEW S
    PROVE  /\ \A e \in S : <<e>> \in Seq(S)
           /\ \A p \in Seq(S), e \in S : Append(p, e) = Cat(p, <<e>>)
           /\ \A p \in Seq(S) : p # <<>> =>
                /\ p = Cat(<<Head(p)>>, Tail(p)) /\ Head(p) \in S /\ Tail(p) \in Seq(S)
<1>2. ASSUME NEW p \in Seq(S), NEW e \in S PROVE Append(p, e) = Cat(p, <<e>>)
  BY DEF Cat
<1>3. ASSUME NEW p \in Seq(S), p # <<>>
      PROVE  p = Cat(<<Head(p)>>, Tail(p)) /\ Head(p) \in S /\ Tail(p) \in Seq(S)
  BY <1>3 DEF Cat
<1> QED BY <1>2, <1>3

\* Appending to a concatenation appends to its second part.
LEMMA AppendCat ==
    ASSUME NEW S, NEW p \in Seq(S), NEW q \in Seq(S), NEW e \in S
    PROVE  Append(Cat(p, q), e) = Cat(p, Append(q, e))
<1>1. p \o q \in Seq(S) /\ Append(q, e) \in Seq(S)
  OBVIOUS
<1> QED BY <1>1 DEF Cat

\* Pick goes through a sequence part by part.
LEMMA PickConcat ==
    ASSUME NEW S, NEW s \in Seq(S), NEW r \in Seq(S), NEW I, NEW J, NEW K,
           \A i \in 1..Len(s) : i \in I <=> i \in J,
           \A i \in 1..Len(r) : Len(s) + i \in I <=> i \in K
    PROVE  Pick(Cat(s, r), I) = Cat(Pick(s, J), Pick(r, K))
<1> DEFINE u == Cat(s, r)
<1>1. /\ u \in Seq(S) /\ Len(u) = Len(s) + Len(r) /\ Len(s) \in Nat /\ Len(r) \in Nat
      /\ \A i \in 1..Len(s) : u[i] = s[i] /\ s[i] \in S
      /\ \A i \in 1..Len(r) : u[Len(s) + i] = r[i] /\ r[i] \in S
  BY DEF Cat
<1> HIDE DEF u
<1> DEFINE p == Picked(u, I)
<1> DEFINE a == Picked(s, J)
<1> DEFINE b == Picked(r, K)
<1>2. /\ p \in [0..Len(u) -> Seq(S)] /\ p[0] = <<>>
      /\ \A i \in 1..Len(u) : p[i] = IF i \in I THEN Append(p[i - 1], u[i]) ELSE p[i - 1]
  <2>1. u \in Seq(S)
    BY <1>1
  <2> QED BY <2>1, PickedDef
<1>3. /\ a \in [0..Len(s) -> Seq(S)] /\ a[0] = <<>>
      /\ \A i \in 1..Len(s) : a[i] = IF i \in J THEN Append(a[i - 1], s[i]) ELSE a[i - 1]
  BY PickedDef
<1>4. /\ b \in [0..Len(r) -> Seq(S)] /\ b[0] = <<>>
      /\ \A i \in 1..Len(r) : b[i] = IF i \in K THEN Append(b[i - 1], r[i]) ELSE b[i - 1]
  BY PickedDef
<1> HIDE DEF p, a, b
<1>5. p[Len(s)] = a[Len(s)]
  <2> DEFINE T == {k \in 0..Len(s) : p[k] = a[k]}
  <2>1. 0 \in T
    BY <1>1, <1>2, <1>3
  <2>2. ASSUME NEW k \in 0..Len(s), k \in T, k < Len(s) PROVE k + 1 \in T
    <3>1. k + 1 \in 1..Len(s) /\ k + 1 \in 1..Len(u) /\ (k + 1) - 1 = k
      BY <1>1, <2>2
    <3>2. p[k + 1] = IF k + 1 \in I THEN Append(p[k], u[k + 1]) ELSE p[k]
      BY <1>2, <3>1
    <3>3. a[k + 1] = IF k + 1 \in J THEN Append(a[k], s[k + 1]) ELSE a[k]
      BY <1>3, <3>1
    <3>4. p[k] = a[k] /\ u[k + 1] = s[k + 1] /\ (k + 1 \in I <=> k + 1 \in J)
      BY <1>1, <2>2, <3>1
    <3>5. p[k + 1] = a[k + 1]
      BY <3>2, <3>3, <3>4, Zenon
    <3> QED BY <3>1, <3>5
  <2>3. 0..Len(s) \subseteq T
    <3> HIDE DEF T
    <3> QED BY <1>1, <2>1, <2>2, InductUpTo
  <2> QED BY <1>1, <2>3
<1>6. p[Len(s) + Len(r)] = Cat(a[Len(s)], b[Len(r)])
  <2> DEFINE head == a[Len(s)]
  <2>0. head \in Seq(S)
    <3>1. Len(s) \in 0..Len(s)
      BY <1>1
    <3> QED BY <1>3, <3>1
  <2> DEFINE T == {k \in 0..Len(r) : p[Len(s) + k] = Cat(head, b[k])}
  <2>1. 0 \in T
    <3>1. Cat(head, <<>>) = head /\ Len(s) + 0 = Len(s)
      <4>1. Cat(head, <<>>) = head
        BY <2>0, CatLaws, Zenon
      <4> QED BY <1>1, <4>1
    <3>2. p[Len(s) + 0] = Cat(head, b[0])
      BY <1>4, <1>5, <3>1
    <3>3. 0 \in 0..Len(r)
      BY <1>1
    <3> QED BY <3>2, <3>3, Zenon
  <2> HIDE DEF head
  <2>2. ASSUME NEW k \in 0..Len(r), k \in T, k < Len(r) PROVE k + 1 \in T
    <3>1. /\ k + 1 \in 1..Len(r) /\ Len(s) + (k + 1) \in 1..Len(u) /\ (k + 1) - 1 = k
          /\ (Len(s) + (k + 1)) - 1 = Len(s) + k
      BY <1>1, <2>2
    <3> DEFINE m == Len(s) + (k + 1)
    <3>2. p[m] = IF m \in I THEN Append(p[Len(s) + k], u[m]) ELSE p[Len(s) + k]
      BY <1>2, <3>1
    <3>3. b[k + 1] = IF k + 1 \in K THEN Append(b[k], r[k + 1]) ELSE b[k]
      BY <1>4, <3>1
    <3>4. p[Len(s) + k] = Cat(head, b[k]) /\ u[m] = r[k + 1] /\ (m \in I <=> k + 1 \in K)
      BY <1>1, <2>2, <3>1
    <3>5. Append(Cat(head, b[k]), r[k + 1]) = Cat(head, Append(b[k], r[k + 1]))
      <4>1. b[k] \in Seq(S) /\ r[k + 1] \in S
        BY <1>1, <1>4, <3>1
      <4>2. PICK h \in Seq(S), q \in Seq(S), e \in S : h = head /\ q = b[k] /\ e = r[k + 1]
        BY <2>0, <4>1, Zenon
      <4>3. Append(Cat(h, q), e) = Cat(h, Append(q, e))
        BY AppendCat
      <4> QED BY <4>2, <4>3
    <3>6. p[m] = Cat(head, b[k + 1])
      BY <3>2, <3>3, <3>4, <3>5, Zenon
    <3> QED BY <3>1, <3>6
  <2>3. 0..Len(r) \subseteq T
    <3> HIDE DEF T
    <3> QED BY <1>1, <2>1, <2>2, InductUpTo
  <2>4. Len(r) \in T
    BY <1>1, <2>3
  <2> QED BY <2>4 DEF head
<1> QED BY <1>1, <1>6 DEF Pick, p, a, b, u

\* Every position, and none.
LEMMA PickAllOrNone ==
    ASSUME NEW S, NEW s \in Seq(S), NEW I
    PROVE  /\ (\A i \in 1..Len(s) : i \in I) => Pick(s, I) = s
           /\ (\A i \in 1..Len(s) : i \notin I) => Pick(s, I) = <<>>
<1> DEFINE p == Picked(s, I)
<1>1. /\ p \in [0..Len(s) -> Seq(S)] /\ p[0] = <<>> /\ Len(s) \in Nat
      /\ \A i \in 1..Len(s) : p[i] = IF i \in I THEN Append(p[i - 1], s[i]) ELSE p[i - 1]
  BY PickedDef
<1> HIDE DEF p
<1>2. ASSUME \A i \in 1..Len(s) : i \in I PROVE p[Len(s)] = s
  <2> DEFINE T == {k \in 0..Len(s) : Len(p[k]) = k /\ \A j \in 1..k : p[k][j] = s[j]}
  <2>1. 0 \in T
    BY <1>1
  <2>2. ASSUME NEW k \in 0..Len(s), k \in T, k < Len(s) PROVE k + 1 \in T
    <3>1. k + 1 \in 1..Len(s) /\ k + 1 \in 0..Len(s) /\ (k + 1) - 1 = k
      BY <1>1, <2>2
    <3>2. p[k + 1] = Append(p[k], s[k + 1]) /\ p[k] \in Seq(S) /\ s[k + 1] \in S
      <4>1. p[k + 1] = Append(p[k], s[k + 1])
        BY <1>1, <1>2, <3>1
      <4>2. p[k] \in Seq(S)
        BY <1>1
      <4>3. s[k + 1] \in S
        BY <3>1
      <4> QED BY <4>1, <4>2, <4>3
    <3>3. Len(p[k]) = k /\ \A j \in 1..k : p[k][j] = s[j]
      BY <2>2
    <3>4. Len(p[k + 1]) = k + 1
      BY <3>2, <3>3
    <3>5. \A j \in 1..k + 1 : p[k + 1][j] = s[j]
      BY <3>2, <3>3
    <3> QED BY <3>1, <3>4, <3>5
  <2>3. 0..Len(s) \subseteq T
    <3> HIDE DEF T
    <3> QED BY <1>1, <2>1, <2>2, InductUpTo
  <2>4. Len(p[Len(s)]) = Len(s) /\ \A j \in 1..Len(s) : p[Len(s)][j] = s[j]
    BY <1>1, <2>3
  <2>5. p[Len(s)] \in Seq(S)
    BY <1>1
  <2> QED BY <2>4, <2>5
<1>3. ASSUME \A i \in 1..Len(s) : i \notin I PROVE p[Len(s)] = <<>>
  <2> DEFINE T == {k \in 0..Len(s) : p[k] = <<>>}
  <2>1. 0 \in T
    BY <1>1
  <2>2. ASSUME NEW k \in 0..Len(s), k \in T, k < Len(s) PROVE k + 1 \in T
    <3>1. k + 1 \in 1..Len(s) /\ k + 1 \in 0..Len(s) /\ (k + 1) - 1 = k
      BY <1>1, <2>2
    <3> QED BY <1>1, <1>3, <2>2, <3>1
  <2>3. 0..Len(s) \subseteq T
    <3> HIDE DEF T
    <3> QED BY <1>1, <2>1, <2>2, InductUpTo
  <2> QED BY <1>1, <2>3
<1> QED BY <1>2, <1>3 DEF Pick, p
=============================================================================
