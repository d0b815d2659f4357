----------------------- MODULE CamelImapxServerProofs -----------------------
(***************************************************************************)
(* Theorems about CamelImapxServer for any jobs, folders and MAX_COMMANDS. *)
(* The invariant says what the stream holds and what the server will do    *)
(* with it, from the place where the parser thread is: as long as it reads,*)
(* client and server are Connected, afterwards they are Disconnected.      *)
(* A second invariant, AnswerInv, says that what each job knows of itself  *)
(* agrees with its outstanding commands and with those carried out.        *)
(***************************************************************************)
EXTENDS CamelImapxServer, FiniteSetTheorems, SequenceTheorems, WellFoundedInduction, TLAPS

-----------------------------------------------------------------------------
(* Numbers and sequences.                                                  *)

\* A set of numbers has a smallest one.
LEMMA LeastIs ==
  ASSUME NEW S \in SUBSET Nat, S # {}
  PROVE  \E x \in S : \A y \in S : x <= y
<1> DEFINE R == {ss \in Nat \X Nat : ss[1] < ss[2]}
<1>1. IsWellFoundedOn(R, Nat)
  BY NatLessThanWellFounded, Zenon DEF OpToRel
<1>2. PICK x \in S : \A y \in S : <<y, x>> \notin R
  BY <1>1, WFMin
<1>3. ASSUME NEW y \in S  PROVE x <= y
  <2>1. <<y, x>> \in Nat \X Nat /\ <<y, x>> \notin R /\ x \in Nat /\ y \in Nat
    BY <1>2
  <2>2. ~(y < x)
    BY <2>1
  <2>3. QED  BY <2>1, <2>2
<1>4. QED  BY <1>3

\* Any set of positions of a sequence is finite.
LEMMA PositionsFinite ==
  ASSUME NEW n \in Nat, NEW P \in SUBSET (1..n)
  PROVE  IsFiniteSet(P) /\ Cardinality(P) \in Nat
<1>1. IsFiniteSet(1..n)
  BY FS_Interval
<1>2. IsFiniteSet(P)
  BY <1>1, FS_Subset
<1>3. QED  BY <1>2, FS_CardinalityType

Ordered(f) == \A i, k \in DOMAIN f : i < k => f[i] < f[k]

\* Positions can be put in order: the first one goes before the others.
LEMMA OrderExists ==
  ASSUME NEW n \in Nat
  PROVE  \A P \in SUBSET (1..n) : \E f \in [1..Cardinality(P) -> P] : Ordered(f)
<1> DEFINE Has(P) == \E f \in [1..Cardinality(P) -> P] : Ordered(f)
           Sizes == {m \in Nat : \E P \in SUBSET (1..n) : Cardinality(P) = m /\ ~Has(P)}
<1>1. SUFFICES ASSUME Sizes # {}  PROVE FALSE
  BY PositionsFinite
<1>2. PICK m \in Sizes : \A l \in Sizes : m <= l
  BY <1>1, LeastIs
<1>3. PICK P \in SUBSET (1..n) : Cardinality(P) = m /\ ~Has(P)
  BY <1>2
<1>4. CASE P = {}
  <2>1. Cardinality(P) = 0
    BY <1>4, FS_EmptySet
  <2>2. [i \in 1..0 |-> 0] \in [1..Cardinality(P) -> P] /\ Ordered([i \in 1..0 |-> 0])
    BY <2>1 DEF Ordered
  <2>3. QED  BY <1>3, <2>2
<1>5. CASE P # {}
  <2>1. PICK u \in P : \A x \in P : u <= x
    BY <1>5, LeastIs
  <2> DEFINE T == P \ {u}
  <2>2. T \in SUBSET (1..n) /\ Cardinality(T) = m - 1 /\ Cardinality(T) \in Nat /\ m \in Nat
    BY <1>3, <2>1, PositionsFinite, FS_RemoveElement
  <2>3. m - 1 \notin Sizes
    BY <1>2, <2>2
  <2>4. PICK t \in [1..Cardinality(T) -> T] : Ordered(t)
    BY <2>2, <2>3
  <2> DEFINE f == [i \in 1..m |-> IF i = 1 THEN u ELSE t[i - 1]]
  <2>5. \A i \in 2..m : i - 1 \in 1..(m - 1) /\ t[i - 1] \in P /\ u < t[i - 1]
    <3>1. ASSUME NEW i \in 2..m  PROVE i - 1 \in 1..(m - 1) /\ t[i - 1] \in P /\ u < t[i - 1]
      <4>1. i - 1 \in 1..(m - 1)
        BY <2>2
      <4>2. t[i - 1] \in P /\ t[i - 1] # u
        BY <2>2, <2>4, <4>1
      <4>3. u <= t[i - 1] /\ u \in Nat /\ t[i - 1] \in Nat
        <5>1. \A x \in P : x \in Nat
          OBVIOUS
        <5>2. QED  BY <2>1, <4>2, <5>1
      <4>4. QED  BY <4>1, <4>2, <4>3
    <3>2. QED  BY <3>1
  <2>6. f \in [1..m -> P]
    <3>1. ASSUME NEW i \in 1..m  PROVE f[i] \in P
      <4>1. CASE i = 1
        BY <2>1, <4>1
      <4>2. CASE i # 1
        <5>1. i \in 2..m
          BY <2>2, <4>2
        <5>2. f[i] = t[i - 1]
          BY <4>2
        <5>3. QED  BY <2>5, <5>1, <5>2
      <4>3. QED  BY <4>1, <4>2
    <3>2. f \in [1..m -> P]
      BY <3>1
    <3>3. QED  BY <3>2
  <2>7. ASSUME NEW i \in 1..m, NEW k \in 1..m, i < k  PROVE f[i] < f[k]
    <3>1. k \in 2..m /\ f[k] = t[k - 1]
      BY <2>2, <2>7
    <3>2. CASE i = 1
      BY <2>5, <3>1, <3>2
    <3>3. CASE i # 1
      <4>1. i \in 2..m /\ f[i] = t[i - 1] /\ i - 1 < k - 1
        BY <2>2, <2>7, <3>3
      <4>2. i - 1 \in DOMAIN t /\ k - 1 \in DOMAIN t
        BY <2>2, <2>4, <2>5, <3>1, <4>1
      <4>3. QED  BY <2>4, <3>1, <4>1, <4>2 DEF Ordered
    <3>4. QED  BY <3>2, <3>3
  <2>8. Ordered(f)
    BY <2>7 DEF Ordered
  <2>9. QED  BY <1>3, <2>6, <2>8
<1>6. QED  BY <1>4, <1>5

\* What Order returns: the positions, each once, the first ones first.
LEMMA OrderIs ==
  ASSUME NEW n \in Nat, NEW P \in SUBSET (1..n)
  PROVE  /\ Order(P) \in [1..Cardinality(P) -> P] /\ Cardinality(P) \in Nat
         /\ \A i, k \in 1..Cardinality(P) : Order(P)[i] = Order(P)[k] => i = k
         /\ \A x \in P : \E i \in 1..Cardinality(P) : Order(P)[i] = x
         /\ \A i, k \in 1..Cardinality(P) : i < k => Order(P)[i] < Order(P)[k]
<1> DEFINE m == Cardinality(P)
           f == Order(P)
<1>1. m \in Nat /\ IsFiniteSet(P)
  BY PositionsFinite
<1>2. f \in [1..m -> P] /\ \A i, k \in 1..m : i < k => f[i] < f[k]
  <2>1. PICK g \in [1..m -> P] : Ordered(g)
    BY OrderExists
  <2>2. \A i, k \in 1..m : i < k => g[i] < g[k]
    BY <2>1 DEF Ordered
  <2>3. QED  BY <2>2 DEF Order
<1> HIDE DEF m, f
<1>3. \A i, k \in 1..m : f[i] = f[k] => i = k
  <2>1. ASSUME NEW i \in 1..m, NEW k \in 1..m, f[i] = f[k], i # k  PROVE FALSE
    <3>1. f[i] \in Int /\ f[k] \in Int /\ i \in Nat /\ k \in Nat
      <4>1. f[i] \in P /\ f[k] \in P
        BY <1>2, <2>1
      <4>2. \A x \in P : x \in Int
        OBVIOUS
      <4>3. f[i] \in Int /\ f[k] \in Int
        BY <4>1, <4>2
      <4>4. QED  BY <1>1, <4>3
    <3>2. i < k \/ k < i
      BY <2>1, <3>1
    <3>3. QED  BY <1>2, <2>1, <3>1, <3>2
  <2>2. QED  BY <2>1
<1>4. f \in Injection(1..m, P)
  BY <1>2, <1>3 DEF Injection, IsInjective
<1>5. Cardinality(1..m) = Cardinality(P)
  BY <1>1, FS_Interval DEF m
<1>6. f \in Surjection(1..m, P)
  BY <1>1, <1>4, <1>5, FS_Injection
<1>7. \A x \in P : \E i \in 1..m : f[i] = x
  BY <1>2, <1>6 DEF Surjection
<1>8. QED  BY <1>1, <1>2, <1>3, <1>7 DEF m, f

\* What is kept of a sequence are the entries at the positions; the last one is
\* the only one that has none behind it.
LEMMA KeepIs ==
  ASSUME NEW X, NEW q \in Seq(X), NEW P \in SUBSET DOMAIN q
  PROVE  /\ Keep(q, P) \in Seq(X)
         /\ \A i \in P : q[i] \in Range(Keep(q, P))
         /\ \A x \in Range(Keep(q, P)) : \E i \in P : x = q[i]
         /\ IsInjective(q) => IsInjective(Keep(q, P))
         /\ \A i \in DOMAIN Keep(q, P) :
              \E k \in P : /\ Keep(q, P)[i] = q[k]
                           /\ i # Len(Keep(q, P)) => \E l \in P : k < l
<1> DEFINE m == Cardinality(P)
           f == Order(P)
           r == Keep(q, P)
<1>1. Len(q) \in Nat /\ DOMAIN q = 1..Len(q) /\ \A i \in DOMAIN q : q[i] \in X
  OBVIOUS
<1>2. /\ f \in [1..m -> P] /\ m \in Nat
      /\ \A i, k \in 1..m : f[i] = f[k] => i = k
      /\ \A x \in P : \E i \in 1..m : f[i] = x
      /\ \A i, k \in 1..m : i < k => f[i] < f[k]
  BY <1>1, OrderIs
<1>3. r = [i \in 1..m |-> q[f[i]]]
  BY DEF Keep
<1> HIDE DEF m, f, r
<1>4. \A i \in 1..m : f[i] \in P /\ r[i] = q[f[i]] /\ q[f[i]] \in X
  BY <1>1, <1>2, <1>3
<1>5. r \in Seq(X) /\ Len(r) = m /\ DOMAIN r = 1..m
  BY <1>2, <1>3, <1>4
<1>6. (\A i \in P : q[i] \in Range(r)) /\ \A x \in Range(r) : \E i \in P : x = q[i]
  <2>1. ASSUME NEW x \in Range(r)  PROVE \E i \in P : x = q[i]
    BY <1>4, <1>5 DEF Range
  <2>2. ASSUME NEW i \in P  PROVE q[i] \in Range(r)
    <3>1. PICK k \in 1..m : f[k] = i
      BY <1>2
    <3>2. r[k] = q[i] /\ k \in DOMAIN r
      BY <1>4, <1>5, <3>1
    <3>3. QED  BY <3>2 DEF Range
  <2>3. QED  BY <2>1, <2>2
<1>7. ASSUME IsInjective(q)  PROVE IsInjective(r)
  <2>1. ASSUME NEW i \in 1..m, NEW k \in 1..m, r[i] = r[k]  PROVE i = k
    <3>1. q[f[i]] = q[f[k]] /\ f[i] \in DOMAIN q /\ f[k] \in DOMAIN q
      BY <1>4, <2>1
    <3>2. QED  BY <1>2, <1>7, <3>1 DEF IsInjective
  <2>2. QED  BY <1>5, <2>1 DEF IsInjective
<1>8. ASSUME NEW i \in DOMAIN r  PROVE \E k \in P : r[i] = q[k] /\ (i # Len(r) => \E l \in P : k < l)
  <2>1. f[i] \in P /\ r[i] = q[f[i]]
    BY <1>4, <1>5
  <2>2. ASSUME i # Len(r)  PROVE \E l \in P : f[i] < l
    <3>1. i \in 1..m /\ i + 1 \in 1..m /\ i < i + 1
      BY <1>2, <1>5, <2>2
    <3>2. f[i] < f[i + 1] /\ f[i + 1] \in P
      BY <1>2, <1>4, <3>1
    <3>3. QED  BY <3>2
  <2>3. QED  BY <2>1, <2>2
<1>9. QED  BY <1>5, <1>6, <1>7, <1>8 DEF r

\* A sequence with one more element: its length, elements and domain.
LEMMA AppendIs ==
  ASSUME NEW X, NEW q \in Seq(X), NEW c \in X
  PROVE  /\ Append(q, c) \in Seq(X) /\ Len(Append(q, c)) = Len(q) + 1 /\ Len(q) \in Nat
         /\ DOMAIN Append(q, c) = 1..(Len(q) + 1) /\ DOMAIN q = 1..Len(q)
         /\ \A i \in DOMAIN q : i \in DOMAIN Append(q, c) /\ Append(q, c)[i] = q[i]
         /\ Append(q, c)[Len(q) + 1] = c
         /\ Range(Append(q, c)) = Range(q) \cup {c}
         /\ IsInjective(q) /\ c \notin Range(q) => IsInjective(Append(q, c))
<1> DEFINE r == Append(q, c)
<1>1. /\ r \in Seq(X) /\ Len(r) = Len(q) + 1 /\ Len(q) \in Nat
      /\ DOMAIN r = 1..(Len(q) + 1) /\ DOMAIN q = 1..Len(q)
      /\ \A i \in 1..Len(q) : i \in DOMAIN r /\ r[i] = q[i]
      /\ r[Len(q) + 1] = c
  BY AppendProperties
<1> HIDE DEF r
<1>2. \A i \in DOMAIN r : i \in DOMAIN q \/ i = Len(q) + 1
  BY <1>1
<1>3. Len(q) + 1 \in DOMAIN r
  BY <1>1
<1>4. Range(r) = Range(q) \cup {c}
  BY <1>1, <1>2, <1>3 DEF Range
<1>5. ASSUME IsInjective(q), c \notin Range(q)  PROVE IsInjective(r)
  BY <1>1, <1>2, <1>5 DEF IsInjective, Range
<1>6. QED  BY <1>1, <1>4, <1>5 DEF r

\* Two sequences in a row, likewise.
LEMMA ConcatIs ==
  ASSUME NEW X, NEW q \in Seq(X), NEW t \in Seq(X)
  PROVE  /\ q \o t \in Seq(X) /\ Len(q \o t) = Len(q) + Len(t) /\ Len(q) \in Nat /\ Len(t) \in Nat
         /\ \A i \in DOMAIN (q \o t) : \/ i \in DOMAIN q /\ (q \o t)[i] = q[i]
                                       \/ /\ i \in Int /\ i > Len(q) /\ i - Len(q) \in DOMAIN t
                                          /\ (q \o t)[i] = t[i - Len(q)]
         /\ Range(q \o t) = Range(q) \cup Range(t)
         /\ IsInjective(q) /\ IsInjective(t) /\ Range(q) \cap Range(t) = {} => IsInjective(q \o t)
<1> DEFINE r == q \o t
           n == Len(q)
           m == Len(t)
<1>1. /\ r \in Seq(X) /\ Len(r) = n + m /\ n \in Nat /\ m \in Nat
      /\ DOMAIN r = 1..(n + m) /\ DOMAIN q = 1..n /\ DOMAIN t = 1..m
      /\ \A i \in 1..(n + m) : r[i] = IF i <= n THEN q[i] ELSE t[i - n]
  BY ConcatProperties
<1> HIDE DEF r, n, m
<1>2. \A i \in DOMAIN r : \/ i \in DOMAIN q /\ r[i] = q[i]
                          \/ i \in Int /\ i > n /\ i - n \in DOMAIN t /\ r[i] = t[i - n]
  BY <1>1
<1>3. ASSUME NEW i \in DOMAIN q  PROVE i \in DOMAIN r /\ r[i] = q[i]
  BY <1>1
<1>4. ASSUME NEW i \in DOMAIN t  PROVE n + i \in DOMAIN r /\ r[n + i] = t[i]
  <2>1. n + i \in 1..(n + m) /\ ~(n + i <= n) /\ (n + i) - n = i
    BY <1>1
  <2>2. QED  BY <1>1, <2>1
<1>5. Range(r) = Range(q) \cup Range(t)
  BY <1>2, <1>3, <1>4 DEF Range
<1>6. ASSUME IsInjective(q), IsInjective(t), Range(q) \cap Range(t) = {},
             NEW i \in DOMAIN r, NEW k \in DOMAIN r, r[i] = r[k]
      PROVE  i = k
  <2>1. \A l \in DOMAIN r : l \in Nat
    BY <1>1
  <2>2. CASE i \in DOMAIN q /\ r[i] = q[i]
    <3>1. r[i] \in Range(q)
      BY <2>2 DEF Range
    <3>2. k \in DOMAIN q /\ r[k] = q[k]
      BY <1>2, <1>6, <3>1 DEF Range
    <3>3. QED  BY <1>6, <2>2, <3>2 DEF IsInjective
  <2>3. CASE i \in Int /\ i - n \in DOMAIN t /\ r[i] = t[i - n]
    <3> DEFINE a == i - n
               b == k - n
    <3>1. a \in DOMAIN t /\ r[i] = t[a]
      BY <2>3
    <3>2. k \in Int /\ b \in DOMAIN t /\ r[k] = t[b]
      BY <1>2, <1>6, <3>1 DEF Range
    <3>3. a = b
      <4> HIDE DEF a, b
      <4>1. QED  BY <1>6, <3>1, <3>2 DEF IsInjective
    <3>4. QED  BY <1>1, <2>3, <3>2, <3>3
  <2>4. QED  BY <1>2, <1>6, <2>2, <2>3
<1>7. IsInjective(q) /\ IsInjective(t) /\ Range(q) \cap Range(t) = {} => IsInjective(r)
  BY <1>6 DEF IsInjective
<1>8. QED  BY <1>1, <1>2, <1>5, <1>7 DEF r, n, m

\* A sequence without its first element.
LEMMA TailIs ==
  ASSUME NEW X, NEW q \in Seq(X), q # <<>>
  PROVE  /\ Tail(q) \in Seq(X) /\ 1 \in DOMAIN q /\ Head(q) = q[1] /\ q[1] \in X
         /\ Len(Tail(q)) = Len(q) - 1
         /\ \A i \in DOMAIN Tail(q) : i + 1 \in DOMAIN q /\ Tail(q)[i] = q[i + 1] /\ i \in Nat \ {0}
         /\ Range(q) = {q[1]} \cup Range(Tail(q))
         /\ IsInjective(q) => IsInjective(Tail(q)) /\ q[1] \notin Range(Tail(q))
<1> DEFINE r == Tail(q)
           n == Len(q)
<1>1. /\ r \in Seq(X) /\ Len(r) = n - 1 /\ n \in Nat \ {0} /\ DOMAIN q = 1..n
      /\ DOMAIN r = 1..(n - 1) /\ \A i \in 1..(n - 1) : r[i] = q[i + 1]
  BY HeadTailProperties
<1>2. \A i \in DOMAIN q : q[i] \in X
  OBVIOUS
<1>0. Head(q) = q[1]
  OBVIOUS
<1> HIDE DEF r, n
<1>3. 1 \in DOMAIN q /\ Head(q) = q[1] /\ q[1] \in X
  BY <1>1, <1>2, <1>0
<1>4. ASSUME NEW i \in DOMAIN r  PROVE i + 1 \in DOMAIN q /\ r[i] = q[i + 1] /\ i \in Nat \ {0} /\ i + 1 # 1
  BY <1>1
<1>5. ASSUME NEW i \in DOMAIN q, i # 1  PROVE i - 1 \in DOMAIN r /\ r[i - 1] = q[i]
  <2>1. i - 1 \in 1..(n - 1) /\ (i - 1) + 1 = i
    BY <1>1, <1>5
  <2>2. QED  BY <1>1, <2>1
<1>6. Range(q) = {q[1]} \cup Range(r)
  BY <1>3, <1>4, <1>5 DEF Range
<1>7. ASSUME IsInjective(q)  PROVE IsInjective(r) /\ q[1] \notin Range(r)
  <2>1. q[1] \notin Range(r)
    BY <1>3, <1>4, <1>7 DEF Range, IsInjective
  <2>2. ASSUME NEW i \in DOMAIN r, NEW k \in DOMAIN r, r[i] = r[k]  PROVE i = k
    <3>1. i + 1 = k + 1
      BY <1>4, <1>7, <2>2 DEF IsInjective
    <3>2. QED  BY <1>4, <3>1
  <2>3. QED  BY <2>1, <2>2 DEF IsInjective
<1>8. QED  BY <1>1, <1>3, <1>4, <1>6, <1>7 DEF r, n

\* A sequence with an element put in at a place.
LEMMA InsertAtIs ==
  ASSUME NEW X, NEW q \in Seq(X), NEW i \in DOMAIN q, NEW c \in X
  PROVE  \E r \in Seq(X) :
           /\ r = InsertAt(q, i, c) /\ Len(q) \in Nat /\ Len(r) = Len(q) + 1
           /\ \A k \in 1..(Len(q) + 1) : r[k] = IF k < i THEN q[k] ELSE IF k = i THEN c ELSE q[k - 1]
<1>1. Len(q) \in Nat /\ i \in 1..Len(q) /\ \A k \in 1..Len(q) : q[k] \in X
  OBVIOUS
<1>2. PICK u : u = SubSeq(q, 1, i - 1)
  OBVIOUS
<1>3. PICK v : v = SubSeq(q, i, Len(q))
  OBVIOUS
<1>4. u \in Seq(X) /\ Len(u) = i - 1 /\ \A k \in 1..(i - 1) : u[k] = q[k]
  BY <1>1, <1>2
<1>5. v \in Seq(X) /\ Len(v) = Len(q) - i + 1 /\ \A k \in 1..(Len(q) - i + 1) : v[k] = q[i + k - 1]
  BY <1>1, <1>3
<1>6. PICK w : w = u \o <<c>>
  OBVIOUS
<1>7. w \in Seq(X) /\ Len(w) = i /\ (\A k \in 1..(i - 1) : w[k] = q[k]) /\ w[i] = c
  BY <1>1, <1>4, <1>6
<1>8. PICK r : r = w \o v
  OBVIOUS
<1>0. w \in Seq(X) /\ v \in Seq(X) /\ Len(w) \in Nat /\ Len(v) \in Nat
  BY <1>5, <1>7
<1>9. /\ r \in Seq(X) /\ Len(r) = Len(w) + Len(v)
      /\ \A k \in 1..(Len(w) + Len(v)) : r[k] = IF k <= Len(w) THEN w[k] ELSE v[k - Len(w)]
  BY <1>8, <1>0, ConcatProperties
<1>10. Len(r) = Len(q) + 1
  BY <1>1, <1>5, <1>7, <1>9
<1>11. ASSUME NEW k \in 1..(Len(q) + 1)  PROVE r[k] = IF k < i THEN q[k] ELSE IF k = i THEN c ELSE q[k - 1]
  <2>1. CASE k <= i
    <3>1. k \in 1..Len(w) /\ (k < i => k \in 1..(i - 1))
      BY <1>1, <1>7, <2>1
    <3>2. r[k] = w[k]
      <4>1. k \in 1..(Len(w) + Len(v)) /\ k <= Len(w)
        BY <1>0, <3>1
      <4>2. QED  BY <1>9, <4>1
    <3>3. QED  BY <1>1, <1>7, <2>1, <3>1, <3>2
  <2>2. CASE ~(k <= i)
    <3>1. k - i \in 1..Len(v) /\ i + (k - i) - 1 = k - 1 /\ ~(k < i) /\ k # i
      BY <1>1, <1>5, <2>2
    <3>2. r[k] = v[k - Len(w)]
      <4>1. k \in 1..(Len(w) + Len(v)) /\ ~(k <= Len(w))
        BY <1>1, <1>5, <1>7, <2>2
      <4>2. QED  BY <1>9, <4>1
    <3>3. r[k] = v[k - i] /\ v[k - i] = q[i + (k - i) - 1]
      BY <1>5, <1>7, <3>1, <3>2
    <3>4. QED  BY <3>1, <3>3
  <2>3. QED  BY <2>1, <2>2
<1>12. r = InsertAt(q, i, c)
  BY <1>2, <1>3, <1>6, <1>8 DEF InsertAt
<1>13. QED  BY <1>1, <1>9, <1>10, <1>11, <1>12

\* What Insert does to a queue that has no command twice.
LEMMA InsertIs ==
  ASSUME NEW X, NEW q \in Seq(X), NEW i \in DOMAIN q, NEW c \in X
  PROVE  /\ InsertAt(q, i, c) \in Seq(X)
         /\ Range(InsertAt(q, i, c)) = Range(q) \cup {c}
         /\ IsInjective(q) /\ c \notin Range(q) => IsInjective(InsertAt(q, i, c))
<1>1. PICK r \in Seq(X) :
           /\ r = InsertAt(q, i, c) /\ Len(q) \in Nat /\ Len(r) = Len(q) + 1
           /\ \A k \in 1..(Len(q) + 1) : r[k] = IF k < i THEN q[k] ELSE IF k = i THEN c ELSE q[k - 1]
  BY InsertAtIs
<1>2. PICK n \in Nat : n = Len(q) /\ DOMAIN q = 1..n /\ DOMAIN r = 1..(n + 1) /\ i \in 1..n
  BY <1>1
<1>3. \A k \in DOMAIN r : \/ k = i /\ r[k] = c
                          \/ k < i /\ k \in DOMAIN q /\ r[k] = q[k]
                          \/ k > i /\ k - 1 \in DOMAIN q /\ r[k] = q[k - 1]
  BY <1>1, <1>2
<1>4. \A k \in DOMAIN q : \/ k < i /\ k \in DOMAIN r /\ r[k] = q[k]
                          \/ k + 1 \in DOMAIN r /\ r[k + 1] = q[k]
  <2>1. ASSUME NEW k \in DOMAIN q, k >= i  PROVE k + 1 \in DOMAIN r /\ r[k + 1] = q[(k + 1) - 1] /\ (k + 1) - 1 = k
    BY <1>1, <1>2, <2>1
  <2>2. QED  BY <1>1, <1>2, <2>1
<1>5. i \in DOMAIN r /\ r[i] = c
  BY <1>1, <1>2
<1>6. Range(r) = Range(q) \cup {c}
  <2>1. \A k \in DOMAIN r : r[k] = c \/ \E l \in DOMAIN q : r[k] = q[l]
    BY <1>3
  <2>2. \A k \in DOMAIN q : \E l \in DOMAIN r : q[k] = r[l]
    BY <1>4
  <2>3. \A x \in Range(r) : x \in Range(q) \cup {c}
    BY <2>1 DEF Range
  <2>4. \A x \in Range(q) : x \in Range(r)
    BY <2>2 DEF Range
  <2>5. c \in Range(r)
    BY <1>5 DEF Range
  <2>6. QED  BY <2>3, <2>4, <2>5
<1>7. ASSUME IsInjective(q), c \notin Range(q), NEW k \in DOMAIN r, NEW l \in DOMAIN r, r[k] = r[l]
      PROVE  k = l
  <2>1. \A e \in DOMAIN q : q[e] # c
    BY <1>7 DEF Range
  <2>2. CASE k = i
    BY <1>3, <1>7, <2>1, <2>2
  <2>3. CASE k < i /\ k \in DOMAIN q /\ r[k] = q[k]
    <3>1. l # i
      BY <1>5, <1>7, <2>1, <2>3
    <3>2. CASE l < i /\ l \in DOMAIN q /\ r[l] = q[l]
      BY <1>7, <2>3, <3>2 DEF IsInjective
    <3>3. CASE l > i /\ l - 1 \in DOMAIN q /\ r[l] = q[l - 1]
      <4>1. k = l - 1
        BY <1>7, <2>3, <3>3 DEF IsInjective
      <4>2. QED  BY <1>2, <2>3, <3>3, <4>1
    <3>4. QED  BY <1>3, <3>1, <3>2, <3>3
  <2>4. CASE k > i /\ k - 1 \in DOMAIN q /\ r[k] = q[k - 1]
    <3>1. l # i
      BY <1>5, <1>7, <2>1, <2>4
    <3>2. CASE l < i /\ l \in DOMAIN q /\ r[l] = q[l]
      <4>1. l = k - 1
        BY <1>7, <2>4, <3>2 DEF IsInjective
      <4>2. QED  BY <1>2, <2>4, <3>2, <4>1
    <3>3. CASE l > i /\ l - 1 \in DOMAIN q /\ r[l] = q[l - 1]
      <4>1. k - 1 = l - 1
        BY <1>7, <2>4, <3>3 DEF IsInjective
      <4>2. QED  BY <1>2, <4>1
    <3>4. QED  BY <1>3, <3>1, <3>2, <3>3
  <2>5. QED  BY <1>3, <2>2, <2>3, <2>4
<1>8. QED  BY <1>1, <1>6, <1>7 DEF IsInjective

\* A sequence without the element of one place.
LEMMA RemoveAtIs ==
  ASSUME NEW X, NEW q \in Seq(X), NEW i \in DOMAIN q
  PROVE  \E r \in Seq(X) :
           /\ r = RemoveAt(q, i) /\ Len(q) \in Nat /\ Len(r) = Len(q) - 1
           /\ \A k \in 1..(Len(q) - 1) : r[k] = IF k < i THEN q[k] ELSE q[k + 1]
<1>1. Len(q) \in Nat /\ i \in 1..Len(q) /\ \A k \in 1..Len(q) : q[k] \in X
  OBVIOUS
<1>2. PICK u : u = SubSeq(q, 1, i - 1)
  OBVIOUS
<1>3. PICK v : v = SubSeq(q, i + 1, Len(q))
  OBVIOUS
<1>4. u \in Seq(X) /\ Len(u) = i - 1 /\ \A k \in 1..(i - 1) : u[k] = q[k]
  BY <1>1, <1>2
<1>5. v \in Seq(X) /\ Len(v) = Len(q) - i /\ \A k \in 1..(Len(q) - i) : v[k] = q[i + k]
  BY <1>1, <1>3
<1>8. PICK r : r = u \o v
  OBVIOUS
<1>0. u \in Seq(X) /\ v \in Seq(X) /\ Len(u) \in Nat /\ Len(v) \in Nat
  BY <1>4, <1>5
<1>9. /\ r \in Seq(X) /\ Len(r) = Len(u) + Len(v)
      /\ \A k \in 1..(Len(u) + Len(v)) : r[k] = IF k <= Len(u) THEN u[k] ELSE v[k - Len(u)]
  BY <1>8, <1>0, ConcatProperties
<1>10. Len(r) = Len(q) - 1
  BY <1>1, <1>4, <1>5, <1>9
<1>11. ASSUME NEW k \in 1..(Len(q) - 1)  PROVE r[k] = IF k < i THEN q[k] ELSE q[k + 1]
  <2>1. CASE k < i
    <3>1. k \in 1..Len(u) /\ k \in 1..(i - 1)
      BY <1>1, <1>4, <2>1
    <3>2. r[k] = u[k]
      <4>1. k \in 1..(Len(u) + Len(v)) /\ k <= Len(u)
        BY <1>0, <3>1
      <4>2. QED  BY <1>9, <4>1
    <3>3. QED  BY <1>4, <2>1, <3>1, <3>2
  <2>2. CASE ~(k < i)
    <3>1. k - (i - 1) \in 1..Len(v) /\ i + (k - (i - 1)) = k + 1
      BY <1>1, <1>5, <2>2
    <3>2. r[k] = v[k - Len(u)]
      <4>1. k \in 1..(Len(u) + Len(v)) /\ ~(k <= Len(u))
        BY <1>1, <1>4, <1>5, <2>2
      <4>2. QED  BY <1>9, <4>1
    <3>3. r[k] = v[k - (i - 1)] /\ v[k - (i - 1)] = q[i + (k - (i - 1))]
      BY <1>4, <1>5, <3>1, <3>2
    <3>4. QED  BY <2>2, <3>1, <3>3
  <2>3. QED  BY <2>1, <2>2
<1>12. r = RemoveAt(q, i)
  BY <1>2, <1>3, <1>8 DEF RemoveAt
<1>13. QED  BY <1>1, <1>9, <1>10, <1>11, <1>12

\* What removing a command does to a queue that has none twice.
LEMMA RemoveIs ==
  ASSUME NEW X, NEW q \in Seq(X), NEW i \in DOMAIN q
  PROVE  /\ RemoveAt(q, i) \in Seq(X) /\ Len(RemoveAt(q, i)) = Len(q) - 1
         /\ \A k \in DOMAIN RemoveAt(q, i) :
              \/ k \in DOMAIN q /\ k < i /\ RemoveAt(q, i)[k] = q[k]
              \/ k + 1 \in DOMAIN q /\ RemoveAt(q, i)[k] = q[k + 1] /\ k \in Nat
         /\ Range(RemoveAt(q, i)) \subseteq Range(q)
         /\ \A c \in Range(q) : c # q[i] => c \in Range(RemoveAt(q, i))
         /\ IsInjective(q) => q[i] \notin Range(RemoveAt(q, i)) /\ IsInjective(RemoveAt(q, i))
<1>1. PICK r \in Seq(X) :
           /\ r = RemoveAt(q, i) /\ Len(q) \in Nat /\ Len(r) = Len(q) - 1
           /\ \A k \in 1..(Len(q) - 1) : r[k] = IF k < i THEN q[k] ELSE q[k + 1]
  BY RemoveAtIs
<1>2. PICK n \in Nat : n = Len(q) /\ DOMAIN q = 1..n /\ DOMAIN r = 1..(n - 1) /\ i \in 1..n
  BY <1>1
<1>3. \A k \in DOMAIN r : \/ k < i /\ k \in DOMAIN q /\ r[k] = q[k]
                          \/ k >= i /\ k + 1 \in DOMAIN q /\ r[k] = q[k + 1] /\ k \in Nat
  BY <1>1, <1>2
<1>4. \A k \in DOMAIN q : \/ k = i
                          \/ k \in DOMAIN r /\ r[k] = q[k]
                          \/ k - 1 \in DOMAIN r /\ r[k - 1] = q[k]
  <2>1. ASSUME NEW k \in DOMAIN q, k > i
        PROVE  k - 1 \in DOMAIN r /\ r[k - 1] = q[(k - 1) + 1] /\ (k - 1) + 1 = k
    BY <1>1, <1>2, <2>1
  <2>2. QED  BY <1>1, <1>2, <2>1
<1>5. Range(r) \subseteq Range(q)
  BY <1>3 DEF Range
<1>6. \A c \in Range(q) : c # q[i] => c \in Range(r)
  BY <1>4 DEF Range
<1>7. ASSUME IsInjective(q)  PROVE q[i] \notin Range(r)
  <2>1. ASSUME NEW k \in DOMAIN r, r[k] = q[i]  PROVE FALSE
    <3>1. CASE k < i /\ k \in DOMAIN q /\ r[k] = q[k]
      <4>1. k = i
        BY <1>7, <2>1, <3>1 DEF IsInjective
      <4>2. QED  BY <1>2, <3>1, <4>1
    <3>2. CASE k >= i /\ k + 1 \in DOMAIN q /\ r[k] = q[k + 1] /\ k \in Nat
      <4>1. k + 1 = i
        BY <1>7, <2>1, <3>2 DEF IsInjective
      <4>2. QED  BY <1>2, <3>2, <4>1
    <3>3. QED  BY <1>3, <3>1, <3>2
  <2>2. QED  BY <2>1 DEF Range
<1>8. ASSUME IsInjective(q), NEW k \in DOMAIN r, NEW l \in DOMAIN r, r[k] = r[l]  PROVE k = l
  <2>1. CASE k < i /\ k \in DOMAIN q /\ r[k] = q[k]
    <3>1. CASE l < i /\ l \in DOMAIN q /\ r[l] = q[l]
      BY <1>8, <2>1, <3>1 DEF IsInjective
    <3>2. CASE l >= i /\ l + 1 \in DOMAIN q /\ r[l] = q[l + 1] /\ l \in Nat
      <4>1. k = l + 1
        BY <1>8, <2>1, <3>2 DEF IsInjective
      <4>2. QED  BY <1>2, <2>1, <3>2, <4>1
    <3>3. QED  BY <1>3, <3>1, <3>2
  <2>2. CASE k >= i /\ k + 1 \in DOMAIN q /\ r[k] = q[k + 1] /\ k \in Nat
    <3>1. CASE l < i /\ l \in DOMAIN q /\ r[l] = q[l]
      <4>1. l = k + 1
        BY <1>8, <2>2, <3>1 DEF IsInjective
      <4>2. QED  BY <1>2, <2>2, <3>1, <4>1
    <3>2. CASE l >= i /\ l + 1 \in DOMAIN q /\ r[l] = q[l + 1] /\ l \in Nat
      <4>1. k + 1 = l + 1
        BY <1>8, <2>2, <3>2 DEF IsInjective
      <4>2. QED  BY <2>2, <3>2, <4>1
    <3>3. QED  BY <1>3, <3>1, <3>2
  <2>3. QED  BY <1>3, <2>1, <2>2
<1>9. \A k \in DOMAIN r : \/ k \in DOMAIN q /\ k < i /\ r[k] = q[k]
                          \/ k + 1 \in DOMAIN q /\ r[k] = q[k + 1] /\ k \in Nat
  BY <1>3
<1>10. IsInjective(q) => q[i] \notin Range(r) /\ IsInjective(r)
  BY <1>7, <1>8 DEF IsInjective
<1>11. QED  BY <1>1, <1>5, <1>6, <1>9, <1>10, Zenon

-----------------------------------------------------------------------------
(* The state.                                                              *)

JobCommands == [op : {"JOB"}, job : Jobs \cup Async, part : Nat \ {0}]
Selects     == [op : {"SELECT"}, folder : Folders]
Commands    == JobCommands \cup Selects \cup {Idle}
SomeFolder  == Folders \cup {NULL}

Servers ==
  [state : {"INITIALISED", "SELECTED", "SHUTDOWN", "CRASHED"},
   queue : Seq(JobCommands), active : Seq(Commands), literal : Commands \cup {NoCommand},
   select_folder : SomeFolder, select_pending : SomeFolder,
   idle : {"OFF", "PENDING", "ISSUED", "STARTED", "CANCEL"}, watch : BOOLEAN,
   stream : Seq(Commands \cup {More})]

JobStates ==
  [at : {"new", "refused", "start", "check", "wait", "returned"}, folder : SomeFolder,
   issued : Nat, commands : Int, error : BOOLEAN, replies : Nat]
JobMaps == [Jobs \cup Async -> JobStates]

-----------------------------------------------------------------------------
(* The operators on the server object.                                     *)

\* Commands of different kinds are different.
LEMMA CommandsDiffer ==
  /\ \A c \in JobCommands : /\ c.op = "JOB" /\ c.job \in Jobs \cup Async /\ c.part \in Nat \ {0}
                            /\ c = Command(c.job, c.part)
  /\ \A c \in Selects : c.op = "SELECT" /\ c.folder \in Folders /\ c = Select(c.folder)
  /\ Idle.op = "IDLE" /\ NoCommand.op = "NONE" /\ More.op = "MORE"
  /\ NoCommand \notin Commands /\ More \notin Commands /\ More # NoCommand
  /\ \A c \in Commands : /\ c.op = "JOB" => c \in JobCommands
                         /\ c.op = "SELECT" => c \in Selects
                         /\ c.op = "IDLE" => c = Idle
  /\ ~Continues(NoCommand) /\ ~Continues(More)
  /\ \A c \in Selects : ~Continues(c)
  /\ Idle \notin JobCommands /\ Idle \notin Selects
<1>1. \A c \in JobCommands : /\ c.op = "JOB" /\ c.job \in Jobs \cup Async /\ c.part \in Nat \ {0}
                            /\ c = Command(c.job, c.part)
  BY DEF JobCommands, Command
<1>2. \A c \in Selects : c.op = "SELECT" /\ c.folder \in Folders /\ c = Select(c.folder)
  BY DEF Selects, Select
<1>3. Idle.op = "IDLE" /\ NoCommand.op = "NONE" /\ More.op = "MORE"
  BY DEF Idle, NoCommand, More
<1>4. \A c \in Commands : c \in JobCommands \/ c \in Selects \/ c = Idle
  BY DEF Commands
<1>5. QED  BY <1>1, <1>2, <1>3, <1>4 DEF Continues

\* The commands of jobs are commands, and none is NoCommand.
LEMMA CommandIs ==
  ASSUME NEW j \in Jobs \cup Async, NEW n \in Nat \ {0}
  PROVE  /\ Command(j, n) \in JobCommands /\ Command(j, n) \in Commands
         /\ Command(j, n).op = "JOB" /\ Command(j, n).job = j /\ Command(j, n).part = n
BY DEF Command, JobCommands, Commands

\* Queueing a command: it is in the queue with what was there.
LEMMA EnqueueIs ==
  ASSUME NEW q \in Seq(JobCommands), NEW c \in JobCommands
  PROVE  /\ Enqueue(q, c) \in Seq(JobCommands)
         /\ Range(Enqueue(q, c)) = Range(q) \cup {c}
         /\ IsInjective(q) /\ c \notin Range(q) => IsInjective(Enqueue(q, c))
<1> DEFINE I == {k \in 1..Len(q) : PriOf(c) >= PriOf(q[k])}
           i == IF I # {} THEN Min(I) ELSE 0
<1>1. Enqueue(q, c) = IF i = 0 THEN Append(q, c) ELSE InsertAt(q, i, c)
  BY DEF Enqueue, SelectInSeq
<1>2. i = 0 \/ i \in DOMAIN q
  <2>1. ASSUME I # {}  PROVE Min(I) \in I
    <3>1. I \in SUBSET Nat
      OBVIOUS
    <3> HIDE DEF I
    <3>2. \E x \in I : \A y \in I : x <= y
      BY <2>1, <3>1, LeastIs
    <3>3. QED  BY <3>2 DEF Min
  <2>2. QED  BY <2>1
<1> HIDE DEF i
<1>3. CASE i = 0
  <2>1. Enqueue(q, c) = Append(q, c)
    BY <1>1, <1>3
  <2>2. QED  BY <2>1, AppendIs
<1>4. CASE i # 0
  <2>1. i \in DOMAIN q /\ Enqueue(q, c) = InsertAt(q, i, c)
    BY <1>1, <1>2, <1>4
  <2>2. QED  BY <2>1, InsertIs
<1>5. QED  BY <1>3, <1>4

\* The positions that a loop over the queue takes can be found one by one.
LEMMA TakenExists ==
  ASSUME NEW n \in Nat, NEW R
  PROVE  \E S \in SUBSET (1..n) : \A i \in 1..n : i \in S <=> <<i, {k \in S : k < i}>> \in R
<1> DEFINE Has(m) == \E S \in SUBSET (1..m) : \A i \in 1..m : i \in S <=> <<i, {k \in S : k < i}>> \in R
           Bad == {m \in Nat : ~Has(m)}
<1>1. SUFFICES ASSUME Bad # {}  PROVE FALSE
  OBVIOUS
<1>2. PICK m \in Bad : \A l \in Bad : m <= l
  BY <1>1, LeastIs
<1>3. Has(0)
  <2>1. {} \in SUBSET (1..0) /\ \A i \in 1..0 : FALSE
    OBVIOUS
  <2>2. QED  BY <2>1
<1>4. m \in Nat /\ m - 1 \in Nat /\ m - 1 \notin Bad
  <2>1. m \in Nat /\ ~Has(m)
    BY <1>2
  <2> HIDE DEF Has
  <2>2. m # 0
    BY <1>3, <2>1
  <2>3. m - 1 \in Nat /\ ~(m <= m - 1)
    BY <2>1, <2>2
  <2>4. QED  BY <1>2, <2>1, <2>3
<1>5. PICK S \in SUBSET (1..(m - 1)) :
         \A i \in 1..(m - 1) : i \in S <=> <<i, {k \in S : k < i}>> \in R
  BY <1>4
<1> DEFINE T == S \cup (IF <<m, S>> \in R THEN {m} ELSE {})
<1>6. T \in SUBSET (1..m) /\ \A k \in S : k \in 1..(m - 1)
  BY <1>4, <1>5
<1>7. ASSUME NEW i \in 1..m  PROVE i \in T <=> <<i, {k \in T : k < i}>> \in R
  <2>1. CASE i = m
    <3>1. {k \in T : k < i} = S
      <4>1. ~(m < m) /\ \A k \in S : k < m
        BY <1>4, <1>6
      <4>2. QED  BY <2>1, <4>1
    <3>2. m \notin S
      BY <1>4, <1>6
    <3>3. QED  BY <2>1, <3>1, <3>2
  <2>2. CASE i # m
    <3>1. i \in 1..(m - 1) /\ i < m
      BY <1>4, <2>2
    <3>2. {k \in T : k < i} = {k \in S : k < i}
      BY <3>1
    <3>3. i \in T <=> i \in S
      BY <2>2
    <3>4. QED  BY <1>5, <3>1, <3>2, <3>3
  <2>3. QED  BY <2>1, <2>2
<1>8. Has(m)
  BY <1>6, <1>7
<1>9. QED  BY <1>2, <1>8

\* The loop over the queue: what comes before a position, and whether the loop starts
\* the command at position i when S is what it has started before.
Earlier(i, S) == {k \in S : k < i}

MayStart(s, jb, f, pri, strict, i, S) ==
  LET q == s.queue
      before(k) == Earlier(k, IF strict THEN DOMAIN q ELSE S)
      floor(k)  == IF before(k) = {} THEN pri ELSE PriOf(q[Max(before(k))])
  IN  /\ \/ SelectOf(q[i], jb) = NULL
         \/ /\ SelectOf(q[i], jb) = f
            /\ ~DuplicateFetch(q[i], Range(s.active) \cup {q[k] : k \in S}, f, jb)
      /\ Cardinality(S) < MAX_COMMANDS
      /\ \A k \in S : ~Continues(q[k])
      /\ \A k \in 1..i : PriOf(q[k]) >= floor(k)

\* The loop starts exactly what it may start.
LEMMA StartableSolves ==
  ASSUME NEW s \in Servers, NEW jb, NEW f, NEW pri, NEW strict,
         NEW C, C = Startable(s, jb, f, pri, strict)
  PROVE  /\ C \in SUBSET DOMAIN s.queue
         /\ \A i \in DOMAIN s.queue : i \in C <=> MayStart(s, jb, f, pri, strict, i, Earlier(i, C))
<1> DEFINE q == s.queue
           Started(i, S) == MayStart(s, jb, f, pri, strict, i, S)
           R == {e \in (DOMAIN q) \X SUBSET DOMAIN q : Started(e[1], e[2])}
<1>1. C = CHOOSE S \in SUBSET DOMAIN q : \A i \in DOMAIN q : i \in S <=> Started(i, Earlier(i, S))
  BY DEF Startable, MayStart, Earlier
<1>2. q \in Seq(JobCommands)
  BY DEF Servers
<1>3. Len(q) \in Nat /\ DOMAIN q = 1..Len(q)
  BY <1>2
<1>4. \E S \in SUBSET DOMAIN q : \A i \in DOMAIN q : i \in S <=> <<i, Earlier(i, S)>> \in R
  <2> HIDE DEF R
  <2>1. QED  BY <1>3, TakenExists DEF Earlier
<1>5. ASSUME NEW S \in SUBSET DOMAIN q, NEW i \in DOMAIN q
      PROVE  <<i, Earlier(i, S)>> \in R <=> Started(i, Earlier(i, S))
  <2> HIDE DEF Started
  <2>1. Earlier(i, S) \in SUBSET DOMAIN q
    BY DEF Earlier
  <2>2. QED  BY <2>1
<1>6. \E S \in SUBSET DOMAIN q : \A i \in DOMAIN q : i \in S <=> Started(i, Earlier(i, S))
  <2> HIDE DEF R, Started
  <2>1. QED  BY <1>4, <1>5
<1>7. QED
  <2> HIDE DEF Started
  <2>1. C \in SUBSET DOMAIN q /\ \A i \in DOMAIN q : i \in C <=> Started(i, Earlier(i, C))
    BY <1>1, <1>6
  <2>2. QED  BY <2>1 DEF Started

\* What is started is in the queue, needs no folder or the folder f, and a
\* literal is the last one.
LEMMA StartableIs ==
  ASSUME NEW s \in Servers, NEW jb, NEW f, NEW pri, NEW strict
  PROVE  /\ Startable(s, jb, f, pri, strict) \in SUBSET DOMAIN s.queue
         /\ \A i \in Startable(s, jb, f, pri, strict) :
              /\ SelectOf(s.queue[i], jb) \in {NULL, f}
              /\ \A k \in Startable(s, jb, f, pri, strict) : k < i => ~Continues(s.queue[k])
<1>1. PICK C : C = Startable(s, jb, f, pri, strict)
  OBVIOUS
<1>2. /\ C \in SUBSET DOMAIN s.queue
      /\ \A i \in DOMAIN s.queue : i \in C <=> MayStart(s, jb, f, pri, strict, i, Earlier(i, C))
  BY <1>1, StartableSolves
<1>3. ASSUME NEW i \in C
      PROVE  /\ SelectOf(s.queue[i], jb) \in {NULL, f}
             /\ \A k \in C : k < i => ~Continues(s.queue[k])
  <2>1. MayStart(s, jb, f, pri, strict, i, Earlier(i, C))
    BY <1>2
  <2>2. /\ SelectOf(s.queue[i], jb) \in {NULL, f}
        /\ \A k \in Earlier(i, C) : ~Continues(s.queue[k])
    BY <2>1 DEF MayStart
  <2>3. QED  BY <2>2 DEF Earlier
<1>4. QED  BY <1>1, <1>2, <1>3

\* With nothing under way it starts the first command, if that needs no folder but f
\* and the priority is not too low.
LEMMA FirstStarts ==
  ASSUME NEW s \in Servers, NEW jb, NEW f, NEW pri \in Int, NEW strict,
         s.queue # <<>>, s.active = <<>>, SelectOf(s.queue[1], jb) \in {NULL, f},
         PriOf(s.queue[1]) \in Int, PriOf(s.queue[1]) >= pri
  PROVE  1 \in Startable(s, jb, f, pri, strict)
<1>1. PICK C : C = Startable(s, jb, f, pri, strict)
  OBVIOUS
<1>2. s.queue \in Seq(JobCommands)
  BY DEF Servers
<1>3. 1 \in DOMAIN s.queue /\ \A k \in DOMAIN s.queue : ~(k < 1)
  BY <1>2
<1>4. /\ C \in SUBSET DOMAIN s.queue
      /\ 1 \in C <=> MayStart(s, jb, f, pri, strict, 1, Earlier(1, C))
  BY <1>1, <1>3, StartableSolves
<1>5. \A S \in SUBSET DOMAIN s.queue : Earlier(1, S) = {}
  BY <1>3 DEF Earlier
<1>6. Earlier(1, C) = {} /\ Earlier(1, DOMAIN s.queue) = {} /\ Earlier(1, {}) = {}
  BY <1>4, <1>5
<1>7. Range(s.active) = {}
  BY DEF Range
<1>8. ~DuplicateFetch(s.queue[1], {}, f, jb)
  BY DEF DuplicateFetch
<1>9. Cardinality({}) < MAX_COMMANDS
  BY ImapxAssumption, FS_EmptySet
<1>10. \A k \in 1..1 : k = 1
  OBVIOUS
<1>11. MayStart(s, jb, f, pri, strict, 1, {})
  BY <1>6, <1>7, <1>8, <1>9, <1>10 DEF MayStart
<1>12. QED  BY <1>1, <1>4, <1>6, <1>11

\* The commands go are taken from the queue and sent; a literal is the last one.
Launches(s, t, go) ==
  /\ t = [s EXCEPT !.queue = t.queue, !.active = @ \o go, !.stream = @ \o go, !.literal = t.literal]
  /\ t.queue \in Seq(JobCommands)
  /\ Range(s.queue) = Range(go) \cup Range(t.queue)
  /\ IsInjective(s.queue) =>
       IsInjective(go) /\ IsInjective(t.queue) /\ Range(go) \cap Range(t.queue) = {}
  /\ \A i \in DOMAIN go : Continues(go[i]) => i = Len(go) /\ t.literal = go[i]
  /\ t.literal = s.literal \/ (t.literal \in Range(go) /\ Continues(t.literal))

\* Starting commands one after the other: they follow what is active and sent, in order.
LEMMA StartAllIs ==
  ASSUME NEW s \in Servers, NEW S \in SUBSET DOMAIN s.queue,
         \A i, k \in S : k < i => ~Continues(s.queue[k])
  PROVE  \E go \in Seq(JobCommands) :
           Launches(s, StartAll(s, S), go) /\ \A c \in Range(go) : \E i \in S : c = s.queue[i]
<1> DEFINE q    == s.queue
           lits == {k \in S : Continues(q[k])}
           lit  == IF lits = {} THEN s.literal ELSE q[CHOOSE k \in lits : TRUE]
           go   == Keep(q, S)
           rest == Keep(q, DOMAIN q \ S)
           t    == StartAll(s, S)
<1>1. q \in Seq(JobCommands) /\ DOMAIN q = 1..Len(q) /\ Len(q) \in Nat
  <2>1. q \in Seq(JobCommands)
    BY DEF Servers
  <2>2. QED  BY <2>1
<1>2. /\ go \in Seq(JobCommands)
      /\ \A i \in S : q[i] \in Range(go)
      /\ \A x \in Range(go) : \E i \in S : x = q[i]
      /\ IsInjective(q) => IsInjective(go)
      /\ \A i \in DOMAIN go :
           \E k \in S : go[i] = q[k] /\ (i # Len(go) => \E l \in S : k < l)
  BY <1>1, KeepIs
<1>3. /\ rest \in Seq(JobCommands)
      /\ \A i \in DOMAIN q \ S : q[i] \in Range(rest)
      /\ \A x \in Range(rest) : \E i \in DOMAIN q \ S : x = q[i]
      /\ IsInjective(q) => IsInjective(rest)
  BY <1>1, KeepIs
<1>4. t = [s EXCEPT !.queue = rest, !.active = @ \o go, !.stream = @ \o go, !.literal = lit]
  BY DEF StartAll
<1>5. t.queue = rest /\ t.literal = lit
  <2> HIDE DEF rest, go, lit, t
  <2>1. QED  BY <1>4 DEF Servers
<1>6. Range(q) = Range(go) \cup Range(rest)
  <2> HIDE DEF go, rest
  <2>1. ASSUME NEW x \in Range(q)  PROVE x \in Range(go) \cup Range(rest)
    <3>1. PICK i \in DOMAIN q : x = q[i]
      BY DEF Range
    <3>2. i \in S \/ i \in DOMAIN q \ S
      OBVIOUS
    <3>3. QED  BY <1>2, <1>3, <3>1, <3>2
  <2>2. ASSUME NEW x \in Range(go) \cup Range(rest)  PROVE x \in Range(q)
    <3>1. PICK i \in DOMAIN q : x = q[i]
      BY <1>2, <1>3
    <3>2. QED  BY <3>1 DEF Range
  <2>3. QED  BY <2>1, <2>2
<1>7. ASSUME IsInjective(q)  PROVE Range(go) \cap Range(rest) = {}
  <2> HIDE DEF go, rest
  <2>1. ASSUME NEW x \in Range(go), x \in Range(rest)  PROVE FALSE
    <3>1. PICK i \in S : x = q[i]
      BY <1>2
    <3>2. PICK k \in DOMAIN q \ S : x = q[k]
      BY <1>3, <2>1
    <3>3. i = k
      BY <1>7, <3>1, <3>2 DEF IsInjective
    <3>4. QED  BY <3>3
  <2>2. QED  BY <2>1
<1>8. ASSUME NEW k \in S, Continues(q[k])  PROVE (\A l \in S : ~(k < l)) /\ lit = q[k]
  <2>1. \A l \in S : ~(k < l)
    BY <1>8
  <2>2. \A l \in lits : l = k
    <3>1. ASSUME NEW l \in lits, l # k  PROVE FALSE
      <4>1. l \in S /\ k \in Nat /\ l \in Nat /\ Continues(q[l])
        BY <1>1
      <4>2. l < k \/ k < l
        BY <3>1, <4>1
      <4>3. QED  BY <1>8, <4>1, <4>2
    <3>2. QED  BY <3>1
  <2>3. k \in lits
    BY <1>8
  <2> HIDE DEF lits
  <2>4. QED  BY <2>1, <2>2, <2>3
<1>9. ASSUME NEW i \in DOMAIN go, Continues(go[i])  PROVE i = Len(go) /\ lit = go[i]
  <2> HIDE DEF go, lit
  <2>1. PICK k \in S : go[i] = q[k] /\ (i # Len(go) => \E l \in S : k < l)
    BY <1>2
  <2>2. QED  BY <1>8, <1>9, <2>1
<1>10. lit = s.literal \/ (lit \in Range(go) /\ Continues(lit))
  <2>1. CASE lits = {}
    BY <2>1
  <2>2. CASE lits # {}
    <3>1. PICK k \in lits : lit = q[k]
      BY <2>2
    <3> HIDE DEF go, lit
    <3>2. QED  BY <1>2, <3>1
  <2>3. QED  BY <2>1, <2>2
<1> HIDE DEF go, rest, lit, t
<1>11. Launches(s, t, go)
  BY <1>3, <1>2, <1>4, <1>5, <1>6, <1>7, <1>9, <1>10 DEF Launches
<1>12. QED  BY <1>2, <1>11 DEF t

\* What a SELECT selects is the folder of its job.
LEMMA SelectOfIs ==
  ASSUME NEW jb \in JobMaps
  PROVE  /\ \A c \in JobCommands : SelectOf(c, jb) = jb[c.job].folder /\ SelectOf(c, jb) \in SomeFolder
         /\ \A c \in Commands : SelectOf(c, jb) # NULL => c \in JobCommands
         /\ SelectOf(NoCommand, jb) = NULL /\ SelectOf(More, jb) = NULL
<1>1. \A c \in JobCommands : SelectOf(c, jb) = jb[c.job].folder /\ SelectOf(c, jb) \in SomeFolder
  <2>1. ASSUME NEW c \in JobCommands  PROVE SelectOf(c, jb) = jb[c.job].folder /\ jb[c.job].folder \in SomeFolder
    <3>1. c.op = "JOB" /\ c.job \in Jobs \cup Async
      BY CommandsDiffer
    <3>2. jb[c.job] \in JobStates
      BY <3>1 DEF JobMaps
    <3>3. QED  BY <3>1, <3>2 DEF SelectOf, JobStates
  <2>2. QED  BY <2>1
<1>2. QED  BY <1>1, CommandsDiffer DEF SelectOf

\* A SELECT of folder f.
Selected(s, f) ==
  CommandStart([s EXCEPT !.idle = "OFF", !.select_pending = f,
                         !.select_folder = IF @ = NULL THEN f ELSE NULL,
                         !.state = "INITIALISED"],
               Select(f))

\* What imapx_command_start_next may do.
NextStarts(s, t, jb) ==
  \/ t = s
  \/ s.idle \in {"OFF", "PENDING"} /\ t = [s EXCEPT !.idle = "OFF"]
  \/ /\ s.idle \in {"OFF", "PENDING"} /\ s.literal = NoCommand
     /\ \E go \in Seq(JobCommands) :
          /\ Launches([s EXCEPT !.idle = "OFF"], t, go)
          /\ \A c \in Range(go) :
               SelectOf(c, jb) # NULL => s.select_pending = NULL /\ SelectOf(c, jb) = s.select_folder
  \/ /\ s.state = "SELECTED" /\ s.select_pending = NULL /\ IdleHasToStop(s)
     /\ t = StopIdle(s)
  \/ /\ s.state = "SELECTED" /\ s.select_pending = NULL /\ s.literal = NoCommand
     /\ s.queue = <<>> /\ s.active = <<>> /\ s.idle = "OFF"
     /\ t = StartIdle(s)
  \/ /\ s.select_pending = NULL /\ s.literal = NoCommand /\ s.active = <<>>
     /\ s.idle \in {"OFF", "PENDING"}
     /\ \E f \in Folders : s.select_folder # f /\ t = Selected(s, f)

\* imapx_command_start_next sends commands of the queue that may start.
LEMMA StartQueuedIs ==
  ASSUME NEW s \in Servers, NEW jb \in JobMaps, s.literal = NoCommand, s.select_pending = NULL,
         s.idle = "OFF"
  PROVE  NextStarts(s, StartQueued(s, jb), jb)
<1> DEFINE f   == s.select_folder
           now == IF f = NULL THEN {} ELSE Startable(s, jb, f, ActivePri(s), TRUE)
           g   == SelectOf(s.queue[1], jb)
           one == Startable(s, jb, f, PriOf(s.queue[1]), FALSE)
<1> SUFFICES ASSUME NEW t, t = StartQueued(s, jb)  PROVE NextStarts(s, t, jb)
  OBVIOUS
<1>1. t = IF s.queue = <<>> \/ (f # NULL /\ Len(s.active) > MAX_COMMANDS)
          THEN s
          ELSE IF now # {}
          THEN StartAll(s, now)
          ELSE IF g # NULL
          THEN SelectFolder(s, g)
          ELSE StartAll(s, one)
  BY DEF StartQueued
<1>2. s = [s EXCEPT !.idle = "OFF"]
  BY DEF Servers
<1>3. ASSUME NEW pri, NEW strict, t = StartAll(s, Startable(s, jb, f, pri, strict))
      PROVE  NextStarts(s, t, jb)
  <2>1. PICK S : S = Startable(s, jb, f, pri, strict)
    OBVIOUS
  <2>2. /\ S \in SUBSET DOMAIN s.queue
        /\ \A i \in S : SelectOf(s.queue[i], jb) \in {NULL, f} /\ \A k \in S : k < i => ~Continues(s.queue[k])
    BY <2>1, StartableIs
  <2>3. PICK go \in Seq(JobCommands) :
          Launches(s, StartAll(s, S), go) /\ \A c \in Range(go) : \E i \in S : c = s.queue[i]
    BY <2>2, StartAllIs
  <2>4. \A c \in Range(go) : SelectOf(c, jb) # NULL => SelectOf(c, jb) = f
    BY <2>2, <2>3
  <2>5. Launches([s EXCEPT !.idle = "OFF"], t, go)
    BY <1>2, <1>3, <2>1, <2>3
  <2>6. QED  BY <2>4, <2>5 DEF NextStarts
<1>4. CASE t = s
  BY <1>4 DEF NextStarts
<1>5. CASE t = SelectFolder(s, g) /\ g # NULL /\ s.queue # <<>>
  <2>1. s.queue \in Seq(JobCommands)
    BY DEF Servers
  <2>2. s.queue[1] \in JobCommands
    BY <1>5, <2>1
  <2>3. g \in Folders
    BY <1>5, <2>2, SelectOfIs DEF SomeFolder
  <2>4. CASE f = g \/ s.active # <<>>
    <3>1. t = s
      BY <1>5, <2>4 DEF SelectFolder
    <3>2. QED  BY <3>1 DEF NextStarts
  <2>5. CASE f # g /\ s.active = <<>>
    <3>1. t = CommandStart([s EXCEPT !.select_pending = g,
                                     !.select_folder = IF @ = NULL THEN g ELSE NULL,
                                     !.state = "INITIALISED"], Select(g))
      BY <1>5, <2>5 DEF SelectFolder
    <3>2. [s EXCEPT !.select_pending = g, !.select_folder = IF @ = NULL THEN g ELSE NULL,
                    !.state = "INITIALISED"]
          = [s EXCEPT !.idle = "OFF", !.select_pending = g,
                      !.select_folder = IF @ = NULL THEN g ELSE NULL, !.state = "INITIALISED"]
      BY DEF Servers
    <3>3. t = Selected(s, g)
      BY <3>1, <3>2 DEF Selected
    <3>4. QED  BY <2>3, <2>5, <3>3 DEF NextStarts
  <2>6. QED  BY <2>4, <2>5
<1>6. t = s \/ (t = StartAll(s, now) /\ now # {}) \/ (t = SelectFolder(s, g) /\ g # NULL /\ s.queue # <<>>) \/ t = StartAll(s, one)
  <2> HIDE DEF now, g, one, f
  <2>1. QED  BY <1>1
<1>7. CASE t = StartAll(s, now) /\ now # {}
  <2>1. t = StartAll(s, Startable(s, jb, f, ActivePri(s), TRUE))
    BY <1>7
  <2>2. QED  BY <1>3, <2>1
<1>8. CASE t = StartAll(s, one)
  BY <1>3, <1>8
<1>9. QED  BY <1>4, <1>5, <1>6, <1>7, <1>8

\* imapx_command_start_next: nothing, DONE first, or commands that may start, and what becomes of the fields.
LEMMA StartNextIs ==
  ASSUME NEW s \in Servers, NEW jb \in JobMaps,
         s.state # "SELECTED" \/ s.select_pending # NULL => s.idle = "OFF"
  PROVE  NextStarts(s, CommandStartNext(s, jb), jb)
<1> SUFFICES ASSUME NEW t, t = CommandStartNext(s, jb)  PROVE NextStarts(s, t, jb)
  OBVIOUS
<1> DEFINE u == IF s.state = "SELECTED" /\ s.queue # <<>> THEN StopIdle(s) ELSE s
<1>1. CASE s.literal # NoCommand
  BY <1>1 DEF CommandStartNext, NextStarts
<1>2. CASE s.literal = NoCommand /\ s.select_pending # NULL
  <2>1. PICK S : S = Startable(s, jb, NULL, -128, FALSE)
    OBVIOUS
  <2>2. t = StartAll(s, S)
    BY <1>2, <2>1 DEF CommandStartNext, StartFolderless
  <2>3. /\ S \in SUBSET DOMAIN s.queue
        /\ \A i \in S : SelectOf(s.queue[i], jb) = NULL /\ \A k \in S : k < i => ~Continues(s.queue[k])
    <3>1. PICK f, pri : f = NULL /\ pri = -128
      OBVIOUS
    <3>2. S = Startable(s, jb, f, pri, FALSE)
      BY <2>1, <3>1
    <3>3. /\ S \in SUBSET DOMAIN s.queue
          /\ \A i \in S :
               SelectOf(s.queue[i], jb) \in {NULL, f} /\ \A k \in S : k < i => ~Continues(s.queue[k])
      BY <3>2, StartableIs
    <3>4. QED  BY <3>1, <3>3
  <2>4. PICK go \in Seq(JobCommands) :
          Launches(s, StartAll(s, S), go) /\ \A c \in Range(go) : \E i \in S : c = s.queue[i]
    BY <2>3, StartAllIs
  <2>5. \A c \in Range(go) : SelectOf(c, jb) = NULL
    BY <2>3, <2>4
  <2>6. s = [s EXCEPT !.idle = "OFF"] /\ s.idle = "OFF"
    BY <1>2 DEF Servers
  <2>7. QED  BY <1>2, <2>2, <2>4, <2>5, <2>6 DEF NextStarts
<1>3. CASE s.literal = NoCommand /\ s.select_pending = NULL
  <2>1. CASE s.state = "SELECTED" /\ s.queue # <<>> /\ IdleHasToStop(s)
    <3>1. t = StopIdle(s)
      BY <1>3, <2>1 DEF CommandStartNext
    <3>2. QED  BY <1>3, <2>1, <3>1 DEF NextStarts
  <2>2. CASE s.state = "SELECTED" /\ s.queue = <<>> /\ s.active = <<>> /\ s.idle = "OFF"
    <3>1. t = StartIdle(s)
      BY <1>3, <2>2 DEF CommandStartNext
    <3>2. QED  BY <1>3, <2>2, <3>1 DEF NextStarts
  <2>3. CASE /\ ~(s.state = "SELECTED" /\ s.queue # <<>> /\ IdleHasToStop(s))
             /\ ~(s.state = "SELECTED" /\ s.queue = <<>> /\ s.active = <<>> /\ s.idle = "OFF")
    <3>1. t = StartQueued(u, jb)
      BY <1>3, <2>3 DEF CommandStartNext
    <3>2. CASE s.queue = <<>>
      <4>1. t = s
        BY <3>1, <3>2 DEF StartQueued
      <4>2. QED  BY <4>1 DEF NextStarts
    <3>3. CASE s.queue # <<>>
      <4>1. s.idle \in {"OFF", "PENDING"}
        BY <2>3, <3>3 DEF IdleHasToStop, Servers
      <4>2. u = [s EXCEPT !.idle = "OFF"]
        BY <3>3, <4>1 DEF StopIdle, Servers
      <4>3. PICK v : v = [s EXCEPT !.idle = "OFF"]
        OBVIOUS
      <4>4. /\ v \in Servers /\ v.literal = NoCommand /\ v.select_pending = NULL /\ v.idle = "OFF"
            /\ v.select_folder = s.select_folder /\ v.active = s.active /\ v.queue = s.queue
            /\ v.state = s.state
        BY <1>3, <4>3 DEF Servers
      <4>5. NextStarts(v, t, jb)
        BY <3>1, <4>2, <4>3, <4>4, StartQueuedIs
      <4>6. [v EXCEPT !.idle = "OFF"] = [s EXCEPT !.idle = "OFF"]
        BY <4>3 DEF Servers
      <4>7. \A f : Selected(v, f) = Selected(s, f)
        BY <4>3 DEF Selected, Servers
      <4>8. CASE t = v \/ t = [v EXCEPT !.idle = "OFF"]
        BY <4>1, <4>3, <4>6, <4>8 DEF NextStarts
      <4>9. CASE \E go \in Seq(JobCommands) :
               /\ Launches([v EXCEPT !.idle = "OFF"], t, go)
               /\ \A c \in Range(go) :
                    SelectOf(c, jb) # NULL => v.select_pending = NULL /\ SelectOf(c, jb) = v.select_folder
        BY <1>3, <4>1, <4>4, <4>6, <4>9 DEF NextStarts
      <4>10. CASE v.active = <<>> /\ \E f \in Folders : v.select_folder # f /\ t = Selected(v, f)
        BY <1>3, <4>1, <4>4, <4>7, <4>10 DEF NextStarts
      <4>11. CASE v.state = "SELECTED" /\ v.queue = <<>>
        BY <3>3, <4>4, <4>11
      <4>12. ~IdleHasToStop(v)
        BY <4>4 DEF IdleHasToStop
      <4>13. QED  BY <4>5, <4>8, <4>9, <4>10, <4>11, <4>12 DEF NextStarts
    <3>4. QED  BY <3>2, <3>3
  <2>4. QED  BY <2>1, <2>2, <2>3
<1>4. QED  BY <1>1, <1>2, <1>3

-----------------------------------------------------------------------------
(* The invariant while the parser thread reads.                            *)

\* A command is in one place: queued, active or in the hands of the parser
\* thread, and on the stream once.
Apart(s, ic) ==
  /\ IsInjective(s.queue) /\ IsInjective(s.active) /\ IsInjective(s.stream)
  /\ Range(s.queue) \cap Range(s.active) = {}
  /\ ic \notin Range(s.queue) \cup Range(s.active)

\* What is on the stream, or waits for more, is active.
Sent(s, w) ==
  /\ Range(s.stream) \subseteq Range(s.active) \cup {More}
  /\ w # NoCommand => w \in Range(s.active) \ Range(s.stream) /\ Continues(w)

\* The rest of a command comes first on the stream, if it is due at all.
Wire(s, w) ==
  /\ \A i \in DOMAIN s.stream : s.stream[i] = More => i = 1 /\ w # NoCommand
  /\ w # NoCommand /\ s.stream # <<>> => s.stream[1] = More
  /\ w # NoCommand /\ s.stream = <<>> => s.idle = "STARTED"

\* A literal command that the server has not asked to go on with is the last one
\* on the stream, and is->literal.
Literal(s) ==
  /\ \A i \in DOMAIN s.stream :
       Continues(s.stream[i]) => s.literal = s.stream[i] /\ i = Len(s.stream)
  /\ s.literal # NoCommand => Continues(s.literal) /\ s.literal \in Range(s.stream)

\* What the state of IDLE says of the commands.
IdleState(s, ic, w) ==
  /\ s.idle # "OFF" => s.state = "SELECTED" /\ s.select_pending = NULL
  /\ s.idle = "PENDING" => s.active = <<>> /\ ic # Idle
  /\ s.idle \in {"ISSUED", "CANCEL"} =>
       \/ s.active = <<Idle>> /\ s.stream = <<Idle>>
       \/ s.active = <<>> /\ ic = Idle
  /\ s.idle = "STARTED" => s.active = <<Idle>> /\ s.stream = <<>> /\ w = Idle
  /\ Idle \in Range(s.stream) => s.idle \in {"ISSUED", "CANCEL"}

\* What the client believes to be selected, and what is.
Selecting(s, ic, ok, sel) ==
  /\ s.select_pending = NULL =>
       /\ s.select_folder = sel
       /\ \A c \in Range(s.active) \cup {ic} : c.op # "SELECT"
  /\ s.select_pending # NULL =>
       /\ s.select_folder \in {NULL, s.select_pending}
       /\ Select(s.select_pending) \in Range(s.active) \cup {ic}
       /\ \A c \in Range(s.active) \cup {ic} : c.op = "SELECT" => c.folder = s.select_pending
       /\ Select(s.select_pending) \in Range(s.active) /\ s.select_folder # NULL => sel = NULL
       /\ ic.op = "SELECT" => sel = IF ok THEN s.select_pending ELSE NULL

\* The commands of folders that are under way are those of the selected one.
InFolder(s, jb, sel) ==
  \A c \in Range(s.active) :
    SelectOf(c, jb) # NULL => s.select_pending = NULL /\ sel = SelectOf(c, jb)

\* The next command of a job is a new one, and a job that can be used again has
\* none.
Fresh(s, jb, ic) ==
  \A c \in Range(s.queue) \cup Range(s.active) \cup {ic} :
    c.op = "JOB" => /\ c.part <= jb[c.job].issued
                    /\ c.job \in Async => jb[c.job].at = "wait" /\ c.part = 1

Connected(s, jb, ic, ok, w, sel) ==
  /\ s.state \in {"INITIALISED", "SELECTED"}
  /\ Apart(s, ic) /\ Sent(s, w) /\ Wire(s, w) /\ Literal(s) /\ IdleState(s, ic, w)
  /\ Selecting(s, ic, ok, sel) /\ InFolder(s, jb, sel) /\ Fresh(s, jb, ic)

\* The commands of jobs that are queued or under way.
Ours(s) == (Range(s.queue) \cup Range(s.active)) \cap JobCommands

\* The queues of a server as sequences and as sets.
LEMMA SequencesOf ==
  ASSUME NEW s \in Servers
  PROVE  /\ s.queue \in Seq(JobCommands) /\ s.active \in Seq(Commands)
         /\ s.stream \in Seq(Commands \cup {More})
         /\ Range(s.queue) \subseteq JobCommands /\ Range(s.active) \subseteq Commands
         /\ Range(s.stream) \subseteq Commands \cup {More}
         /\ DOMAIN s.stream = 1..Len(s.stream) /\ Len(s.stream) \in Nat
<1>1. /\ s.queue \in Seq(JobCommands) /\ s.active \in Seq(Commands)
      /\ s.stream \in Seq(Commands \cup {More})
  BY DEF Servers
<1>2. \A X : \A q \in Seq(X) : Range(q) \subseteq X
  BY DEF Range
<1>3. Range(s.queue) \subseteq JobCommands /\ Range(s.active) \subseteq Commands
      /\ Range(s.stream) \subseteq Commands \cup {More}
  BY <1>1, <1>2, Zenon
<1>4. DOMAIN s.stream = 1..Len(s.stream) /\ Len(s.stream) \in Nat
  BY <1>1
<1>5. QED  BY <1>1, <1>3, <1>4

\* Commands of jobs, as commands and as what goes down the stream.
LEMMA JobsSent ==
  ASSUME NEW go \in Seq(JobCommands)
  PROVE  /\ go \in Seq(Commands) /\ go \in Seq(Commands \cup {More})
         /\ Range(go) \subseteq JobCommands /\ DOMAIN go = 1..Len(go) /\ Len(go) \in Nat
<1>1. DOMAIN go = 1..Len(go) /\ Len(go) \in Nat /\ \A i \in DOMAIN go : go[i] \in JobCommands
  OBVIOUS
<1>2. JobCommands \subseteq Commands
  BY DEF Commands
<1>3. go \in Seq(Commands) /\ go \in Seq(Commands \cup {More})
  BY <1>2, SeqMonotonic
<1>4. QED  BY <1>1, <1>3 DEF Range

\* Sending commands of jobs: fields that change and fields that stay.
SentOn(v, t, go) ==
  /\ t \in Servers
  /\ t.active = v.active \o go /\ t.stream = v.stream \o go /\ t.idle = v.idle
  /\ t.state = v.state /\ t.select_folder = v.select_folder /\ t.select_pending = v.select_pending
  /\ t.queue \in Seq(JobCommands) /\ Range(v.queue) = Range(go) \cup Range(t.queue)

LEMMA LaunchServer ==
  ASSUME NEW v \in Servers, NEW go \in Seq(JobCommands), NEW t, Launches(v, t, go)
  PROVE  SentOn(v, t, go)
<1>1. /\ t = [v EXCEPT !.queue = t.queue, !.active = v.active \o go, !.stream = v.stream \o go, !.literal = t.literal]
      /\ t.queue \in Seq(JobCommands) /\ Range(v.queue) = Range(go) \cup Range(t.queue)
      /\ t.literal = v.literal \/ (t.literal \in Range(go) /\ Continues(t.literal))
  BY DEF Launches
<1>2. v.active \o go \in Seq(Commands) /\ v.stream \o go \in Seq(Commands \cup {More})
  BY JobsSent, SequencesOf, ConcatProperties
<1>3. t.literal \in Commands \cup {NoCommand}
  <2>1. v.literal \in Commands \cup {NoCommand}
    BY DEF Servers
  <2>2. QED  BY <1>1, <2>1, JobsSent DEF Commands
<1>4. t.active = v.active \o go /\ t.stream = v.stream \o go /\ t.idle = v.idle
      /\ t.state = v.state /\ t.select_folder = v.select_folder /\ t.select_pending = v.select_pending
  BY <1>1 DEF Servers
<1>5. t \in Servers
  <2>1. PICK q \in Seq(JobCommands), a \in Seq(Commands), st \in Seq(Commands \cup {More}),
             lit \in Commands \cup {NoCommand} :
          q = t.queue /\ a = v.active \o go /\ st = v.stream \o go /\ lit = t.literal
    BY <1>1, <1>2, <1>3
  <2>2. t = [v EXCEPT !.queue = q, !.active = a, !.stream = st, !.literal = lit]
    BY <1>1, <2>1, Zenon
  <2>3. [v EXCEPT !.queue = q, !.active = a, !.stream = st, !.literal = lit] \in Servers
    BY DEF Servers
  <2>4. QED  BY <2>2, <2>3
<1>6. QED  BY <1>1, <1>4, <1>5 DEF SentOn

\* The same from a server whose IDLE has been called off.
LEMMA LaunchTypes ==
  ASSUME NEW s \in Servers, NEW go \in Seq(JobCommands), NEW t,
         Launches([s EXCEPT !.idle = "OFF"], t, go)
  PROVE  /\ t \in Servers
         /\ t.active = s.active \o go /\ t.stream = s.stream \o go /\ t.idle = "OFF"
         /\ t.state = s.state /\ t.select_folder = s.select_folder /\ t.select_pending = s.select_pending
         /\ t.queue \in Seq(JobCommands) /\ Range(s.queue) = Range(go) \cup Range(t.queue)
<1>1. PICK v : v = [s EXCEPT !.idle = "OFF"]
  OBVIOUS
<1>2. /\ v \in Servers /\ v.queue = s.queue /\ v.active = s.active /\ v.stream = s.stream /\ v.idle = "OFF"
      /\ v.state = s.state /\ v.select_folder = s.select_folder /\ v.select_pending = s.select_pending
  BY <1>1 DEF Servers
<1>3. Launches(v, t, go)
  BY <1>1
<1>4. /\ t \in Servers
      /\ t.active = v.active \o go /\ t.stream = v.stream \o go /\ t.idle = v.idle
      /\ t.state = v.state /\ t.select_folder = v.select_folder /\ t.select_pending = v.select_pending
      /\ t.queue \in Seq(JobCommands) /\ Range(v.queue) = Range(go) \cup Range(t.queue)
  <2>1. SentOn(v, t, go)
    BY <1>2, <1>3, LaunchServer
  <2>2. QED  BY <2>1 DEF SentOn
<1>5. QED  BY <1>2, <1>4

\* Sending commands that may start keeps client and server connected.
LEMMA LaunchKeeps ==
  ASSUME NEW s \in Servers, NEW jb \in JobMaps, NEW ic, NEW ok, NEW w, NEW sel,
         Connected(s, jb, ic, ok, w, sel),
         NEW go \in Seq(JobCommands), NEW t, Launches([s EXCEPT !.idle = "OFF"], t, go),
         s.idle \in {"OFF", "PENDING"}, s.literal = NoCommand,
         \A c \in Range(go) :
           SelectOf(c, jb) # NULL => s.select_pending = NULL /\ SelectOf(c, jb) = s.select_folder
  PROVE  /\ Connected(t, jb, ic, ok, w, sel) /\ Ours(t) = Ours(s)
<1>1. /\ t \in Servers
      /\ t.active = s.active \o go /\ t.stream = s.stream \o go /\ t.idle = "OFF"
      /\ t.state = s.state /\ t.select_folder = s.select_folder /\ t.select_pending = s.select_pending
      /\ t.queue \in Seq(JobCommands) /\ Range(s.queue) = Range(go) \cup Range(t.queue)
  BY LaunchTypes
<1>2. /\ IsInjective(s.queue) =>
           IsInjective(go) /\ IsInjective(t.queue) /\ Range(go) \cap Range(t.queue) = {}
      /\ \A i \in DOMAIN go : Continues(go[i]) => i = Len(go) /\ t.literal = go[i]
      /\ t.literal = NoCommand \/ (t.literal \in Range(go) /\ Continues(t.literal))
  <2>1. PICK v : v = [s EXCEPT !.idle = "OFF"]
    OBVIOUS
  <2>2. Launches(v, t, go)
    BY <2>1
  <2>3. v.queue = s.queue /\ v.literal = NoCommand
    BY <2>1 DEF Servers
  <2>4. QED  BY <2>2, <2>3 DEF Launches
<1>3. /\ Apart(s, ic) /\ Sent(s, w) /\ Wire(s, w) /\ Literal(s) /\ IdleState(s, ic, w)
      /\ Selecting(s, ic, ok, sel) /\ InFolder(s, jb, sel) /\ Fresh(s, jb, ic)
      /\ s.state \in {"INITIALISED", "SELECTED"}
  BY DEF Connected
<1>4. /\ go \in Seq(Commands) /\ go \in Seq(Commands \cup {More})
      /\ Range(go) \subseteq JobCommands /\ DOMAIN go = 1..Len(go) /\ Len(go) \in Nat
  BY JobsSent
<1>5. /\ s.active \in Seq(Commands) /\ s.stream \in Seq(Commands \cup {More})
      /\ DOMAIN s.stream = 1..Len(s.stream) /\ Len(s.stream) \in Nat
  BY SequencesOf
<1>6. /\ Range(t.active) = Range(s.active) \cup Range(go)
      /\ IsInjective(s.active) /\ IsInjective(go) /\ Range(s.active) \cap Range(go) = {} => IsInjective(t.active)
  BY <1>1, <1>4, <1>5, ConcatIs
<1>7. /\ Range(t.stream) = Range(s.stream) \cup Range(go)
      /\ IsInjective(s.stream) /\ IsInjective(go) /\ Range(s.stream) \cap Range(go) = {} => IsInjective(t.stream)
      /\ Len(t.stream) = Len(s.stream) + Len(go)
      /\ \A i \in DOMAIN t.stream :
           \/ i \in DOMAIN s.stream /\ t.stream[i] = s.stream[i]
           \/ i - Len(s.stream) \in DOMAIN go /\ t.stream[i] = go[i - Len(s.stream)] /\ i \in Int
  BY <1>1, <1>4, <1>5, ConcatIs
<1>8. More \notin Range(go) /\ Idle \notin Range(go) /\ \A c \in Range(go) : c.op = "JOB"
  BY <1>4, CommandsDiffer DEF Commands
<1>9. Range(s.active) \cap Range(go) = {} /\ Range(s.stream) \cap Range(go) = {}
  <2>1. Range(s.active) \cap Range(go) = {}
    BY <1>1, <1>3 DEF Apart
  <2>2. QED  BY <1>3, <1>8, <2>1 DEF Sent
<1>10. Apart(t, ic)
  <2>1. IsInjective(s.queue) /\ IsInjective(s.active) /\ IsInjective(s.stream)
    BY <1>3 DEF Apart
  <2>2. IsInjective(t.queue) /\ IsInjective(t.active) /\ IsInjective(t.stream)
    BY <1>2, <1>6, <1>7, <1>9, <2>1
  <2>3. Range(t.queue) \cap Range(t.active) = {}
    BY <1>1, <1>2, <1>3, <1>6, <2>1 DEF Apart
  <2>4. ic \notin Range(t.queue) \cup Range(t.active)
    BY <1>1, <1>3, <1>6 DEF Apart
  <2>5. QED  BY <2>2, <2>3, <2>4 DEF Apart
<1>11. Sent(t, w)
  BY <1>3, <1>6, <1>7, <1>9 DEF Sent
<1>12. Wire(t, w)
  <2>1. ASSUME NEW i \in DOMAIN t.stream, t.stream[i] = More  PROVE i = 1 /\ w # NoCommand
    <3>1. ~(i - Len(s.stream) \in DOMAIN go /\ t.stream[i] = go[i - Len(s.stream)])
      BY <1>8, <2>1 DEF Range
    <3>2. QED  BY <1>3, <1>7, <2>1, <3>1 DEF Wire
  <2>2. ASSUME w # NoCommand  PROVE t.stream # <<>> /\ t.stream[1] = More
    <3>1. s.stream # <<>> /\ s.stream[1] = More
      BY <1>3, <2>2 DEF Wire
    <3>2. Len(s.stream) >= 1
      BY <1>5, <3>1
    <3>3. 1 \in 1..(Len(s.stream) + Len(go)) /\ 1 <= Len(s.stream)
      BY <1>4, <1>5, <3>2
    <3>4. t.stream[1] = s.stream[1] /\ Len(t.stream) # 0
      BY <1>1, <1>4, <1>5, <1>7, <3>3, ConcatProperties
    <3>5. QED  BY <3>1, <3>4
  <2>3. QED  BY <2>1, <2>2 DEF Wire
<1>13. Literal(t)
  <2>1. ASSUME NEW i \in DOMAIN t.stream, Continues(t.stream[i])
        PROVE  t.literal = t.stream[i] /\ i = Len(t.stream)
    <3>1. CASE i \in DOMAIN s.stream /\ t.stream[i] = s.stream[i]
      <4>1. NoCommand = s.stream[i]
        BY <1>3, <2>1, <3>1 DEF Literal
      <4>2. QED  BY <2>1, <3>1, <4>1, CommandsDiffer
    <3>2. CASE i - Len(s.stream) \in DOMAIN go /\ t.stream[i] = go[i - Len(s.stream)] /\ i \in Int
      <4>1. i - Len(s.stream) = Len(go) /\ t.literal = t.stream[i]
        BY <1>2, <2>1, <3>2
      <4>2. QED  BY <1>4, <1>5, <1>7, <3>2, <4>1
    <3>3. QED  BY <1>7, <3>1, <3>2
  <2>2. t.literal # NoCommand => Continues(t.literal) /\ t.literal \in Range(t.stream)
    BY <1>2, <1>7
  <2>3. QED  BY <2>1, <2>2 DEF Literal
<1>14. IdleState(t, ic, w)
  <2>1. Idle \notin Range(s.stream)
    BY <1>3 DEF IdleState
  <2>2. Idle \notin Range(t.stream)
    BY <1>7, <1>8, <2>1
  <2>3. QED  BY <1>1, <2>2 DEF IdleState
<1>15. Selecting(t, ic, ok, sel)
  <2>1. \A c \in Range(go) : c.op # "SELECT" /\ \A f : c # Select(f)
    BY <1>8 DEF Select
  <2>2. CASE s.select_pending = NULL
    BY <1>1, <1>3, <1>6, <2>1, <2>2 DEF Selecting
  <2>3. CASE s.select_pending # NULL
    BY <1>1, <1>3, <1>6, <2>1, <2>3 DEF Selecting
  <2>4. QED  BY <2>2, <2>3
<1>16. InFolder(t, jb, sel)
  <2>1. s.select_pending = NULL => s.select_folder = sel
    BY <1>3 DEF Selecting
  <2>2. QED  BY <1>1, <1>3, <1>6, <2>1 DEF InFolder
<1>17. Range(t.queue) \cup Range(t.active) = Range(s.queue) \cup Range(s.active)
  BY <1>1, <1>6
<1>18. Fresh(t, jb, ic)
  BY <1>3, <1>17 DEF Fresh
<1>19. QED  BY <1>1, <1>3, <1>10, <1>11, <1>12, <1>13, <1>14, <1>15, <1>16, <1>17, <1>18 DEF Connected, Ours

\* A change that leaves the queues and the stream alone.
SameQueues(s, t) ==
  /\ t.queue = s.queue /\ t.active = s.active /\ t.stream = s.stream /\ t.literal = s.literal
  /\ t.select_folder = s.select_folder /\ t.select_pending = s.select_pending /\ t.state = s.state

\* A step of IDLE alone keeps them connected.
LEMMA IdleKeeps ==
  ASSUME NEW s, NEW jb, NEW ic, NEW ok, NEW w, NEW sel, NEW t,
         Connected(s, jb, ic, ok, w, sel), SameQueues(s, t), IdleState(t, ic, w),
         s.idle = "STARTED" => t.idle = "STARTED"
  PROVE  Connected(t, jb, ic, ok, w, sel) /\ Ours(t) = Ours(s)
<1>1. Apart(t, ic) /\ Sent(t, w) /\ Literal(t)
  BY DEF Connected, SameQueues, Apart, Sent, Literal
<1>2. Wire(t, w)
  BY DEF Connected, SameQueues, Wire
<1>3. Selecting(t, ic, ok, sel)
  BY DEF Connected, SameQueues, Selecting
<1>4. InFolder(t, jb, sel) /\ Fresh(t, jb, ic) /\ Ours(t) = Ours(s)
  BY DEF Connected, SameQueues, InFolder, Fresh, Ours
<1>5. QED  BY <1>1, <1>2, <1>3, <1>4 DEF Connected, SameQueues

\* imapx_stop_idle.
LEMMA StopIdleKeeps ==
  ASSUME NEW s \in Servers, NEW jb, NEW ic, NEW ok, NEW w, NEW sel,
         Connected(s, jb, ic, ok, w, sel)
  PROVE  /\ StopIdle(s) \in Servers /\ Connected(StopIdle(s), jb, ic, ok, w, sel)
         /\ Ours(StopIdle(s)) = Ours(s) /\ StopIdle(s).state = s.state
         /\ StopIdle(s).select_folder = s.select_folder /\ StopIdle(s).select_pending = s.select_pending
         /\ StopIdle(s).active = s.active
<1> SUFFICES ASSUME NEW t, t = StopIdle(s)
             PROVE  /\ t \in Servers /\ Connected(t, jb, ic, ok, w, sel)
                    /\ Ours(t) = Ours(s) /\ t.state = s.state
                    /\ t.select_folder = s.select_folder /\ t.select_pending = s.select_pending
                    /\ t.active = s.active
  OBVIOUS
<1>1. IdleState(s, ic, w) /\ s.idle \in {"OFF", "PENDING", "ISSUED", "STARTED", "CANCEL"}
  BY DEF Connected, Servers
<1>2. CASE s.idle \in {"OFF", "CANCEL"}
  <2>1. t = s
    BY <1>2 DEF StopIdle
  <2>2. QED  BY <2>1
<1>3. CASE s.idle = "ISSUED"
  <2>1. t = [s EXCEPT !.idle = "CANCEL"]
    BY <1>3 DEF StopIdle
  <2>2. t \in Servers /\ SameQueues(s, t) /\ t.idle = "CANCEL"
    BY <2>1 DEF Servers, SameQueues
  <2>3. IdleState(t, ic, w)
    BY <1>1, <1>3, <2>2 DEF IdleState, SameQueues
  <2>4. QED  BY <1>3, <2>2, <2>3, IdleKeeps DEF SameQueues
<1>4. CASE s.idle = "PENDING"
  <2>1. t = [s EXCEPT !.idle = "OFF"]
    BY <1>4 DEF StopIdle
  <2>2. t \in Servers /\ SameQueues(s, t) /\ t.idle = "OFF"
    BY <2>1 DEF Servers, SameQueues
  <2>3. IdleState(t, ic, w)
    BY <1>1, <1>4, <2>2 DEF IdleState, SameQueues
  <2>4. QED  BY <1>4, <2>2, <2>3, IdleKeeps DEF SameQueues
<1>5. CASE s.idle = "STARTED"
  <2>1. t = [s EXCEPT !.idle = "OFF", !.stream = Append(@, More)]
    BY <1>5 DEF StopIdle
  <2>2. s.active = <<Idle>> /\ s.stream = <<>> /\ w = Idle
    BY <1>1, <1>5 DEF IdleState
  <2>3. /\ t.queue = s.queue /\ t.active = s.active /\ t.literal = s.literal /\ t.idle = "OFF"
        /\ t.select_folder = s.select_folder /\ t.select_pending = s.select_pending /\ t.state = s.state
        /\ t.stream = <<More>> /\ t \in Servers
    <3>1. PICK st : st = Append(s.stream, More)
      OBVIOUS
    <3>2. st = <<More>>
      BY <2>2, <3>1
    <3>3. st \in Seq(Commands \cup {More})
      BY <3>2
    <3>4. t = [s EXCEPT !.idle = "OFF", !.stream = st]
      BY <2>1, <3>1
    <3>5. QED  BY <3>2, <3>3, <3>4 DEF Servers
  <2>4. Range(t.stream) = {More} /\ IsInjective(t.stream) /\ DOMAIN t.stream = {1} /\ t.stream[1] = More
        /\ t.stream # <<>>
    BY <2>3 DEF Range, IsInjective
  <2>5. /\ Apart(s, ic) /\ Sent(s, w) /\ Wire(s, w) /\ Literal(s)
        /\ Selecting(s, ic, ok, sel) /\ InFolder(s, jb, sel) /\ Fresh(s, jb, ic)
        /\ s.state \in {"INITIALISED", "SELECTED"}
    BY DEF Connected
  <2>6. Apart(t, ic)
    BY <2>3, <2>4, <2>5 DEF Apart
  <2>7. More # NoCommand /\ More # Idle /\ Idle # NoCommand /\ ~Continues(More) /\ Idle \in Commands
    BY CommandsDiffer DEF Idle, More, NoCommand, Commands
  <2>8. Sent(t, w)
    BY <2>2, <2>3, <2>4, <2>5, <2>7 DEF Sent
  <2>9. Wire(t, w)
    BY <2>2, <2>4, <2>7 DEF Wire
  <2>10. Literal(t)
    <3>1. s.literal = NoCommand
      BY <2>2, <2>5 DEF Literal, Range
    <3>2. QED  BY <2>3, <2>4, <2>7, <3>1 DEF Literal
  <2>11. IdleState(t, ic, w)
    BY <2>3, <2>4, <2>7 DEF IdleState
  <2>12. Selecting(t, ic, ok, sel)
    BY <2>3, <2>5 DEF Selecting
  <2>13. InFolder(t, jb, sel) /\ Fresh(t, jb, ic) /\ Ours(t) = Ours(s)
    BY <2>3, <2>5 DEF InFolder, Fresh, Ours
  <2>14. QED  BY <2>3, <2>5, <2>6, <2>8, <2>9, <2>10, <2>11, <2>12, <2>13 DEF Connected
<1>6. QED  BY <1>1, <1>2, <1>3, <1>4, <1>5

\* imapx_select.
LEMMA SelectKeeps ==
  ASSUME NEW s \in Servers, NEW jb, NEW ic, NEW ok, NEW w, NEW sel,
         Connected(s, jb, ic, ok, w, sel),
         s.select_pending = NULL, s.literal = NoCommand, s.active = <<>>,
         s.idle \in {"OFF", "PENDING"}, NEW f \in Folders
  PROVE  /\ Selected(s, f) \in Servers /\ Connected(Selected(s, f), jb, ic, ok, w, sel)
         /\ Ours(Selected(s, f)) = Ours(s)
<1> SUFFICES ASSUME NEW t, t = Selected(s, f)
             PROVE  t \in Servers /\ Connected(t, jb, ic, ok, w, sel) /\ Ours(t) = Ours(s)
  OBVIOUS
<1>1. /\ Apart(s, ic) /\ Sent(s, w) /\ Wire(s, w) /\ IdleState(s, ic, w)
      /\ Selecting(s, ic, ok, sel) /\ Fresh(s, jb, ic)
  BY DEF Connected
<1>2. Range(s.active) = {}
  BY DEF Range
<1>3. w = NoCommand
  BY <1>1, <1>2 DEF Sent
<1>4. s.stream = <<>>
  <2>1. ASSUME NEW i \in DOMAIN s.stream  PROVE FALSE
    <3>1. s.stream[i] # More
      BY <1>1, <1>3 DEF Wire
    <3>2. s.stream[i] \in Range(s.stream)
      BY DEF Range
    <3>3. QED  BY <1>1, <1>2, <3>1, <3>2 DEF Sent
  <2>2. QED  BY <2>1, SequencesOf
<1>5. /\ f # NULL /\ Select(f) \in Commands /\ Select(f) # More /\ Select(f) # NoCommand /\ Select(f) # Idle
      /\ ~Continues(Select(f)) /\ Select(f).op = "SELECT" /\ Select(f).folder = f
      /\ Select(f) \notin JobCommands
  BY ImapxAssumption DEF Select, Commands, Selects, More, NoCommand, Idle, Continues, JobCommands
<1>6. /\ t.queue = s.queue /\ t.active = <<Select(f)>> /\ t.stream = <<Select(f)>>
      /\ t.literal = NoCommand /\ t.idle = "OFF" /\ t.select_pending = f
      /\ t.select_folder = (IF s.select_folder = NULL THEN f ELSE NULL) /\ t.state = "INITIALISED"
      /\ t \in Servers
  <2>1. PICK c : c = Select(f)
    OBVIOUS
  <2>2. PICK a : a = Append(<<>>, c)
    OBVIOUS
  <2>3. a = <<c>> /\ c \in Commands /\ ~Continues(c)
    BY <1>5, <2>1, <2>2
  <2>4. a \in Seq(Commands) /\ a \in Seq(Commands \cup {More})
    BY <2>3
  <2>5. PICK v : v = [s EXCEPT !.idle = "OFF", !.select_pending = f,
                         !.select_folder = IF @ = NULL THEN f ELSE NULL,
                         !.state = "INITIALISED"]
    OBVIOUS
  <2>6. /\ v \in Servers /\ v.active = <<>> /\ v.stream = <<>> /\ v.queue = s.queue /\ v.literal = NoCommand
        /\ v.idle = "OFF" /\ v.select_pending = f /\ v.state = "INITIALISED"
        /\ v.select_folder = IF s.select_folder = NULL THEN f ELSE NULL
    BY <1>4, <2>5 DEF Servers, SomeFolder
  <2>7. t = CommandStart(v, c)
    BY <2>1, <2>5 DEF Selected
  <2>8. t = [v EXCEPT !.active = a, !.stream = a, !.literal = v.literal]
    BY <2>2, <2>3, <2>6, <2>7 DEF CommandStart
  <2>9. QED  BY <2>1, <2>3, <2>4, <2>6, <2>8 DEF Servers
<1>7. /\ Range(t.active) = {Select(f)} /\ Range(t.stream) = {Select(f)}
      /\ IsInjective(t.active) /\ IsInjective(t.stream)
      /\ \A i \in DOMAIN t.stream : t.stream[i] = Select(f)
  BY <1>6 DEF Range, IsInjective
<1>8. ic.op # "SELECT" /\ s.select_folder = sel
  BY <1>1 DEF Selecting
<1>9. Apart(t, ic)
  <2>1. Select(f) \notin Range(s.queue)
    BY <1>5, SequencesOf
  <2>2. ic # Select(f)
    BY <1>5, <1>8
  <2>3. IsInjective(s.queue) /\ ic \notin Range(s.queue)
    BY <1>1 DEF Apart
  <2>4. QED  BY <1>6, <1>7, <2>1, <2>2, <2>3 DEF Apart
<1>10. Sent(t, w) /\ Wire(t, w) /\ Literal(t)
  BY <1>3, <1>5, <1>6, <1>7 DEF Sent, Wire, Literal
<1>11. IdleState(t, ic, w)
  BY <1>5, <1>6, <1>7 DEF IdleState
<1>12. Selecting(t, ic, ok, sel)
  BY <1>5, <1>6, <1>7, <1>8 DEF Selecting
<1>13. InFolder(t, jb, sel)
  <2>1. SelectOf(Select(f), jb) = NULL
    BY <1>5 DEF SelectOf
  <2>2. QED  BY <1>7, <2>1 DEF InFolder
<1>14. Fresh(t, jb, ic)
  <2>1. ASSUME NEW c \in Range(t.queue) \cup Range(t.active) \cup {ic}, c.op = "JOB"
        PROVE  c \in Range(s.queue) \cup Range(s.active) \cup {ic}
    BY <1>5, <1>6, <1>7, <2>1
  <2>2. QED  BY <1>1, <2>1 DEF Fresh
<1>15. Ours(t) = Ours(s)
  BY <1>2, <1>5, <1>6, <1>7 DEF Ours
<1>16. QED  BY <1>6, <1>9, <1>10, <1>11, <1>12, <1>13, <1>14, <1>15 DEF Connected

\* imapx_command_start_next leaves the invariant and the commands of jobs as they
\* are; with the IDLE in hand there has to be something to start.
LEMMA StartNextKeeps ==
  ASSUME NEW s \in Servers, NEW jb \in JobMaps, NEW ic, NEW ok, NEW w, NEW sel,
         Connected(s, jb, ic, ok, w, sel), s.queue # <<>> \/ ic # Idle
  PROVE  LET t == CommandStartNext(s, jb)
         IN  /\ t \in Servers /\ Connected(t, jb, ic, ok, w, sel) /\ Ours(t) = Ours(s)
             /\ s.select_pending # NULL => /\ t.select_pending = s.select_pending
                                           /\ t.select_folder = s.select_folder /\ t.state = s.state
<1> SUFFICES ASSUME NEW t, t = CommandStartNext(s, jb)
             PROVE  /\ t \in Servers /\ Connected(t, jb, ic, ok, w, sel) /\ Ours(t) = Ours(s)
                    /\ s.select_pending # NULL => /\ t.select_pending = s.select_pending
                                                  /\ t.select_folder = s.select_folder /\ t.state = s.state
  OBVIOUS
<1> DEFINE Off == s.idle \in {"OFF", "PENDING"} /\ t = [s EXCEPT !.idle = "OFF"]
           Launch ==
             /\ s.idle \in {"OFF", "PENDING"} /\ s.literal = NoCommand
             /\ \E go \in Seq(JobCommands) :
                  /\ Launches([s EXCEPT !.idle = "OFF"], t, go)
                  /\ \A c \in Range(go) :
                       SelectOf(c, jb) # NULL => s.select_pending = NULL /\ SelectOf(c, jb) = s.select_folder
           Stop == s.state = "SELECTED" /\ s.select_pending = NULL /\ IdleHasToStop(s) /\ t = StopIdle(s)
           Start ==
             /\ s.state = "SELECTED" /\ s.select_pending = NULL /\ s.literal = NoCommand
             /\ s.queue = <<>> /\ s.active = <<>> /\ s.idle = "OFF"
             /\ t = StartIdle(s)
           Choose ==
             /\ s.select_pending = NULL /\ s.literal = NoCommand /\ s.active = <<>>
             /\ s.idle \in {"OFF", "PENDING"}
             /\ \E f \in Folders : s.select_folder # f /\ t = Selected(s, f)
<1>1. IdleState(s, ic, w)
  BY DEF Connected
<1>2. t = s \/ Off \/ Launch \/ Stop \/ Start \/ Choose
  <2>1. NextStarts(s, t, jb)
    BY <1>1, StartNextIs DEF IdleState
  <2>2. QED  BY <2>1 DEF NextStarts
<1>3. CASE t = s
  BY <1>3
<1>4. CASE Off
  <2>1. t \in Servers /\ SameQueues(s, t) /\ t.idle = "OFF"
    BY <1>4 DEF Servers, SameQueues
  <2>2. IdleState(t, ic, w)
    BY <1>1, <1>4, <2>1 DEF IdleState, SameQueues
  <2>3. s.idle # "STARTED"
    BY <1>4
  <2>4. Connected(t, jb, ic, ok, w, sel) /\ Ours(t) = Ours(s)
    BY <2>1, <2>2, <2>3, IdleKeeps
  <2>5. QED  BY <2>1, <2>4 DEF SameQueues
<1>5. CASE Launch
  <2>1. PICK go \in Seq(JobCommands) :
          /\ Launches([s EXCEPT !.idle = "OFF"], t, go)
          /\ \A c \in Range(go) :
               SelectOf(c, jb) # NULL => s.select_pending = NULL /\ SelectOf(c, jb) = s.select_folder
    BY <1>5
  <2>2. Connected(t, jb, ic, ok, w, sel) /\ Ours(t) = Ours(s)
    BY <1>5, <2>1, LaunchKeeps
  <2>3. t \in Servers /\ t.state = s.state /\ t.select_folder = s.select_folder
        /\ t.select_pending = s.select_pending
    BY <2>1, LaunchTypes
  <2>4. QED  BY <2>2, <2>3
<1>6. CASE Stop
  BY <1>6, StopIdleKeeps
<1>7. CASE Start
  <2>1. t \in Servers /\ SameQueues(s, t) /\ t.idle = "PENDING"
    BY <1>7 DEF Servers, SameQueues, StartIdle
  <2>2. IdleState(t, ic, w)
    BY <1>1, <1>7, <2>1 DEF IdleState, SameQueues
  <2>3. QED  BY <1>7, <2>1, <2>2, IdleKeeps DEF SameQueues
<1>8. CASE Choose
  BY <1>8, SelectKeeps
<1> HIDE DEF Off, Launch, Stop, Start, Choose
<1>9. QED  BY <1>2, <1>3, <1>4, <1>5, <1>6, <1>7, <1>8

\* imapx_command_queue is queueing and then imapx_command_start_next.
LEMMA QueueIs ==
  ASSUME NEW s, NEW jb, NEW c
  PROVE  CommandQueue(s, jb, c) = CommandStartNext([s EXCEPT !.queue = Enqueue(@, c)], jb)
<1>1. PICK v : v = [s EXCEPT !.queue = Enqueue(@, c)]
  OBVIOUS
<1>2. CommandQueue(s, jb, c) = CHOOSE next \in {CommandStartNext(queued, jb) : queued \in {v}} : TRUE
  BY <1>1 DEF CommandQueue
<1>3. {CommandStartNext(queued, jb) : queued \in {v}} = {CommandStartNext(v, jb)}
  OBVIOUS
<1>4. QED  BY <1>1, <1>2, <1>3

\* imapx_command_queue adds the command.
LEMMA QueueKeeps ==
  ASSUME NEW s \in Servers, NEW jb \in JobMaps, NEW ic, NEW ok, NEW w, NEW sel,
         Connected(s, jb, ic, ok, w, sel), NEW c \in JobCommands,
         c \notin Range(s.queue) \cup Range(s.active) \cup {ic},
         c.part <= jb[c.job].issued,
         c.job \in Async => jb[c.job].at = "wait" /\ c.part = 1
  PROVE  LET t == CommandQueue(s, jb, c)
         IN  /\ t \in Servers /\ Connected(t, jb, ic, ok, w, sel) /\ Ours(t) = Ours(s) \cup {c}
             /\ s.select_pending # NULL => /\ t.select_pending = s.select_pending
                                           /\ t.select_folder = s.select_folder /\ t.state = s.state
<1>1. PICK q : q = Enqueue(s.queue, c)
  OBVIOUS
<1>2. /\ s.queue \in Seq(JobCommands) /\ Range(s.active) \subseteq Commands
      /\ Range(s.queue) \subseteq JobCommands
  BY SequencesOf
<1>3. /\ q \in Seq(JobCommands) /\ Range(q) = Range(s.queue) \cup {c}
      /\ IsInjective(s.queue) /\ c \notin Range(s.queue) => IsInjective(q)
  BY <1>1, <1>2, EnqueueIs
<1>4. PICK v : v = [s EXCEPT !.queue = q]
  OBVIOUS
<1>5. /\ v \in Servers /\ v.queue = q /\ v.active = s.active /\ v.stream = s.stream /\ v.literal = s.literal
      /\ v.select_folder = s.select_folder /\ v.select_pending = s.select_pending /\ v.state = s.state
      /\ v.idle = s.idle
  BY <1>3, <1>4 DEF Servers
<1>6. /\ Apart(s, ic) /\ Sent(s, w) /\ Wire(s, w) /\ Literal(s) /\ IdleState(s, ic, w)
      /\ Selecting(s, ic, ok, sel) /\ InFolder(s, jb, sel) /\ Fresh(s, jb, ic)
      /\ s.state \in {"INITIALISED", "SELECTED"}
  BY DEF Connected
<1>7. Apart(v, ic)
  BY <1>3, <1>5, <1>6 DEF Apart
<1>8. Sent(v, w) /\ Wire(v, w) /\ Literal(v)
  BY <1>5, <1>6 DEF Sent, Wire, Literal
<1>9. IdleState(v, ic, w) /\ Selecting(v, ic, ok, sel)
  BY <1>5, <1>6 DEF IdleState, Selecting
<1>10. InFolder(v, jb, sel) /\ Fresh(v, jb, ic)
  BY <1>3, <1>5, <1>6 DEF InFolder, Fresh
<1>11. Connected(v, jb, ic, ok, w, sel)
  BY <1>5, <1>6, <1>7, <1>8, <1>9, <1>10 DEF Connected
<1>12. Ours(v) = Ours(s) \cup {c}
  BY <1>3, <1>5 DEF Ours
<1>13. v.queue # <<>>
  BY <1>3, <1>5 DEF Range
<1>14. CommandQueue(s, jb, c) = CommandStartNext(v, jb)
  BY <1>1, <1>4, QueueIs
<1>15. PICK t : t = CommandStartNext(v, jb)
  OBVIOUS
<1>16. /\ t \in Servers /\ Connected(t, jb, ic, ok, w, sel) /\ Ours(t) = Ours(v)
       /\ v.select_pending # NULL => /\ t.select_pending = v.select_pending
                                     /\ t.select_folder = v.select_folder /\ t.state = v.state
  BY <1>5, <1>11, <1>13, <1>15, StartNextKeeps
<1>17. QED  BY <1>5, <1>12, <1>14, <1>15, <1>16

-----------------------------------------------------------------------------
(* Types of the operators.                                                 *)

LEMMA StartAllTypes ==
  ASSUME NEW s \in Servers, NEW jb, NEW f, NEW pri, NEW strict
  PROVE  StartAll(s, Startable(s, jb, f, pri, strict)) \in Servers
<1>1. PICK S : S = Startable(s, jb, f, pri, strict)
  OBVIOUS
<1>2. S \in SUBSET DOMAIN s.queue /\ \A i \in S : \A k \in S : k < i => ~Continues(s.queue[k])
  BY <1>1, StartableIs
<1>3. PICK go \in Seq(JobCommands) : Launches(s, StartAll(s, S), go)
  BY <1>2, StartAllIs
<1>4. QED  BY <1>1, <1>3, LaunchServer DEF SentOn

\* Types: a command that is sent,
LEMMA StartTypes ==
  ASSUME NEW s \in Servers, NEW c \in Commands
  PROVE  /\ CommandStart(s, c) \in Servers
         /\ CommandStart(s, c).active = Append(s.active, c) /\ CommandStart(s, c).stream = Append(s.stream, c)
         /\ CommandStart(s, c).literal = IF Continues(c) THEN c ELSE s.literal
         /\ CommandStart(s, c).queue = s.queue /\ CommandStart(s, c).idle = s.idle
         /\ CommandStart(s, c).select_folder = s.select_folder
         /\ CommandStart(s, c).select_pending = s.select_pending /\ CommandStart(s, c).state = s.state
<1>1. PICK a, st, lit : a = Append(s.active, c) /\ st = Append(s.stream, c) /\ lit = IF Continues(c) THEN c ELSE s.literal
  OBVIOUS
<1>2. a \in Seq(Commands) /\ st \in Seq(Commands \cup {More})
  BY <1>1, SequencesOf, AppendProperties
<1>3. lit \in Commands \cup {NoCommand}
  BY <1>1 DEF Servers
<1>4. CommandStart(s, c) = [s EXCEPT !.active = a, !.stream = st, !.literal = lit]
  BY <1>1 DEF CommandStart
<1>5. QED  BY <1>1, <1>2, <1>3, <1>4 DEF Servers

\* the end of IDLE,
LEMMA StopIdleTypes ==
  ASSUME NEW s \in Servers
  PROVE  StopIdle(s) \in Servers
<1>1. PICK st : st = Append(s.stream, More)
  OBVIOUS
<1>2. st \in Seq(Commands \cup {More})
  BY <1>1, SequencesOf, AppendProperties
<1>3. CASE s.idle = "STARTED"
  <2>1. StopIdle(s) = [s EXCEPT !.idle = "OFF", !.stream = st]
    BY <1>1, <1>3 DEF StopIdle
  <2>2. QED  BY <1>2, <2>1 DEF Servers
<1>4. CASE s.idle # "STARTED"
  BY <1>4 DEF Servers, StopIdle
<1>5. QED  BY <1>3, <1>4

\* commands of the queue that are sent,
LEMMA StartQueuedTypes ==
  ASSUME NEW s \in Servers, NEW jb \in JobMaps
  PROVE  StartQueued(s, jb) \in Servers
<1> DEFINE f   == s.select_folder
           now == IF f = NULL THEN {} ELSE Startable(s, jb, f, ActivePri(s), TRUE)
           g   == SelectOf(s.queue[1], jb)
           one == Startable(s, jb, f, PriOf(s.queue[1]), FALSE)
<1> SUFFICES ASSUME NEW t, t = StartQueued(s, jb)  PROVE t \in Servers
  OBVIOUS
<1>1. t = IF s.queue = <<>> \/ (f # NULL /\ Len(s.active) > MAX_COMMANDS)
          THEN s
          ELSE IF now # {}
          THEN StartAll(s, now)
          ELSE IF g # NULL
          THEN SelectFolder(s, g)
          ELSE StartAll(s, one)
  BY DEF StartQueued
<1>2. t = s \/ (t = StartAll(s, now) /\ now # {}) \/ (t = SelectFolder(s, g) /\ g # NULL /\ s.queue # <<>>) \/ t = StartAll(s, one)
  <2> HIDE DEF now, g, one, f
  <2>1. QED  BY <1>1
<1>3. CASE t = StartAll(s, now) /\ now # {}
  <2>1. t = StartAll(s, Startable(s, jb, f, ActivePri(s), TRUE))
    BY <1>3
  <2>2. QED  BY <2>1, StartAllTypes
<1>4. CASE t = StartAll(s, one)
  BY <1>4, StartAllTypes
<1>5. CASE t = SelectFolder(s, g) /\ g # NULL /\ s.queue # <<>>
  <2>1. s.queue[1] \in JobCommands
    BY <1>5, SequencesOf
  <2>2. PICK h \in Folders : h = g
    BY <1>5, <2>1, SelectOfIs DEF SomeFolder
  <2>3. Select(h) \in Commands
    BY DEF Select, Commands, Selects
  <2>4. PICK v : v = [s EXCEPT !.select_pending = h,
                              !.select_folder = IF @ = NULL THEN h ELSE NULL,
                              !.state = "INITIALISED"]
    OBVIOUS
  <2>5. v \in Servers
    BY <2>4 DEF Servers, SomeFolder
  <2>6. t = s \/ t = CommandStart(v, Select(h))
    BY <1>5, <2>2, <2>4 DEF SelectFolder
  <2>7. QED  BY <2>3, <2>5, <2>6, StartTypes
<1>6. QED  BY <1>2, <1>3, <1>4, <1>5

\* imapx_command_start_next,
LEMMA StartNextTypes ==
  ASSUME NEW s \in Servers, NEW jb \in JobMaps
  PROVE  CommandStartNext(s, jb) \in Servers
<1>1. StartFolderless(s, jb) \in Servers
  <2>1. PICK f, pri : f = NULL /\ pri = -128
    OBVIOUS
  <2>2. StartAll(s, Startable(s, jb, f, pri, FALSE)) \in Servers
    BY StartAllTypes
  <2>3. QED  BY <2>1, <2>2 DEF StartFolderless
<1>2. StopIdle(s) \in Servers
  BY StopIdleTypes
<1>3. StartIdle(s) \in Servers
  BY DEF Servers, StartIdle
<1>4. StartQueued(s, jb) \in Servers /\ StartQueued(StopIdle(s), jb) \in Servers
  BY <1>2, StartQueuedTypes
<1>5. QED  BY <1>1, <1>2, <1>3, <1>4 DEF CommandStartNext

\* and imapx_command_queue.
LEMMA QueueTypes ==
  ASSUME NEW s \in Servers, NEW jb \in JobMaps, NEW c \in JobCommands
  PROVE  CommandQueue(s, jb, c) \in Servers
<1>1. PICK q : q = Enqueue(s.queue, c)
  OBVIOUS
<1>2. q \in Seq(JobCommands)
  BY <1>1, SequencesOf, EnqueueIs
<1>3. [s EXCEPT !.queue = q] \in Servers
  BY <1>2 DEF Servers
<1>4. CommandQueue(s, jb, c) = CommandStartNext([s EXCEPT !.queue = q], jb)
  BY <1>1, QueueIs
<1>5. QED  BY <1>3, <1>4, StartNextTypes

-----------------------------------------------------------------------------
(* The operators on the jobs.                                              *)

Created == [at |-> "new", folder |-> NULL, issued |-> 0, commands |-> 0, error |-> FALSE, replies |-> 0]

\* A job that issues a command has one more issued and one more in flight.
IssuesOne(jb, next, j) ==
  /\ next \in JobMaps /\ \A k \in Jobs \cup Async : k # j => next[k] = jb[k]
  /\ next[j] = [jb[j] EXCEPT !.issued = @ + 1, !.commands = @ + 1]

LEMMA WithNextIs ==
  ASSUME NEW jb \in JobMaps, NEW j \in Jobs \cup Async
  PROVE  IssuesOne(jb, WithNext(jb, j), j)
<1>1. jb[j] \in JobStates
  BY DEF JobMaps
<1>2. PICK i, n : i = jb[j].issued + 1 /\ n = jb[j].commands + 1
  OBVIOUS
<1>3. i \in Nat /\ n \in Int
  BY <1>1, <1>2 DEF JobStates
<1>4. PICK b : b = [jb[j] EXCEPT !.issued = i, !.commands = n]
  OBVIOUS
<1>5. b \in JobStates
  BY <1>1, <1>3, <1>4 DEF JobStates
<1>6. b = [jb[j] EXCEPT !.issued = @ + 1, !.commands = @ + 1]
  BY <1>2, <1>4
<1>7. WithNext(jb, j) = [jb EXCEPT ![j] = b]
  BY <1>1, <1>2, <1>4 DEF WithNext, JobMaps, JobStates
<1>8. /\ WithNext(jb, j) \in JobMaps
      /\ \A k \in Jobs \cup Async : k # j => WithNext(jb, j)[k] = jb[k]
      /\ WithNext(jb, j)[j] = [jb[j] EXCEPT !.issued = @ + 1, !.commands = @ + 1]
  BY <1>5, <1>6, <1>7 DEF JobMaps
<1>9. QED  BY <1>8 DEF IssuesOne

\* A job that is done is answered, or thrown away if nobody waits for it.
LEMMA JobDoneIs ==
  ASSUME NEW jb \in JobMaps, NEW j \in Jobs \cup Async
  PROVE  /\ JobDone(jb, j) \in JobMaps
         /\ \A k \in Jobs \cup Async : k # j => JobDone(jb, j)[k] = jb[k]
         /\ j \in Async => JobDone(jb, j)[j] = Created
         /\ j \notin Async => JobDone(jb, j)[j] = [jb[j] EXCEPT !.replies = @ + 1]
<1>1. jb[j] \in JobStates /\ DOMAIN jb = Jobs \cup Async
  BY DEF JobMaps
<1>2. CASE j \in Async
  <2>1. PICK b : b = Created
    OBVIOUS
  <2>2. b \in JobStates
    BY <2>1 DEF Created, JobStates, SomeFolder
  <2>3. JobDone(jb, j) = [jb EXCEPT ![j] = b]
    BY <1>2, <2>1 DEF JobDone, Created
  <2>4. QED  BY <1>2, <2>1, <2>2, <2>3 DEF JobMaps
<1>3. CASE j \notin Async
  <2>1. PICK n : n = jb[j].replies + 1
    OBVIOUS
  <2>2. n \in Nat
    BY <1>1, <2>1 DEF JobStates
  <2>3. PICK b : b = [jb[j] EXCEPT !.replies = n]
    OBVIOUS
  <2>4. b \in JobStates
    BY <1>1, <2>2, <2>3 DEF JobStates
  <2>5. JobDone(jb, j) = [jb EXCEPT ![j] = b]
    BY <1>1, <1>3, <2>1, <2>3 DEF JobDone
  <2>6. QED  BY <1>3, <2>1, <2>3, <2>4, <2>5 DEF JobMaps
<1>4. QED  BY <1>2, <1>3

\* The end of a command in the eyes of its job.
LEMMA FinishIs ==
  ASSUME NEW jb \in JobMaps, NEW j \in Jobs \cup Async, NEW n \in Int, NEW failed \in BOOLEAN
  PROVE  \E r \in JobMaps :
           /\ r = Finish(jb, j, n, failed)
           /\ \A k \in Jobs \cup Async : k # j => r[k] = jb[k]
           /\ jb[j].commands = n /\ j \in Async => r[j] = Created
           /\ jb[j].commands # n \/ j \notin Async =>
                /\ r[j].at = jb[j].at /\ r[j].folder = jb[j].folder /\ r[j].issued = jb[j].issued
                /\ r[j].commands = jb[j].commands - n
                /\ r[j].error <=> jb[j].error \/ failed
                /\ r[j].replies = IF jb[j].commands = n THEN jb[j].replies + 1 ELSE jb[j].replies
<1>1. jb[j] \in JobStates
  BY DEF JobMaps
<1>2. PICK less : less = [jb EXCEPT ![j].commands = @ - n, ![j].error = @ \/ failed]
  OBVIOUS
<1>3. PICK e \in BOOLEAN : e = (jb[j].error \/ failed)
  BY Zenon
<1>4. PICK mid : mid = [jb EXCEPT ![j].commands = @ - n]
  OBVIOUS
<1>5. /\ mid[j] = [jb[j] EXCEPT !.commands = @ - n]
      /\ \A k \in Jobs \cup Async : k # j => mid[k] = jb[k]
  BY <1>1, <1>4 DEF JobMaps
<1>6. mid[j] \in JobStates /\ mid[j].error = jb[j].error
  BY <1>1, <1>5 DEF JobStates
<1>7. mid \in JobMaps
  BY <1>4, <1>5, <1>6 DEF JobMaps
<1>8. less = [mid EXCEPT ![j].error = e]
  <2>1. less = [mid EXCEPT ![j].error = @ \/ failed]
    BY <1>2, <1>4
  <2>2. QED  BY <1>3, <1>6, <2>1, Zenon
<1>9. less[j] = [mid[j] EXCEPT !.error = e] /\ \A k \in Jobs \cup Async : k # j => less[k] = jb[k]
  BY <1>5, <1>7, <1>8 DEF JobMaps
<1>10. /\ less[j] \in JobStates /\ less[j].at = jb[j].at /\ less[j].folder = jb[j].folder
       /\ less[j].issued = jb[j].issued /\ less[j].replies = jb[j].replies /\ less[j].error = e
       /\ less[j].commands = jb[j].commands - n
  <2>1. PICK m \in JobStates, b \in {less[j]} : m = mid[j] /\ b = less[j]
    BY <1>6
  <2>2. b = [m EXCEPT !.error = e]
    BY <1>9, <2>1
  <2>3. /\ b \in JobStates /\ b.at = m.at /\ b.folder = m.folder /\ b.issued = m.issued
        /\ b.replies = m.replies /\ b.error = e /\ b.commands = m.commands
    BY <2>2 DEF JobStates
  <2>4. /\ m.at = jb[j].at /\ m.folder = jb[j].folder /\ m.issued = jb[j].issued
        /\ m.replies = jb[j].replies /\ m.commands = jb[j].commands - n
    BY <1>1, <1>5, <2>1 DEF JobStates
  <2>5. QED  BY <2>1, <2>3, <2>4
<1>11. less \in JobMaps
  BY <1>7, <1>8, <1>9, <1>10 DEF JobMaps
<1>12. Finish(jb, j, n, failed) = IF less[j].commands = 0 THEN JobDone(less, j) ELSE less
  <2> DEFINE L == [jb EXCEPT ![j].commands = @ - n, ![j].error = @ \/ failed]
  <2>1. Finish(jb, j, n, failed) = IF L[j].commands = 0 THEN JobDone(L, j) ELSE L
    BY Zenon DEF Finish
  <2>2. L = less
    BY <1>2, Zenon
  <2> HIDE DEF L
  <2>3. QED  BY <2>1, <2>2
<1>13. less[j].commands = 0 <=> jb[j].commands = n
  BY <1>1, <1>10 DEF JobStates
<1>14. PICK r : r = Finish(jb, j, n, failed)
  OBVIOUS
<1>15. CASE jb[j].commands = n
  <2>1. r = JobDone(less, j)
    BY <1>12, <1>13, <1>14, <1>15
  <2>2. /\ r \in JobMaps /\ \A k \in Jobs \cup Async : k # j => r[k] = less[k]
        /\ j \in Async => r[j] = Created
        /\ j \notin Async => r[j] = [less[j] EXCEPT !.replies = @ + 1]
    BY <1>11, <2>1, JobDoneIs
  <2>3. ASSUME j \notin Async
        PROVE  /\ r[j].at = jb[j].at /\ r[j].folder = jb[j].folder /\ r[j].issued = jb[j].issued
               /\ r[j].commands = jb[j].commands - n /\ r[j].error = e
               /\ r[j].replies = jb[j].replies + 1
    BY <1>10, <2>2, <2>3 DEF JobStates
  <2>4. j \notin Async => (r[j].error <=> jb[j].error \/ failed)
    BY <1>3, <2>3, Zenon
  <2>5. r \in JobMaps /\ \A k \in Jobs \cup Async : k # j => r[k] = jb[k]
    BY <1>9, <2>2
  <2>6. QED  BY <1>14, <1>15, <2>2, <2>3, <2>4, <2>5
<1>16. CASE jb[j].commands # n
  <2>1. r = less
    BY <1>12, <1>13, <1>14, <1>16
  <2>2. r[j].error <=> jb[j].error \/ failed
    BY <1>3, <1>10, <2>1, Zenon
  <2>3. QED  BY <1>9, <1>10, <1>11, <1>14, <1>16, <2>1, <2>2
<1>17. QED  BY <1>15, <1>16

\* What the completion of command c does: the next one is queued, or one less is
\* outstanding.
LEMMA JobCompleteIs ==
  ASSUME NEW s \in Servers, NEW jb \in JobMaps, NEW c \in JobCommands, NEW ok \in BOOLEAN
  PROVE  LET r == JobComplete(s, jb, c, ok) IN
         \/ /\ JobKind(c.job) = "steps" /\ ok /\ jb[c.job].issued < PartsOf(c.job)
            /\ s.state # "SHUTDOWN"
            /\ r.job \in JobMaps
            /\ \A k \in Jobs \cup Async : k # c.job => r.job[k] = jb[k]
            /\ r.job[c.job] = [jb[c.job] EXCEPT !.issued = @ + 1]
            /\ r.is = CommandQueue(s, r.job, Command(c.job, jb[c.job].issued + 1))
         \/ \E failed \in BOOLEAN :
              /\ r.is = s /\ r.job = Finish(jb, c.job, 1, failed)
              /\ ~ok => failed
              /\ ~failed => JobKind(c.job) # "steps" \/ ~(jb[c.job].issued < PartsOf(c.job))
<1> SUFFICES ASSUME NEW r, r = JobComplete(s, jb, c, ok)
             PROVE
             \/ /\ JobKind(c.job) = "steps" /\ ok /\ jb[c.job].issued < PartsOf(c.job)
                /\ s.state # "SHUTDOWN"
                /\ r.job \in JobMaps
                /\ \A k \in Jobs \cup Async : k # c.job => r.job[k] = jb[k]
                /\ r.job[c.job] = [jb[c.job] EXCEPT !.issued = @ + 1]
                /\ r.is = CommandQueue(s, r.job, Command(c.job, jb[c.job].issued + 1))
             \/ \E failed \in BOOLEAN :
                  /\ r.is = s /\ r.job = Finish(jb, c.job, 1, failed)
                  /\ ~ok => failed
                  /\ ~failed => JobKind(c.job) # "steps" \/ ~(jb[c.job].issued < PartsOf(c.job))
  OBVIOUS
<1>1. c.job \in Jobs \cup Async
  BY CommandsDiffer
<1>2. PICK j : j = c.job
  OBVIOUS
<1>3. r = JobComplete(s, jb, c, ok)
  OBVIOUS
<1>4. CASE JobKind(j) = "steps" /\ ok /\ jb[j].issued < PartsOf(j) /\ s.state # "SHUTDOWN"
  <2>1. PICK next : next = [WithNext(jb, j) EXCEPT ![j].commands = @ - 1]
    OBVIOUS
  <2>2. r = [is |-> CommandQueue(s, next, Command(j, jb[j].issued + 1)), job |-> next]
    BY <1>2, <1>3, <1>4, <2>1 DEF JobComplete
  <2> DEFINE w == WithNext(jb, j)
  <2>3. /\ w \in JobMaps /\ \A k \in Jobs \cup Async : k # j => w[k] = jb[k]
        /\ w[j] = [jb[j] EXCEPT !.issued = @ + 1, !.commands = @ + 1]
    <3>1. IssuesOne(jb, WithNext(jb, j), j)
      BY <1>1, <1>2, WithNextIs
    <3>2. QED  BY <3>1 DEF IssuesOne
  <2> HIDE DEF w
  <2>4. jb[j] \in JobStates
    BY <1>1, <1>2 DEF JobMaps
  <2>5. PICK m, i : m = w[j].commands - 1 /\ i = jb[j].issued + 1
    OBVIOUS
  <2>6. m = jb[j].commands /\ i \in Nat
    BY <2>3, <2>4, <2>5 DEF JobStates
  <2>7. PICK b : b = [jb[j] EXCEPT !.issued = i]
    OBVIOUS
  <2>8. b \in JobStates
    BY <2>4, <2>6, <2>7 DEF JobStates
  <2>9. b = [w[j] EXCEPT !.commands = m]
    BY <2>3, <2>4, <2>5, <2>6, <2>7 DEF JobStates
  <2>10. next = [w EXCEPT ![j] = b]
    <3>1. next = [w EXCEPT ![j].commands = @ - 1]
      BY <2>1 DEF w
    <3>2. QED  BY <1>1, <1>2, <2>3, <2>5, <2>9, <3>1 DEF JobMaps
  <2>11. next \in JobMaps /\ next[j] = b /\ \A k \in Jobs \cup Async : k # j => next[k] = jb[k]
    BY <1>1, <1>2, <2>3, <2>8, <2>10 DEF JobMaps
  <2>12. b = [jb[j] EXCEPT !.issued = @ + 1]
    BY <2>5, <2>7
  <2>13. r.job = next /\ r.is = CommandQueue(s, next, Command(j, jb[j].issued + 1))
    BY <2>2
  <2>14. /\ r.job \in JobMaps /\ \A k \in Jobs \cup Async : k # c.job => r.job[k] = jb[k]
         /\ r.job[c.job] = [jb[c.job] EXCEPT !.issued = @ + 1]
    BY <1>2, <2>11, <2>12, <2>13
  <2>15. r.is = CommandQueue(s, r.job, Command(c.job, jb[c.job].issued + 1))
    BY <1>2, <2>13
  <2>16. /\ JobKind(c.job) = "steps" /\ ok /\ jb[c.job].issued < PartsOf(c.job)
         /\ s.state # "SHUTDOWN"
    BY <1>2, <1>4
  <2>17. QED  BY <1>3, <2>14, <2>15, <2>16, Zenon
<1>5. CASE ~(JobKind(j) = "steps" /\ ok /\ jb[j].issued < PartsOf(j) /\ s.state # "SHUTDOWN")
  <2>1. CASE JobKind(j) = "steps" /\ ok /\ jb[j].issued < PartsOf(j)
    <3>1. r = [is |-> s, job |-> Finish(jb, j, 1, TRUE)]
      BY <1>2, <1>3, <1>5, <2>1 DEF JobComplete
    <3>2. PICK failed \in BOOLEAN : failed = TRUE
      OBVIOUS
    <3>3. r.is = s /\ r.job = Finish(jb, c.job, 1, failed)
      BY <1>2, <3>1, <3>2
    <3>4. QED  BY <3>2, <3>3, Zenon
  <2>2. CASE ~(JobKind(j) = "steps" /\ ok /\ jb[j].issued < PartsOf(j))
    <3>1. r = [is |-> s, job |-> Finish(jb, j, 1, ~ok)]
      BY <1>2, <1>3, <2>2 DEF JobComplete
    <3>2. PICK failed \in BOOLEAN : failed = ~ok
      OBVIOUS
    <3>3. r.is = s /\ r.job = Finish(jb, c.job, 1, failed)
      BY <1>2, <3>1, <3>2
    <3>4. (~ok => failed) /\ (~failed => JobKind(c.job) # "steps" \/ ~(jb[c.job].issued < PartsOf(c.job)))
      BY <1>2, <2>2, <3>2
    <3>5. \E fail \in BOOLEAN :
            /\ r.is = s /\ r.job = Finish(jb, c.job, 1, fail)
            /\ ~ok => fail
            /\ ~fail => JobKind(c.job) # "steps" \/ ~(jb[c.job].issued < PartsOf(c.job))
      BY <3>3, <3>4, Zenon
    <3>6. QED  BY <1>3, <3>5
  <2>3. QED  BY <2>1, <2>2
<1>6. QED  BY <1>4, <1>5

\* imapx_server_fetch_new_messages: nothing, or a new job with its first command.
LEMMA FetchIs ==
  ASSUME NEW s, NEW jb \in JobMaps, NEW f \in SomeFolder
  PROVE  \E r : /\ r = FetchNewMessages(s, jb, f)
                /\ \/ r.is = s /\ r.job = jb
                   \/ \E a \in Async :
                        /\ jb[a].at = "new" /\ r.job \in JobMaps
                        /\ \A k \in Jobs \cup Async : k # a => r.job[k] = jb[k]
                        /\ r.job[a].at = "wait" /\ r.job[a].folder = f
                        /\ r.job[a].issued = jb[a].issued + 1 /\ r.job[a].commands = jb[a].commands + 1
                        /\ r.is = CommandQueue(s, r.job, Command(a, 1))
<1> DEFINE free == {a \in Async : jb[a].at = "new"}
<1>1. CASE free = {}
  <2>1. FetchNewMessages(s, jb, f) = [is |-> s, job |-> jb]
    BY <1>1 DEF FetchNewMessages
  <2>2. QED  BY <2>1
<1>2. CASE free # {}
  <2>1. PICK a \in free : a = CHOOSE x \in free : TRUE
    BY <1>2
  <2>2. PICK mid : mid = [jb EXCEPT ![a].at = "wait", ![a].folder = f]
    OBVIOUS
  <2>3. PICK with : with = WithNext(mid, a)
    OBVIOUS
  <2>4. PICK r : r = FetchNewMessages(s, jb, f)
    OBVIOUS
  <2>5. r = [is |-> CommandQueue(s, with, Command(a, 1)), job |-> with]
    BY <1>2, <2>1, <2>2, <2>3, <2>4 DEF FetchNewMessages
  <2>6. a \in Jobs \cup Async /\ jb[a] \in JobStates /\ a \in Async /\ jb[a].at = "new"
    BY <2>1 DEF JobMaps
  <2>7. PICK b : b = [jb[a] EXCEPT !.at = "wait", !.folder = f]
    OBVIOUS
  <2>8. b \in JobStates
    BY <2>6, <2>7 DEF JobStates, SomeFolder
  <2>9. mid = [jb EXCEPT ![a] = b]
    BY <2>2, <2>6, <2>7 DEF JobMaps, JobStates
  <2>10. mid \in JobMaps /\ mid[a] = b /\ \A k \in Jobs \cup Async : k # a => mid[k] = jb[k]
    BY <2>6, <2>8, <2>9 DEF JobMaps
  <2>11. /\ WithNext(mid, a) \in JobMaps
         /\ \A k \in Jobs \cup Async : k # a => WithNext(mid, a)[k] = mid[k]
         /\ WithNext(mid, a)[a] = [mid[a] EXCEPT !.issued = @ + 1, !.commands = @ + 1]
    <3>1. IssuesOne(mid, WithNext(mid, a), a)
      BY <2>6, <2>10, WithNextIs
    <3>2. QED  BY <3>1 DEF IssuesOne
  <2>12. /\ with[a].at = "wait" /\ with[a].folder = f
         /\ with[a].issued = jb[a].issued + 1 /\ with[a].commands = jb[a].commands + 1
    BY <2>3, <2>6, <2>7, <2>10, <2>11 DEF JobStates
  <2>13. with \in JobMaps /\ \A k \in Jobs \cup Async : k # a => with[k] = jb[k]
    BY <2>3, <2>10, <2>11
  <2>14. r.job = with /\ r.is = CommandQueue(s, with, Command(a, 1))
    BY <2>5
  <2>15. QED  BY <2>4, <2>6, <2>12, <2>13, <2>14
<1> HIDE DEF free
<1>3. QED  BY <1>1, <1>2

\* Types: the end of a job's command,
LEMMA JobCompleteTypes ==
  ASSUME NEW s \in Servers, NEW jb \in JobMaps, NEW c \in JobCommands, NEW ok \in BOOLEAN
  PROVE  JobComplete(s, jb, c, ok).is \in Servers /\ JobComplete(s, jb, c, ok).job \in JobMaps
<1> SUFFICES ASSUME NEW r, r = JobComplete(s, jb, c, ok)  PROVE r.is \in Servers /\ r.job \in JobMaps
  OBVIOUS
<1>1. \/ /\ r.job \in JobMaps
         /\ r.is = CommandQueue(s, r.job, Command(c.job, jb[c.job].issued + 1))
      \/ \E failed \in BOOLEAN : r.is = s /\ r.job = Finish(jb, c.job, 1, failed)
  <2>1. \/ /\ JobKind(c.job) = "steps" /\ ok /\ jb[c.job].issued < PartsOf(c.job)
           /\ s.state # "SHUTDOWN"
           /\ r.job \in JobMaps
           /\ \A k \in Jobs \cup Async : k # c.job => r.job[k] = jb[k]
           /\ r.job[c.job] = [jb[c.job] EXCEPT !.issued = @ + 1]
           /\ r.is = CommandQueue(s, r.job, Command(c.job, jb[c.job].issued + 1))
        \/ \E failed \in BOOLEAN :
             /\ r.is = s /\ r.job = Finish(jb, c.job, 1, failed)
             /\ ~ok => failed
             /\ ~failed => JobKind(c.job) # "steps" \/ ~(jb[c.job].issued < PartsOf(c.job))
    BY JobCompleteIs
  <2>2. QED  BY <2>1, Zenon
<1>2. c.job \in Jobs \cup Async /\ jb[c.job] \in JobStates
  BY CommandsDiffer DEF JobMaps
<1>3. jb[c.job].issued + 1 \in Nat \ {0}
  BY <1>2 DEF JobStates
<1>4. Command(c.job, jb[c.job].issued + 1) \in JobCommands
  BY <1>2, <1>3, CommandIs
<1>5. ASSUME NEW failed \in BOOLEAN  PROVE Finish(jb, c.job, 1, failed) \in JobMaps
  <2>1. PICK j \in Jobs \cup Async : j = c.job
    BY <1>2
  <2>2. \A n \in Int : Finish(jb, j, n, failed) \in JobMaps
    BY FinishIs
  <2>3. QED  BY <2>1, <2>2
<1>6. QED  BY <1>1, <1>4, <1>5, QueueTypes

\* and the FETCH of new messages that an answer sets off.
LEMMA FetchTypes ==
  ASSUME NEW s \in Servers, NEW jb \in JobMaps, NEW f \in SomeFolder
  PROVE  FetchNewMessages(s, jb, f).is \in Servers /\ FetchNewMessages(s, jb, f).job \in JobMaps
<1>1. PICK r : /\ r = FetchNewMessages(s, jb, f)
               /\ \/ r.is = s /\ r.job = jb
                  \/ \E a \in Async : r.job \in JobMaps /\ r.is = CommandQueue(s, r.job, Command(a, 1))
  BY FetchIs
<1>2. \A a \in Async : Command(a, 1) \in JobCommands
  BY CommandIs
<1>3. QED  BY <1>1, <1>2, QueueTypes

\* The folder is selected; the SELECT is not over yet.
Opened(s) == [s EXCEPT !.select_folder = IF @ = NULL THEN s.select_pending ELSE @,
                       !.state = "SELECTED"]

\* What a SELECT that succeeded changes.
LEMMA SelectOkIs ==
  ASSUME NEW s \in Servers, NEW jb \in JobMaps, NEW grown, NEW r, r = SelectOk(s, jb, grown)
  PROVE  \/ r.is = [Opened(s) EXCEPT !.select_pending = NULL] /\ r.job = jb
         \/ LET q == FetchNewMessages(Opened(s), jb, s.select_pending)
            IN  r.is = [q.is EXCEPT !.select_pending = NULL] /\ r.job = q.job
<1>0. PICK v : v = Opened(s)
  OBVIOUS
<1>1. CASE grown
  <2>1. PICK q : q = FetchNewMessages(v, jb, s.select_pending)
    OBVIOUS
  <2>2. r = [q EXCEPT !.is.select_pending = NULL]
    BY <1>0, <1>1, <2>1 DEF SelectOk, Opened
  <2>3. r.is = [q.is EXCEPT !.select_pending = NULL] /\ r.job = q.job
    <3>1. \E i, b : q = [is |-> i, job |-> b]
      BY <2>1 DEF FetchNewMessages
    <3>2. QED  BY <2>2, <3>1
  <2>4. QED  BY <1>0, <2>1, <2>3
<1>2. CASE ~grown
  <2>1. r = [[is |-> v, job |-> jb] EXCEPT !.is.select_pending = NULL]
    BY <1>0, <1>2 DEF SelectOk, Opened
  <2>2. r = [is |-> [v EXCEPT !.select_pending = NULL], job |-> jb]
    BY <2>1
  <2>3. QED  BY <1>0, <2>2
<1>3. QED  BY <1>1, <1>2

\* Types: a SELECT that succeeded.
LEMMA SelectOkTypes ==
  ASSUME NEW s \in Servers, NEW jb \in JobMaps, NEW grown
  PROVE  SelectOk(s, jb, grown).is \in Servers /\ SelectOk(s, jb, grown).job \in JobMaps
<1>1. PICK r, v : r = SelectOk(s, jb, grown) /\ v = Opened(s)
  OBVIOUS
<1>2. PICK q : q = FetchNewMessages(v, jb, s.select_pending)
  OBVIOUS
<1>3. \/ r.is = [v EXCEPT !.select_pending = NULL] /\ r.job = jb
      \/ r.is = [q.is EXCEPT !.select_pending = NULL] /\ r.job = q.job
  <2>1. \/ r.is = [Opened(s) EXCEPT !.select_pending = NULL] /\ r.job = jb
        \/ LET p == FetchNewMessages(Opened(s), jb, s.select_pending)
           IN  r.is = [p.is EXCEPT !.select_pending = NULL] /\ r.job = p.job
    BY <1>1, SelectOkIs
  <2>2. QED  BY <1>1, <1>2, <2>1
<1>4. v \in Servers /\ s.select_pending \in SomeFolder
  BY <1>1 DEF Servers, SomeFolder, Opened
<1>5. \A x \in Servers : [x EXCEPT !.select_pending = NULL] \in Servers
  BY DEF Servers, SomeFolder
<1>6. q.is \in Servers /\ q.job \in JobMaps
  BY <1>2, <1>4, FetchTypes
<1>7. r.is \in Servers /\ r.job \in JobMaps
  BY <1>3, <1>4, <1>5, <1>6
<1>8. QED  BY <1>1, <1>7

\* n commands of the job fail.
Failed(jb, j, n) == Finish(jb, j, n, TRUE)

\* A command that failed, in the eyes of its job.
FailedState(b, b2, n) ==
  /\ b2.at = b.at /\ b2.folder = b.folder /\ b2.issued = b.issued
  /\ b2.commands = b.commands - n /\ b2.error = TRUE
  /\ b2.replies = IF b.commands = n THEN b.replies + 1 ELSE b.replies

LEMMA FailedIs ==
  ASSUME NEW jb \in JobMaps, NEW j \in Jobs \cup Async, NEW n \in Nat
  PROVE  /\ Failed(jb, j, n)[j] \in JobStates
         /\ j \notin Async => FailedState(jb[j], Failed(jb, j, n)[j], n)
<1>1. PICK failed \in BOOLEAN : failed = TRUE
  OBVIOUS
<1>2. PICK r \in JobMaps :
        /\ r = Finish(jb, j, n, failed)
        /\ jb[j].commands # n \/ j \notin Async =>
             /\ r[j].at = jb[j].at /\ r[j].folder = jb[j].folder /\ r[j].issued = jb[j].issued
             /\ r[j].commands = jb[j].commands - n
             /\ r[j].error <=> jb[j].error \/ failed
             /\ r[j].replies = IF jb[j].commands = n THEN jb[j].replies + 1 ELSE jb[j].replies
  BY FinishIs
<1>3. r[j] \in JobStates
  BY DEF JobMaps
<1>4. j \notin Async => r[j].error = TRUE
  <2>1. j \notin Async => r[j].error
    BY <1>1, <1>2
  <2>2. r[j].error \in BOOLEAN
    BY <1>3 DEF JobStates
  <2>3. QED  BY <2>1, <2>2
<1>5. r = Failed(jb, j, n)
  BY <1>1, <1>2 DEF Failed
<1>6. j \notin Async => FailedState(jb[j], r[j], n)
  BY <1>2, <1>4 DEF FailedState
<1>7. QED  BY <1>3, <1>5, <1>6

\* The commands that fail with the SELECT, by their positions in the queue.
Failing(s, jb) == {i \in DOMAIN s.queue : SelectOf(s.queue[i], jb) = s.select_pending}
FailingOf(s, jb, j) == {i \in Failing(s, jb) : s.queue[i].job = j}

\* What is left of a failed SELECT: its folder's commands are not queued any more,
\* and their jobs are done with them.
LeftOver(s, jb, r) ==
  /\ r.is \in Servers /\ r.job \in JobMaps
  /\ r.is.queue = Keep(s.queue, DOMAIN s.queue \ Failing(s, jb))
  /\ r.is.active = s.active /\ r.is.stream = s.stream /\ r.is.literal = s.literal
  /\ r.is.idle = s.idle /\ r.is.select_pending = NULL /\ r.is.select_folder = NULL
  /\ \A j \in Jobs \cup Async :
       \E n \in Nat :
         /\ n = Cardinality(FailingOf(s, jb, j))
         /\ r.job[j] = IF FailingOf(s, jb, j) = {} THEN jb[j] ELSE Failed(jb, j, n)[j]

LEMMA SelectFailedIs ==
  ASSUME NEW s \in Servers, NEW jb \in JobMaps, NEW byError,
         NEW r, r = SelectFailed(s, jb, byError)
  PROVE  LeftOver(s, jb, r)
<1>14. PICK failed : failed = Failing(s, jb)
  OBVIOUS
<1>15. failed = {i \in DOMAIN s.queue : SelectOf(s.queue[i], jb) = s.select_pending}
  BY <1>14 DEF Failing
<1>16. PICK q, st : /\ q = Keep(s.queue, DOMAIN s.queue \ failed)
                   /\ st = IF byError /\ Cardinality(failed) > 1 THEN "CRASHED" ELSE "INITIALISED"
  OBVIOUS
<1> DEFINE Of(j)  == {i \in failed : s.queue[i].job = j}
           New(j) == IF Of(j) = {} THEN jb[j] ELSE Failed(jb, j, Cardinality(Of(j)))[j]
<1>1. s.queue \in Seq(JobCommands) /\ DOMAIN s.queue = 1..Len(s.queue) /\ Len(s.queue) \in Nat
  BY SequencesOf
<1>2. q \in Seq(JobCommands)
  BY <1>15, <1>16, <1>1, KeepIs
<1>3. r = [is |-> [s EXCEPT !.queue = q, !.select_pending = NULL, !.select_folder = NULL, !.state = st],
           job |-> [j \in DOMAIN jb |-> New(j)]]
  BY <1>15, <1>16 DEF SelectFailed, Failed
<1>4. st \in {"CRASHED", "INITIALISED"}
  BY <1>16
<1>5. [s EXCEPT !.queue = q, !.select_pending = NULL, !.select_folder = NULL, !.state = st] \in Servers
  BY <1>2, <1>4 DEF Servers, SomeFolder
<1>6. ASSUME NEW j \in Jobs \cup Async
      PROVE  Cardinality(Of(j)) \in Nat
  BY <1>15, <1>1, PositionsFinite
<1>7. ASSUME NEW j \in Jobs \cup Async  PROVE New(j) \in JobStates
  <2>1. jb[j] \in JobStates
    BY DEF JobMaps
  <2>2. PICK n \in Nat : n = Cardinality(Of(j))
    <3> HIDE DEF Of
    <3>1. QED  BY <1>6
  <2> HIDE DEF Of
  <2>3. Failed(jb, j, Cardinality(Of(j)))[j] \in JobStates
    BY <2>2, FailedIs
  <2>4. QED  BY <2>1, <2>3
<1>8. DOMAIN jb = Jobs \cup Async
  BY DEF JobMaps
<1> HIDE DEF New
<1>9. r.job \in JobMaps /\ \A j \in Jobs \cup Async : r.job[j] = New(j)
  BY <1>3, <1>7, <1>8 DEF JobMaps
<1>10. r.is = [s EXCEPT !.queue = q, !.select_pending = NULL, !.select_folder = NULL, !.state = st]
  BY <1>3
<1>11. ASSUME NEW j \in Jobs \cup Async
       PROVE  \E n \in Nat : /\ n = Cardinality(FailingOf(s, jb, j))
                         /\ r.job[j] = IF FailingOf(s, jb, j) = {} THEN jb[j] ELSE Failed(jb, j, n)[j]
  <2>1. Of(j) = FailingOf(s, jb, j)
    BY <1>14 DEF FailingOf
  <2>2. PICK n \in Nat : n = Cardinality(Of(j))
    BY <1>6
  <2>3. r.job[j] = IF Of(j) = {} THEN jb[j] ELSE Failed(jb, j, Cardinality(Of(j)))[j]
    BY <1>9 DEF New
  <2> HIDE DEF Of
  <2>4. r.job[j] = IF Of(j) = {} THEN jb[j] ELSE Failed(jb, j, n)[j]
    BY <2>2, <2>3
  <2>5. n = Cardinality(FailingOf(s, jb, j)) /\ r.job[j] = IF FailingOf(s, jb, j) = {} THEN jb[j] ELSE Failed(jb, j, n)[j]
    BY <2>1, <2>2, <2>4
  <2>6. QED  BY <2>5
<1>12. /\ r.is \in Servers /\ r.is.queue = q
       /\ r.is.active = s.active /\ r.is.stream = s.stream /\ r.is.literal = s.literal
       /\ r.is.idle = s.idle /\ r.is.select_pending = NULL /\ r.is.select_folder = NULL
       /\ r.is.state = st
  BY <1>2, <1>4, <1>5, <1>10 DEF Servers
<1>13. r.is.queue = Keep(s.queue, DOMAIN s.queue \ Failing(s, jb))
  BY <1>14, <1>16, <1>12
<1>17. QED  BY <1>9, <1>11, <1>12, <1>13 DEF LeftOver

\* After a failed SELECT no folder is selected.
LEMMA SelectFailedState ==
  ASSUME NEW s \in Servers, NEW jb
  PROVE  SelectFailed(s, jb, FALSE).is.state = "INITIALISED"
BY DEF SelectFailed, Servers

\* A sequence that has one element, once.
LEMMA OneElement ==
  ASSUME NEW X, NEW q \in Seq(X), NEW x, Range(q) = {x}, IsInjective(q)
  PROVE  q = <<x>>
<1>1. DOMAIN q = 1..Len(q) /\ Len(q) \in Nat /\ \A i \in DOMAIN q : q[i] = x
  BY DEF Range
<1>2. Len(q) >= 1
  BY <1>1 DEF Range
<1>3. \A m \in Nat : m >= 1 /\ DOMAIN q = 1..m => m = 1
  <2>1. ASSUME NEW m \in Nat, m >= 2, DOMAIN q = 1..m  PROVE FALSE
    <3>1. 1 \in DOMAIN q /\ 2 \in DOMAIN q
      BY <2>1
    <3>2. q[1] = q[2]
      BY <1>1, <3>1
    <3>3. QED  BY <3>1, <3>2 DEF IsInjective
  <2>2. QED  BY <2>1
<1>4. Len(q) = 1
  BY <1>1, <1>2, <1>3, Zenon
<1>5. QED  BY <1>1, <1>4

-----------------------------------------------------------------------------
(* Type correctness.                                                       *)

\* The type of each variable.
TypeOK ==
  /\ is \in Servers
  /\ job \in JobMaps
  /\ parser \in [at : {"read", "complete", "next", "cancelActive", "cancelQueue", "gone"},
                 ic : Commands \cup {NoCommand}, ok : BOOLEAN]
  /\ idler \in [at : {"wait", "check", "issue", "reply", "fetch"}, folder : SomeFolder,
                answer : {"none", "ok", "error"}]
  /\ server \in [selected : SomeFolder, waiting : Commands \cup {NoCommand}]
  /\ news \subseteq SomeFolder
  /\ ran \subseteq JobCommands

\* Types hold at first.
LEMMA InitTypes == Init => TypeOK
<1> SUFFICES ASSUME Init  PROVE TypeOK
  OBVIOUS
<1>1. is \in Servers
  BY DEF Init, Servers, SomeFolder
<1>2. ASSUME NEW j \in Jobs \cup Async
      PROVE  [at |-> "new", folder |-> IF j \in Jobs THEN FolderOf[j] ELSE NULL,
              issued |-> 0, commands |-> 0, error |-> FALSE, replies |-> 0] \in JobStates
  <2>1. PICK f \in SomeFolder : f = IF j \in Jobs THEN FolderOf[j] ELSE NULL
    BY ImapxAssumption DEF SomeFolder
  <2>2. QED  BY <2>1 DEF JobStates
<1>3. job \in JobMaps
  BY <1>2 DEF Init, JobMaps
<1>4. /\ parser \in [at : {"read", "complete", "next", "cancelActive", "cancelQueue", "gone"},
                     ic : Commands \cup {NoCommand}, ok : BOOLEAN]
      /\ idler \in [at : {"wait", "check", "issue", "reply", "fetch"}, folder : SomeFolder,
                    answer : {"none", "ok", "error"}]
      /\ server \in [selected : SomeFolder, waiting : Commands \cup {NoCommand}]
      /\ news \subseteq SomeFolder /\ ran \subseteq JobCommands
  BY DEF Init, SomeFolder
<1>5. QED  BY <1>1, <1>3, <1>4 DEF TypeOK

\* The command is the next one of the job, with room for it in the counts.
LEMMA NextCommandIs ==
  ASSUME NEW jb \in JobMaps, NEW j \in Jobs \cup Async
  PROVE  /\ jb[j] \in JobStates /\ jb[j].issued \in Nat /\ jb[j].issued + 1 \in Nat \ {0}
         /\ Command(j, jb[j].issued + 1) \in JobCommands
         /\ Command(j, jb[j].issued + 1).job = j
         /\ Command(j, jb[j].issued + 1).part = jb[j].issued + 1
<1>1. jb[j] \in JobStates
  BY DEF JobMaps
<1>2. jb[j].issued \in Nat /\ jb[j].issued + 1 \in Nat \ {0}
  BY <1>1 DEF JobStates
<1>3. QED  BY <1>1, <1>2, CommandIs

\* A job that is taken on, waits or returns.
LEMMA MovesOn ==
  ASSUME NEW jb \in JobMaps, NEW j \in Jobs \cup Async,
         NEW a \in {"new", "refused", "start", "check", "wait", "returned"}
  PROVE  /\ [jb EXCEPT ![j].at = a] \in JobMaps
         /\ \A k \in Jobs \cup Async : k # j => [jb EXCEPT ![j].at = a][k] = jb[k]
         /\ [jb EXCEPT ![j].at = a][j] = [jb[j] EXCEPT !.at = a]
<1>1. jb[j] \in JobStates
  BY DEF JobMaps
<1>2. PICK b : b = [jb[j] EXCEPT !.at = a]
  OBVIOUS
<1>3. b \in JobStates
  BY <1>1, <1>2 DEF JobStates
<1>4. [jb EXCEPT ![j].at = a] = [jb EXCEPT ![j] = b]
  BY <1>1, <1>2 DEF JobMaps, JobStates
<1>5. QED  BY <1>2, <1>3, <1>4 DEF JobMaps

\* A command that has been answered leaves the active ones and the literal.
LEMMA DetachedIs ==
  ASSUME is \in Servers, NEW c \in Commands, NEW st \in Seq(Commands \cup {More}), NEW t, t = Detached(c, st)
  PROVE  /\ t \in Servers /\ t.queue = is.queue /\ t.idle = is.idle /\ t.state = is.state
         /\ t.select_folder = is.select_folder /\ t.select_pending = is.select_pending
         /\ t.literal = (IF is.literal = c THEN NoCommand ELSE is.literal) /\ t.stream = st
         /\ Range(t.active) = Range(is.active) \ {c}
         /\ IsInjective(is.active) => IsInjective(t.active)
         /\ \A x : is.active = <<x>> /\ x # c => t.active = <<x>>
         /\ is.active = <<c>> \/ is.active = <<>> => t.active = <<>>
<1> DEFINE P == {k \in DOMAIN is.active : is.active[k] # c}
<1>1. PICK a, lit : a = Keep(is.active, P) /\ lit = IF is.literal = c THEN NoCommand ELSE is.literal
  OBVIOUS
<1>2. is.active \in Seq(Commands) /\ is.literal \in Commands \cup {NoCommand}
  BY DEF Servers
<1>3. /\ a \in Seq(Commands)
      /\ \A i \in P : is.active[i] \in Range(a)
      /\ \A x \in Range(a) : \E i \in P : x = is.active[i]
      /\ IsInjective(is.active) => IsInjective(a)
  <2>1. P \in SUBSET DOMAIN is.active
    OBVIOUS
  <2> HIDE DEF P
  <2>2. QED  BY <1>1, <1>2, <2>1, KeepIs
<1>4. t = [is EXCEPT !.active = a, !.literal = lit, !.stream = st]
  BY <1>1 DEF Detached
<1>5. t \in Servers /\ t.active = a
  BY <1>1, <1>2, <1>3, <1>4 DEF Servers
<1>6. Range(a) = Range(is.active) \ {c}
  BY <1>3 DEF Range
<1>7. /\ t.queue = is.queue /\ t.idle = is.idle /\ t.state = is.state
      /\ t.select_folder = is.select_folder /\ t.select_pending = is.select_pending
      /\ t.literal = lit /\ t.stream = st
  BY <1>4, <1>5 DEF Servers
<1>8. ASSUME is.active = <<c>> \/ is.active = <<>>  PROVE a = <<>>
  <2>1. Range(is.active) \subseteq {c}
    BY <1>8 DEF Range
  <2>2. Range(a) = {}
    BY <1>6, <2>1
  <2>3. QED  BY <1>3, <2>2 DEF Range
<1>9. ASSUME NEW x, is.active = <<x>>, x # c  PROVE a = <<x>>
  <2>1. Range(is.active) = {x} /\ IsInjective(is.active)
    BY <1>9 DEF Range, IsInjective
  <2>2. Range(a) = {x} /\ IsInjective(a)
    BY <1>3, <1>6, <1>9, <2>1
  <2>3. QED  BY <1>3, <2>2, OneElement
<1>10. QED  BY <1>1, <1>3, <1>5, <1>6, <1>7, <1>8, <1>9

\* The callers and the idle thread.
LEMMA CallerTypes ==
  ASSUME TypeOK, NEW j \in Jobs, Submit(j) \/ StartJob(j) \/ CheckStored(j) \/ Return(j)
  PROVE  TypeOK'
<1>1. is \in Servers /\ job \in JobMaps /\ j \in Jobs \cup Async
  BY DEF TypeOK
<1>2. CASE Submit(j)
  <2>1. PICK a \in {"start", "refused"} : a = IF Registers THEN "start" ELSE "refused"
    OBVIOUS
  <2>2. job' = [job EXCEPT ![j].at = a] /\ UNCHANGED <<is, parser, idler, server, news, ran>>
    BY <1>2, <2>1 DEF Submit
  <2>3. [job EXCEPT ![j].at = a] \in JobMaps
    BY <1>1, MovesOn
  <2>4. QED  BY <2>2, <2>3 DEF TypeOK
<1>3. CASE CheckStored(j)
  <2>1. PICK jb : jb = IF job[j].commands = 0 THEN JobDone(job, j) ELSE job
    OBVIOUS
  <2>2. jb \in JobMaps
    BY <1>1, <2>1, JobDoneIs
  <2>3. job' = [jb EXCEPT ![j].at = "wait"] /\ UNCHANGED <<is, parser, idler, server, news, ran>>
    BY <1>3, <2>1 DEF CheckStored
  <2>4. [jb EXCEPT ![j].at = "wait"] \in JobMaps
    BY <1>1, <2>2, MovesOn
  <2>5. QED  BY <2>3, <2>4 DEF TypeOK
<1>4. CASE Return(j)
  <2>1. [job EXCEPT ![j].at = "returned"] \in JobMaps
    BY <1>1, MovesOn
  <2>2. QED  BY <1>4, <2>1 DEF Return, TypeOK
<1>5. CASE StartJob(j)
  <2>1. PICK c, at : /\ c = Command(j, job[j].issued + 1)
                     /\ at = IF c.part < Starts(j) THEN "start"
                             ELSE IF Kind[j] = "store" THEN "check" ELSE "wait"
    OBVIOUS
  <2>2. PICK next : next = WithNext(job, j)
    OBVIOUS
  <2>3. PICK jb : jb = [next EXCEPT ![j].at = at]
    OBVIOUS
  <2>4. /\ IF is.state = "SHUTDOWN"
           THEN job' = JobComplete(is, jb, c, FALSE).job /\ UNCHANGED is
           ELSE is' = CommandQueue(is, jb, c) /\ job' = jb
        /\ UNCHANGED <<parser, idler, server, news, ran>>
    BY <1>5, <2>1, <2>2, <2>3 DEF StartJob
  <2>5. next \in JobMaps
    BY <1>1, <2>2, WithNextIs DEF IssuesOne
  <2>6. at \in {"start", "check", "wait"}
    BY <2>1
  <2>7. jb \in JobMaps
    BY <1>1, <2>3, <2>5, <2>6, MovesOn
  <2>8. c \in JobCommands
    BY <1>1, <2>1, NextCommandIs
  <2>9. JobComplete(is, jb, c, FALSE).job \in JobMaps /\ CommandQueue(is, jb, c) \in Servers
    BY <1>1, <2>7, <2>8, JobCompleteTypes, QueueTypes
  <2>10. is' \in Servers /\ job' \in JobMaps
    BY <1>1, <2>4, <2>7, <2>9
  <2>11. QED  BY <2>4, <2>10 DEF TypeOK
<1>6. QED  BY <1>2, <1>3, <1>4, <1>5

\* Types: the steps of the idle thread,
LEMMA IdlerTypes ==
  ASSUME TypeOK, Idler
  PROVE  TypeOK'
<1>1. is \in Servers /\ job \in JobMaps
  BY DEF TypeOK
<1>2. CASE IdleWake
  <2>1. [is EXCEPT !.watch = FALSE] \in Servers
    BY <1>1 DEF Servers
  <2>2. QED  BY <1>2, <2>1 DEF IdleWake, TypeOK
<1>3. CASE IdleCheck
  <2>1. is.select_folder \in SomeFolder /\ NULL \in SomeFolder
    BY <1>1 DEF Servers, SomeFolder
  <2>2. QED  BY <1>3, <2>1 DEF IdleCheck, TypeOK
<1>4. CASE IdleIssue
  <2>1. PICK v : v = [is EXCEPT !.idle = "ISSUED"]
    OBVIOUS
  <2>2. v \in Servers
    BY <1>1, <2>1 DEF Servers
  <2>3. CommandStart(v, Idle) \in Servers
    BY <2>2, StartTypes DEF Commands
  <2>4. is' = CommandStart(v, Idle) \/ is' = is
    BY <1>4, <2>1 DEF IdleIssue
  <2>5. is' \in Servers
    BY <1>1, <2>3, <2>4
  <2>6. QED  BY <1>4, <2>5 DEF IdleIssue, TypeOK
<1>5. CASE IdleReply
  BY <1>5 DEF IdleReply, TypeOK
<1>6. CASE IdleFetch
  <2>1. PICK r : /\ r = CASE is.select_folder = NULL -> [is |-> [is EXCEPT !.state = "CRASHED"], job |-> job]
                          [] is.select_folder # NULL /\ Registers ->
                               FetchNewMessages(is, job, is.select_folder)
                          [] OTHER -> [is |-> is, job |-> job]
                 /\ is' = r.is /\ job' = r.job
    BY <1>6 DEF IdleFetch
  <2>2. [is EXCEPT !.state = "CRASHED"] \in Servers
    BY <1>1 DEF Servers
  <2>3. is.select_folder \in SomeFolder
    BY <1>1 DEF Servers
  <2>4. FetchNewMessages(is, job, is.select_folder).is \in Servers
        /\ FetchNewMessages(is, job, is.select_folder).job \in JobMaps
    BY <1>1, <2>3, FetchTypes
  <2>5. is' \in Servers /\ job' \in JobMaps
    BY <1>1, <2>1, <2>2, <2>4
  <2>6. QED  BY <1>6, <2>5 DEF IdleFetch, TypeOK
<1>7. QED  BY <1>2, <1>3, <1>4, <1>5, <1>6 DEF Idler

\* The server.
LEMMA AnsweredTypes ==
  ASSUME TypeOK, NEW c \in Commands, NEW ok \in BOOLEAN, Answered(c, ok)
  PROVE  /\ parser' \in [at : {"read", "complete", "next", "cancelActive", "cancelQueue", "gone"},
                         ic : Commands \cup {NoCommand}, ok : BOOLEAN]
         /\ news' \subseteq SomeFolder /\ ran' \subseteq JobCommands
         /\ job' = job /\ idler' = idler
<1>1. c.op = "JOB" => c \in JobCommands
  BY CommandsDiffer
<1>2. ran' \subseteq JobCommands
  BY <1>1 DEF Answered, TypeOK
<1>3. news' \subseteq SomeFolder
  BY DEF Answered, TypeOK
<1>4. QED  BY <1>2, <1>3 DEF Answered

\* of the server that answers,
LEMMA ServerTypes ==
  ASSUME TypeOK, ServerSpeaks
  PROVE  TypeOK'
<1>1. is \in Servers /\ job \in JobMaps /\ is.stream \in Seq(Commands \cup {More})
      /\ server.waiting \in Commands \cup {NoCommand}
  BY SequencesOf DEF TypeOK
<1>2. ASSUME NEW ok \in BOOLEAN, ReadAnswer(ok)  PROVE TypeOK'
  <2>1. PICK i \in DOMAIN is.stream :
          LET c == is.stream[i]
          IN  /\ c # More
              /\ is' = Detached(c, RemoveAt(is.stream, i))
              /\ server' = IF c.op = "SELECT"
                           THEN [server EXCEPT !.selected = IF ok THEN c.folder ELSE NULL]
                           ELSE server
              /\ Answered(c, ok)
    BY <1>2 DEF ReadAnswer
  <2>2. PICK c \in Commands : c = is.stream[i]
    BY <1>1, <2>1
  <2>3. RemoveAt(is.stream, i) \in Seq(Commands \cup {More})
    BY <1>1, RemoveIs
  <2>4. Detached(c, RemoveAt(is.stream, i)) \in Servers
    BY <1>1, <2>3, DetachedIs
  <2>5. is' \in Servers
    BY <2>1, <2>2, <2>4
  <2>6. server' \in [selected : SomeFolder, waiting : Commands \cup {NoCommand}]
    <3>1. c.op = "SELECT" => c.folder \in SomeFolder
      BY CommandsDiffer DEF SomeFolder
    <3>2. QED  BY <2>1, <2>2, <3>1 DEF TypeOK, SomeFolder
  <2>7. Answered(c, ok)
    BY <2>1, <2>2
  <2>8. QED  BY <2>5, <2>6, <2>7, AnsweredTypes DEF TypeOK
<1>3. ASSUME NEW ok \in BOOLEAN, ReadAnswerToMore(ok)  PROVE TypeOK'
  <2>1. PICK c \in Commands : c = server.waiting
    BY <1>1, <1>3 DEF ReadAnswerToMore
  <2>2. Tail(is.stream) \in Seq(Commands \cup {More})
    BY <1>1, <1>3, TailIs DEF ReadAnswerToMore
  <2>3. Detached(c, Tail(is.stream)) \in Servers
    BY <1>1, <2>2, DetachedIs
  <2>4. Answered(c, ok) /\ is' = Detached(c, Tail(is.stream)) /\ server' = [server EXCEPT !.waiting = NoCommand]
    BY <1>3, <2>1 DEF ReadAnswerToMore
  <2>5. QED  BY <2>3, <2>4, AnsweredTypes DEF TypeOK
<1>4. CASE Continuation
  <2>1. PICK read : read = [is EXCEPT !.stream = Tail(@)]
    OBVIOUS
  <2>2. PICK went : went = CASE read.idle = "ISSUED" -> [read EXCEPT !.idle = "STARTED"]
                             [] read.idle = "CANCEL" -> [read EXCEPT !.idle = "OFF",
                                                                     !.stream = Append(@, More)]
                             [] read.idle = "OFF" /\ read.literal # NoCommand ->
                                  [read EXCEPT !.stream = Append(@, More)]
                             [] OTHER -> read
    OBVIOUS
  <2>3. PICK next : next = [went EXCEPT !.literal = NoCommand]
    OBVIOUS
  <2>4. is' = CommandStartNext(next, job)
    BY <1>4, <2>1, <2>2, <2>3 DEF Continuation
  <2>5. PICK tl : tl = Tail(is.stream)
    OBVIOUS
  <2>6. tl \in Seq(Commands \cup {More}) /\ is.stream[1] \in Commands \cup {More}
    BY <1>1, <1>4, <2>5, TailIs DEF Continuation
  <2>7. read = [is EXCEPT !.stream = tl]
    BY <2>1, <2>5
  <2>8. read \in Servers /\ read.stream = tl
    BY <1>1, <2>6, <2>7 DEF Servers
  <2>9. PICK st : st = Append(tl, More)
    OBVIOUS
  <2>10. st \in Seq(Commands \cup {More})
    BY <2>6, <2>9, AppendIs
  <2>11. \/ went = [read EXCEPT !.idle = "STARTED"]
         \/ went = [read EXCEPT !.idle = "OFF", !.stream = st]
         \/ went = [read EXCEPT !.stream = st]
         \/ went = read
    BY <2>2, <2>8, <2>9
  <2>12. went \in Servers
    BY <2>8, <2>10, <2>11 DEF Servers
  <2>13. next \in Servers
    BY <2>3, <2>12 DEF Servers
  <2>14. is' \in Servers
    BY <1>1, <2>4, <2>13, StartNextTypes
  <2>15. server' \in [selected : SomeFolder, waiting : Commands \cup {NoCommand}]
    <3>1. is.stream[1] \in Commands
      BY <1>4, <2>6, CommandsDiffer DEF Continuation
    <3>2. QED  BY <1>4, <3>1 DEF Continuation, TypeOK
  <2>16. QED  BY <1>4, <2>14, <2>15 DEF Continuation, TypeOK
<1>5. QED  BY <1>2, <1>3, <1>4 DEF ServerSpeaks

\* untagged answers,
LEMMA UntaggedTypes ==
  ASSUME TypeOK, UntaggedClosed \/ UntaggedExists \/ ConnectionLost
  PROVE  TypeOK'
<1>1. is \in Servers
  BY DEF TypeOK
<1>2. CASE UntaggedClosed
  <2>1. is' = is \/ is' = [is EXCEPT !.select_folder = is.select_pending]
    BY <1>2 DEF UntaggedClosed
  <2>2. is' \in Servers
    BY <1>1, <2>1 DEF Servers
  <2>3. QED  BY <1>2, <2>2 DEF UntaggedClosed, TypeOK, SomeFolder
<1>3. CASE UntaggedExists
  <2>1. is.select_folder \in SomeFolder
    BY <1>1 DEF Servers
  <2>2. StopIdle(is) \in Servers
    BY <1>1, StopIdleTypes
  <2>3. QED  BY <1>3, <2>1, <2>2 DEF UntaggedExists, TypeOK
<1>4. CASE ConnectionLost
  <2>1. [is EXCEPT !.state = "SHUTDOWN"] \in Servers
    BY <1>1 DEF Servers
  <2>2. QED  BY <1>4, <2>1 DEF ConnectionLost, TypeOK
<1>5. QED  BY <1>2, <1>3, <1>4

\* a SELECT that failed,
LEMMA SelectFailedTypes ==
  ASSUME NEW s \in Servers, NEW jb \in JobMaps, NEW byError
  PROVE  SelectFailed(s, jb, byError).is \in Servers /\ SelectFailed(s, jb, byError).job \in JobMaps
<1>1. PICK r : r = SelectFailed(s, jb, byError)
  OBVIOUS
<1>2. r.is \in Servers /\ r.job \in JobMaps
  BY <1>1, SelectFailedIs DEF LeftOver
<1>3. QED  BY <1>1, <1>2

\* the other steps of the parser thread,
LEMMA ParserTypes ==
  ASSUME TypeOK, Parser
  PROVE  TypeOK'
<1>1. is \in Servers /\ job \in JobMaps /\ parser.ic \in Commands \cup {NoCommand} /\ parser.ok \in BOOLEAN
  BY DEF TypeOK
<1>2. \A c \in Commands \cup {NoCommand} : c.op = "JOB" => c \in JobCommands
  BY CommandsDiffer
<1>3. \A s \in Servers : [s EXCEPT !.idle = "OFF"] \in Servers
  BY DEF Servers
<1>4. CASE CompleteCommand
  <2>1. is' \in Servers /\ job' \in JobMaps
    <3>1. CASE parser.ic.op = "JOB" /\ is' = JobComplete(is, job, parser.ic, parser.ok).is
                                    /\ job' = JobComplete(is, job, parser.ic, parser.ok).job
      BY <1>1, <1>2, <3>1, JobCompleteTypes
    <3>2. ASSUME NEW grown, is' = SelectOk(is, job, grown).is, job' = SelectOk(is, job, grown).job
          PROVE  is' \in Servers /\ job' \in JobMaps
      BY <1>1, <3>2, SelectOkTypes
    <3>3. CASE is' = SelectFailed(is, job, FALSE).is /\ job' = SelectFailed(is, job, FALSE).job
      BY <1>1, <3>3, SelectFailedTypes
    <3>4. CASE is' = [is EXCEPT !.idle = "OFF"] /\ job' = job
      BY <1>1, <1>3, <3>4
    <3>5. \/ /\ parser.ic.op = "JOB"
             /\ \E r \in {JobComplete(is, job, parser.ic, parser.ok)} : is' = r.is /\ job' = r.job
          \/ \E grown : \E r \in {IF parser.ok THEN SelectOk(is, job, grown)
                                ELSE SelectFailed(is, job, FALSE)} : is' = r.is /\ job' = r.job
          \/ is' = [is EXCEPT !.idle = "OFF"] /\ job' = job
      BY <1>4, Zenon DEF CompleteCommand
    <3>6. QED  BY <3>1, <3>2, <3>3, <3>4, <3>5
  <2>2. QED  BY <1>4, <2>1 DEF CompleteCommand, TypeOK
<1>5. CASE StartNextCommand
  <2>1. CommandStartNext(is, job) \in Servers
    BY <1>1, StartNextTypes
  <2>2. QED  BY <1>5, <2>1 DEF StartNextCommand, TypeOK
<1>6. CASE CancelActive
  <2>1. CASE is.active = <<>>
    BY <1>6, <2>1 DEF CancelActive, TypeOK
  <2>2. CASE is.active # <<>>
    <3>1. PICK c, tl : c = Head(is.active) /\ tl = Tail(is.active)
      OBVIOUS
    <3>2. c \in Commands /\ tl \in Seq(Commands)
      BY <1>1, <2>2, <3>1, SequencesOf, TailIs
    <3>3. PICK s : s = [is EXCEPT !.active = tl]
      OBVIOUS
    <3>4. s \in Servers
      BY <1>1, <3>2, <3>3 DEF Servers
    <3>5. c.op \in {"JOB", "SELECT", "IDLE"}
      BY <3>2, CommandsDiffer DEF Commands
    <3>6. PICK r : /\ r = CASE c.op = "JOB"    -> JobComplete(s, job, c, FALSE)
                            [] c.op = "SELECT" -> SelectFailed(s, job, TRUE)
                            [] c.op = "IDLE"   -> [is |-> [s EXCEPT !.idle = "OFF"], job |-> job]
                   /\ is' = r.is /\ job' = r.job
      BY <1>6, <2>2, <3>1, <3>3 DEF CancelActive
    <3>7. ASSUME c.op = "JOB"  PROVE is' \in Servers /\ job' \in JobMaps
      <4>1. r = JobComplete(s, job, c, FALSE) /\ c \in JobCommands
        BY <1>2, <3>2, <3>6, <3>7
      <4>2. QED  BY <1>1, <3>4, <3>6, <4>1, JobCompleteTypes
    <3>8. ASSUME c.op = "SELECT"  PROVE is' \in Servers /\ job' \in JobMaps
      <4>1. r = SelectFailed(s, job, TRUE)
        BY <3>6, <3>8
      <4>2. QED  BY <1>1, <3>4, <3>6, <4>1, SelectFailedTypes
    <3>9. ASSUME c.op = "IDLE"  PROVE is' \in Servers /\ job' \in JobMaps
      <4>1. r = [is |-> [s EXCEPT !.idle = "OFF"], job |-> job]
        BY <3>6, <3>9
      <4>2. PICK t : t = [s EXCEPT !.idle = "OFF"]
        OBVIOUS
      <4>3. is' = r.is /\ job' = r.job
        BY <3>6
      <4>4. is' = t /\ job' = job
        BY <4>1, <4>2, <4>3
      <4>5. QED  BY <1>1, <1>3, <3>4, <4>2, <4>4
    <3>10. is' \in Servers /\ job' \in JobMaps
      BY <3>5, <3>7, <3>8, <3>9
    <3>11. QED  BY <1>6, <2>2, <3>10 DEF CancelActive, TypeOK
  <2>3. QED  BY <2>1, <2>2
<1>7. CASE CancelQueue
  <2>1. CASE is.queue = <<>>
    BY <1>7, <2>1 DEF CancelQueue, TypeOK
  <2>2. CASE is.queue # <<>>
    <3>1. PICK c, tl : c = Head(is.queue) /\ tl = Tail(is.queue)
      OBVIOUS
    <3>2. c \in JobCommands /\ tl \in Seq(JobCommands)
      BY <1>1, <2>2, <3>1, SequencesOf, TailIs
    <3>3. job' = JobComplete(is, job, c, FALSE).job /\ is' = [is EXCEPT !.queue = tl]
      BY <1>7, <2>2, <3>1 DEF CancelQueue
    <3>4. is' \in Servers
      BY <1>1, <3>2, <3>3 DEF Servers
    <3>5. job' \in JobMaps
      BY <1>1, <3>2, <3>3, JobCompleteTypes
    <3>6. QED  BY <1>7, <2>2, <3>4, <3>5 DEF CancelQueue, TypeOK
  <2>3. QED  BY <2>1, <2>2
<1>8. QED  BY <1>4, <1>5, <1>6, <1>7 DEF Parser

\* and every step.
LEMMA NextTypes == TypeOK /\ [Next]_vars => TypeOK'
<1> SUFFICES ASSUME TypeOK, [Next]_vars  PROVE TypeOK'
  OBVIOUS
<1>1. CASE UNCHANGED vars
  BY <1>1 DEF vars, TypeOK
<1>2. CASE Next
  <2>1. CASE \E j \in Jobs : Submit(j) \/ Caller(j)
    BY <2>1, CallerTypes DEF Caller
  <2>2. CASE ServerSpeaks
    BY <2>2, ServerTypes
  <2>3. CASE UntaggedClosed \/ UntaggedExists \/ ConnectionLost
    BY <2>3, UntaggedTypes
  <2>4. CASE Parser
    BY <2>4, ParserTypes
  <2>5. CASE Idler
    BY <2>5, IdlerTypes
  <2>6. QED  BY <1>2, <2>1, <2>2, <2>3, <2>4, <2>5 DEF Next
<1>3. QED  BY <1>1, <1>2

\* The variables have their types in every reachable state, with every fault.
THEOREM TypeCorrect == Spec => []TypeOK
<1>1. QED  BY InitTypes, NextTypes, PTL DEF Spec

-----------------------------------------------------------------------------
(* The connection: what each kind of change leaves of Connected.           *)

LEMMA ConnectedGives ==
  ASSUME NEW s \in Servers, NEW jb \in JobMaps, NEW ic, NEW ok, NEW w \in Commands \cup {NoCommand},
         NEW sel, Connected(s, jb, ic, ok, w, sel)
  PROVE  /\ \A c \in Range(s.stream) \cup {w} : SelectOf(c, jb) # NULL => sel = SelectOf(c, jb)
         /\ s.select_folder # NULL /\ sel # NULL => s.select_folder = sel
         /\ \A i \in DOMAIN s.stream : s.stream[i] = More => i = 1 /\ w # NoCommand
         /\ w # NoCommand /\ s.stream # <<>> => s.stream[1] = More
<1>1. /\ Sent(s, w) /\ Wire(s, w) /\ Selecting(s, ic, ok, sel) /\ InFolder(s, jb, sel)
  BY DEF Connected
<1>2. ASSUME NEW c \in Range(s.stream) \cup {w}, SelectOf(c, jb) # NULL  PROVE sel = SelectOf(c, jb)
  <2>1. c # More /\ c # NoCommand
    BY <1>2, SelectOfIs
  <2>2. c \in Range(s.active)
    BY <1>1, <1>2, <2>1 DEF Sent
  <2>3. QED  BY <1>1, <1>2, <2>2 DEF InFolder
<1>3. ASSUME s.select_folder # NULL, sel # NULL  PROVE s.select_folder = sel
  <2>1. CASE s.select_pending = NULL
    BY <1>1, <2>1 DEF Selecting
  <2>2. CASE s.select_pending # NULL
    <3>1. s.select_folder = s.select_pending /\ Select(s.select_pending) \notin Range(s.active)
      BY <1>1, <1>3, <2>2 DEF Selecting
    <3>2. ic = Select(s.select_pending)
      BY <1>1, <2>2, <3>1 DEF Selecting
    <3>3. ic.op = "SELECT"
      BY <3>2 DEF Select
    <3>4. sel = IF ok THEN s.select_pending ELSE NULL
      BY <1>1, <2>2, <3>3 DEF Selecting
    <3>5. QED  BY <1>3, <3>1, <3>4
  <2>3. QED  BY <2>1, <2>2
<1>4. QED  BY <1>1, <1>2, <1>3 DEF Wire

\* Without active commands there is nothing on the stream.
LEMMA NothingSent ==
  ASSUME NEW s \in Servers, NEW jb, NEW ic, NEW ok, NEW w, NEW sel,
         Connected(s, jb, ic, ok, w, sel), s.active = <<>>
  PROVE  w = NoCommand /\ s.stream = <<>> /\ s.literal = NoCommand
<1>1. Sent(s, w) /\ Wire(s, w) /\ Literal(s)
  BY DEF Connected
<1>2. Range(s.active) = {}
  BY DEF Range
<1>3. w = NoCommand
  BY <1>1, <1>2 DEF Sent
<1>4. s.stream = <<>>
  <2>1. ASSUME NEW i \in DOMAIN s.stream  PROVE FALSE
    <3>1. s.stream[i] # More
      BY <1>1, <1>3 DEF Wire
    <3>2. s.stream[i] \in Range(s.stream)
      BY DEF Range
    <3>3. QED  BY <1>1, <1>2, <3>1, <3>2 DEF Sent
  <2>2. QED  BY <2>1, SequencesOf
<1>5. s.literal = NoCommand
  BY <1>1, <1>4 DEF Literal, Range
<1>6. QED  BY <1>3, <1>4, <1>5

\* A change of the jobs that the commands do not notice.
LEMMA JobsKeep ==
  ASSUME NEW s \in Servers, NEW jb \in JobMaps, NEW ic, NEW ok, NEW w, NEW sel,
         Connected(s, jb, ic, ok, w, sel), NEW jb2 \in JobMaps,
         \A c \in Range(s.queue) \cup Range(s.active) \cup {ic} :
           c.op = "JOB" => /\ jb2[c.job].folder \in {jb[c.job].folder, NULL}
                           /\ jb[c.job].issued <= jb2[c.job].issued
                           /\ jb[c.job].issued \in Nat /\ jb2[c.job].issued \in Nat /\ c.part \in Nat
                           /\ c.job \in Async => jb2[c.job].at = jb[c.job].at
  PROVE  Connected(s, jb2, ic, ok, w, sel)
<1>1. InFolder(s, jb, sel) /\ Fresh(s, jb, ic)
  BY DEF Connected
<1>2. \A c \in Range(s.active) : SelectOf(c, jb2) # NULL => SelectOf(c, jb) = SelectOf(c, jb2)
  BY DEF SelectOf
<1>3. InFolder(s, jb2, sel)
  BY <1>1, <1>2 DEF InFolder
<1>4. Fresh(s, jb2, ic)
  <2>1. ASSUME NEW c \in Range(s.queue) \cup Range(s.active) \cup {ic}, c.op = "JOB"
        PROVE  c.part <= jb2[c.job].issued /\ (c.job \in Async => jb2[c.job].at = "wait" /\ c.part = 1)
    <3>1. c.part <= jb[c.job].issued /\ (c.job \in Async => jb[c.job].at = "wait" /\ c.part = 1)
      BY <1>1, <2>1 DEF Fresh
    <3>2. /\ jb[c.job].issued <= jb2[c.job].issued
          /\ jb[c.job].issued \in Nat /\ jb2[c.job].issued \in Nat /\ c.part \in Nat
          /\ c.job \in Async => jb2[c.job].at = jb[c.job].at
      BY <2>1
    <3>3. QED  BY <3>1, <3>2
  <2>2. QED  BY <2>1 DEF Fresh
<1>5. QED  BY <1>3, <1>4 DEF Connected

\* The commands of a well-typed server are those of jobs that exist.
LEMMA TheirJobs ==
  ASSUME NEW s \in Servers, NEW jb \in JobMaps, NEW ic \in Commands \cup {NoCommand},
         NEW c \in Range(s.queue) \cup Range(s.active) \cup {ic}, c.op = "JOB"
  PROVE  /\ c \in JobCommands /\ c.job \in Jobs \cup Async /\ c.part \in Nat \ {0}
         /\ c = Command(c.job, c.part)
         /\ jb[c.job] \in JobStates /\ jb[c.job].issued \in Nat /\ jb[c.job].folder \in SomeFolder
<1>1. c \in Commands \cup {NoCommand}
  BY SequencesOf DEF Commands
<1>2. c \in JobCommands
  BY <1>1, CommandsDiffer
<1>3. c.job \in Jobs \cup Async /\ c.part \in Nat \ {0} /\ c = Command(c.job, c.part)
  BY <1>2, CommandsDiffer
<1>4. jb[c.job] \in JobStates
  BY <1>3 DEF JobMaps
<1>5. QED  BY <1>2, <1>3, <1>4 DEF JobStates

\* The command of a job leaves the parser thread's hands.
LEMMA HandEmpty ==
  ASSUME NEW s \in Servers, NEW jb, NEW ic, NEW ok, NEW w, NEW sel,
         Connected(s, jb, ic, ok, w, sel), ic.op = "JOB", NEW ok2
  PROVE  Connected(s, jb, NoCommand, ok2, w, sel)
<1>1. /\ Apart(s, ic) /\ IdleState(s, ic, w) /\ Selecting(s, ic, ok, sel) /\ Fresh(s, jb, ic)
  BY DEF Connected
<1>2. ic # Idle /\ \A f : ic # Select(f)
  BY DEF Idle, Select
<1>3. NoCommand # Idle /\ NoCommand.op = "NONE" /\ NoCommand \notin Commands
  BY CommandsDiffer DEF NoCommand, Idle
<1>4. NoCommand \notin Range(s.queue) \cup Range(s.active)
  BY <1>3, SequencesOf DEF Commands
<1>5. Apart(s, NoCommand)
  BY <1>1, <1>4 DEF Apart
<1>6. IdleState(s, NoCommand, w)
  BY <1>1, <1>2, <1>3 DEF IdleState
<1>7. Selecting(s, NoCommand, ok2, sel)
  BY <1>1, <1>2, <1>3 DEF Selecting
<1>8. Fresh(s, jb, NoCommand)
  BY <1>1, <1>3 DEF Fresh
<1>9. QED  BY <1>5, <1>6, <1>7, <1>8 DEF Connected

\* What has become of server and jobs is nothing to the callers: their commands are
\* where they were, and so are their jobs.
SameForCallers(s, jb, r) ==
  /\ \A c \in JobCommands : c.job \in Jobs => (c \in Ours(r.is) <=> c \in Ours(s))
  /\ \A j \in Jobs : r.job[j] = jb[j]

\* imapx_server_fetch_new_messages queues the first command of a free job.
LEMMA FetchKeeps ==
  ASSUME NEW s \in Servers, NEW jb \in JobMaps, NEW ic \in Commands \cup {NoCommand}, NEW ok, NEW w, NEW sel,
         Connected(s, jb, ic, ok, w, sel), NEW f \in SomeFolder, NEW r, r = FetchNewMessages(s, jb, f)
  PROVE  /\ r.is \in Servers /\ r.job \in JobMaps /\ Connected(r.is, r.job, ic, ok, w, sel)
         /\ s.select_pending # NULL => /\ r.is.select_pending = s.select_pending
                                       /\ r.is.select_folder = s.select_folder /\ r.is.state = s.state
         /\ SameForCallers(s, jb, r)
<1>1. \/ r.is = s /\ r.job = jb
      \/ \E a \in Async :
           /\ jb[a].at = "new" /\ r.job \in JobMaps
           /\ \A k \in Jobs \cup Async : k # a => r.job[k] = jb[k]
           /\ r.job[a].at = "wait" /\ r.job[a].folder = f
           /\ r.job[a].issued = jb[a].issued + 1 /\ r.job[a].commands = jb[a].commands + 1
           /\ r.is = CommandQueue(s, r.job, Command(a, 1))
  BY FetchIs
<1>2. CASE r.is = s /\ r.job = jb
  BY <1>2 DEF SameForCallers
<1>3. ASSUME NEW a \in Async,
             /\ jb[a].at = "new" /\ r.job \in JobMaps
             /\ \A k \in Jobs \cup Async : k # a => r.job[k] = jb[k]
             /\ r.job[a].at = "wait" /\ r.job[a].folder = f
             /\ r.job[a].issued = jb[a].issued + 1 /\ r.job[a].commands = jb[a].commands + 1
             /\ r.is = CommandQueue(s, r.job, Command(a, 1))
      PROVE  /\ r.is \in Servers /\ r.job \in JobMaps /\ Connected(r.is, r.job, ic, ok, w, sel)
             /\ s.select_pending # NULL => /\ r.is.select_pending = s.select_pending
                                           /\ r.is.select_folder = s.select_folder /\ r.is.state = s.state
             /\ SameForCallers(s, jb, r)
  <2>1. Fresh(s, jb, ic)
    BY DEF Connected
  <2>2. ASSUME NEW c \in Range(s.queue) \cup Range(s.active) \cup {ic}, c.op = "JOB"  PROVE c.job # a
    BY <1>3, <2>1, <2>2 DEF Fresh
  <2>3. ASSUME NEW c \in Range(s.queue) \cup Range(s.active) \cup {ic}, c.op = "JOB"
        PROVE  /\ r.job[c.job] = jb[c.job]
               /\ jb[c.job].issued \in Nat /\ c.part \in Nat
    BY <1>3, <2>2, <2>3, TheirJobs
  <2>4. Connected(s, r.job, ic, ok, w, sel)
    <3>1. \A c \in Range(s.queue) \cup Range(s.active) \cup {ic} :
            c.op = "JOB" => /\ r.job[c.job].folder \in {jb[c.job].folder, NULL}
                            /\ jb[c.job].issued <= r.job[c.job].issued
                            /\ jb[c.job].issued \in Nat /\ r.job[c.job].issued \in Nat /\ c.part \in Nat
                            /\ c.job \in Async => r.job[c.job].at = jb[c.job].at
      BY <2>3
    <3>2. r.job \in JobMaps
      BY <1>3
    <3>3. PICK jb2 \in JobMaps : jb2 = r.job
      BY <3>2
    <3>4. QED  BY <3>1, <3>3, JobsKeep
  <2>5. PICK c \in JobCommands : c = Command(a, 1) /\ c.op = "JOB" /\ c.job = a /\ c.part = 1
    BY CommandIs
  <2>6. c \notin Range(s.queue) \cup Range(s.active) \cup {ic}
    BY <2>2, <2>5
  <2>7. jb[a].issued \in Nat
    BY DEF JobMaps, JobStates
  <2>8. c.part <= r.job[c.job].issued /\ (c.job \in Async => r.job[c.job].at = "wait" /\ c.part = 1)
    BY <1>3, <2>5, <2>7
  <2>9. PICK jb2 \in JobMaps : jb2 = r.job
    BY <1>3
  <2>10. PICK t : t = CommandQueue(s, jb2, c)
    OBVIOUS
  <2>11. /\ t \in Servers /\ Connected(t, jb2, ic, ok, w, sel)
         /\ s.select_pending # NULL => /\ t.select_pending = s.select_pending
                                       /\ t.select_folder = s.select_folder /\ t.state = s.state
         /\ Ours(t) = Ours(s) \cup {c}
    BY <2>4, <2>6, <2>8, <2>9, <2>10, QueueKeeps
  <2>12. r.is = t
    BY <1>3, <2>5, <2>9, <2>10
  <2>13. SameForCallers(s, jb, r)
    <3>1. a \notin Jobs
      BY ImapxAssumption
    <3>2. \A x \in JobCommands : x.job \in Jobs => (x \in Ours(r.is) <=> x \in Ours(s))
      BY <2>5, <2>11, <2>12, <3>1
    <3>3. \A j \in Jobs : r.job[j] = jb[j]
      BY <1>3, <3>1
    <3>4. QED  BY <3>2, <3>3 DEF SameForCallers
  <2>14. QED  BY <1>3, <2>9, <2>11, <2>12, <2>13
<1>4. QED  BY <1>1, <1>2, <1>3

\* What is true while the answer to a SELECT is dealt with.
LEMMA SelectInHand ==
  ASSUME NEW s \in Servers, NEW jb, NEW ic \in Commands, NEW ok, NEW w, NEW sel,
         Connected(s, jb, ic, ok, w, sel), ic.op = "SELECT"
  PROVE  /\ s.select_pending # NULL /\ ic = Select(s.select_pending)
         /\ s.select_folder \in {NULL, s.select_pending}
         /\ \A c \in Range(s.active) : c.op # "SELECT" /\ SelectOf(c, jb) = NULL
         /\ s.idle = "OFF" /\ sel = IF ok THEN s.select_pending ELSE NULL
<1>1. /\ Apart(s, ic) /\ IdleState(s, ic, w) /\ Selecting(s, ic, ok, sel) /\ InFolder(s, jb, sel)
  BY DEF Connected
<1>2. s.select_pending # NULL
  BY <1>1 DEF Selecting
<1>3. ic = Select(ic.folder) /\ ic.folder = s.select_pending
  BY <1>1, <1>2, CommandsDiffer DEF Selecting
<1>4. ASSUME NEW c \in Range(s.active)  PROVE c.op # "SELECT"
  <2>1. SUFFICES ASSUME c.op = "SELECT"  PROVE FALSE
    OBVIOUS
  <2>2. c \in Commands
    BY SequencesOf
  <2>3. c = Select(c.folder)
    BY <2>1, <2>2, CommandsDiffer
  <2>4. c.folder = s.select_pending
    BY <1>1, <1>2, <2>1 DEF Selecting
  <2>5. QED  BY <1>1, <1>3, <2>3, <2>4 DEF Apart
<1>5. \A c \in Range(s.active) : SelectOf(c, jb) = NULL
  BY <1>1, <1>2 DEF InFolder
<1>6. s.idle = "OFF"
  BY <1>1, <1>2 DEF IdleState
<1>7. QED  BY <1>1, <1>2, <1>3, <1>4, <1>5, <1>6 DEF Selecting

\* The folder is selected, and its SELECT is over.
LEMMA SelectionDone ==
  ASSUME NEW s \in Servers, NEW jb, NEW ic \in Commands, NEW ok, NEW w, NEW sel,
         Connected(s, jb, ic, ok, w, sel), ic.op = "SELECT", sel = s.select_pending, s.select_folder = s.select_pending,
         NEW t, t = [s EXCEPT !.select_pending = NULL], NEW ok2
  PROVE  t \in Servers /\ Connected(t, jb, NoCommand, ok2, w, sel)
<1>1. /\ s.select_pending # NULL
      /\ \A c \in Range(s.active) : c.op # "SELECT" /\ SelectOf(c, jb) = NULL
      /\ s.idle = "OFF" /\ sel = s.select_pending
  BY SelectInHand
<1>2. /\ t \in Servers /\ t.queue = s.queue /\ t.active = s.active /\ t.stream = s.stream
      /\ t.literal = s.literal /\ t.select_folder = s.select_folder /\ t.select_pending = NULL
      /\ t.state = s.state /\ t.idle = "OFF"
  BY <1>1 DEF Servers, SomeFolder
<1>3. /\ Apart(s, ic) /\ Sent(s, w) /\ Wire(s, w) /\ Literal(s) /\ IdleState(s, ic, w) /\ Fresh(s, jb, ic)
      /\ s.state \in {"INITIALISED", "SELECTED"}
  BY DEF Connected
<1>4. NoCommand.op = "NONE" /\ NoCommand \notin Range(s.queue) \cup Range(s.active)
  BY CommandsDiffer, SequencesOf DEF Commands
<1>5. Apart(t, NoCommand) /\ Sent(t, w) /\ Literal(t)
  BY <1>2, <1>3, <1>4 DEF Apart, Sent, Literal
<1>6. Wire(t, w)
  BY <1>1, <1>2, <1>3 DEF Wire
<1>7. IdleState(t, NoCommand, w)
  BY <1>1, <1>2, <1>3 DEF IdleState
<1>8. Selecting(t, NoCommand, ok2, sel)
  BY <1>1, <1>2, <1>4 DEF Selecting
<1>9. InFolder(t, jb, sel)
  BY <1>1, <1>2 DEF InFolder
<1>10. Fresh(t, jb, NoCommand)
  BY <1>2, <1>3, <1>4 DEF Fresh
<1>11. QED  BY <1>2, <1>3, <1>5, <1>6, <1>7, <1>8, <1>9, <1>10 DEF Connected

\* The tagged answer to c, at position i of the stream.
LEMMA AnswerKeeps ==
  ASSUME is \in Servers, NEW jb, NEW ok, NEW sel, NEW ok2,
         Connected(is, jb, NoCommand, ok2, NoCommand, sel),
         NEW i \in DOMAIN is.stream, NEW c \in Commands, c = is.stream[i],
         NEW t, t = Detached(c, RemoveAt(is.stream, i)),
         NEW sel2, sel2 = IF c.op = "SELECT" THEN (IF ok THEN c.folder ELSE NULL) ELSE sel
  PROVE  Connected(t, jb, c, ok, NoCommand, sel2)
<1>1. /\ Apart(is, NoCommand) /\ Sent(is, NoCommand) /\ Wire(is, NoCommand) /\ Literal(is)
      /\ IdleState(is, NoCommand, NoCommand)
      /\ Selecting(is, NoCommand, ok2, sel) /\ InFolder(is, jb, sel) /\ Fresh(is, jb, NoCommand)
      /\ is.state \in {"INITIALISED", "SELECTED"}
  BY DEF Connected
<1>2. PICK st : st = RemoveAt(is.stream, i)
  OBVIOUS
<1>3. is.stream \in Seq(Commands \cup {More}) /\ DOMAIN is.stream = 1..Len(is.stream) /\ Len(is.stream) \in Nat
  BY SequencesOf
<1>4. /\ st \in Seq(Commands \cup {More}) /\ Len(st) = Len(is.stream) - 1
      /\ \A k \in DOMAIN st :
           \/ k \in DOMAIN is.stream /\ k < i /\ st[k] = is.stream[k]
           \/ k + 1 \in DOMAIN is.stream /\ st[k] = is.stream[k + 1] /\ k \in Nat
      /\ Range(st) \subseteq Range(is.stream)
      /\ \A x \in Range(is.stream) : x # c => x \in Range(st)
      /\ IsInjective(is.stream) => c \notin Range(st) /\ IsInjective(st)
  <2> DEFINE rest == RemoveAt(is.stream, i)
  <2>1. /\ rest \in Seq(Commands \cup {More}) /\ Len(rest) = Len(is.stream) - 1
        /\ \A k \in DOMAIN rest :
             \/ k \in DOMAIN is.stream /\ k < i /\ rest[k] = is.stream[k]
             \/ k + 1 \in DOMAIN is.stream /\ rest[k] = is.stream[k + 1] /\ k \in Nat
        /\ Range(rest) \subseteq Range(is.stream)
        /\ \A x \in Range(is.stream) : x # is.stream[i] => x \in Range(rest)
        /\ IsInjective(is.stream) => is.stream[i] \notin Range(rest) /\ IsInjective(rest)
    BY <1>3, RemoveIs
  <2>2. st = rest
    BY <1>2
  <2> HIDE DEF rest
  <2>3. QED  BY <2>1, <2>2
<1>5. /\ t \in Servers /\ t.queue = is.queue /\ t.idle = is.idle /\ t.state = is.state
      /\ t.select_folder = is.select_folder /\ t.select_pending = is.select_pending
      /\ t.literal = (IF is.literal = c THEN NoCommand ELSE is.literal) /\ t.stream = st
      /\ Range(t.active) = Range(is.active) \ {c}
      /\ IsInjective(is.active) => IsInjective(t.active)
      /\ is.active = <<c>> \/ is.active = <<>> => t.active = <<>>
  BY <1>2, <1>4, DetachedIs
<1>6. /\ c \in Range(is.stream) /\ c # More /\ c # NoCommand /\ c \in Range(is.active)
  <2>1. c \in Range(is.stream)
    BY DEF Range
  <2>2. c # More /\ c # NoCommand
    BY CommandsDiffer
  <2>3. QED  BY <1>1, <2>1, <2>2 DEF Sent
<1>7. IsInjective(is.stream) /\ IsInjective(is.active) /\ IsInjective(is.queue)
      /\ Range(is.queue) \cap Range(is.active) = {}
  BY <1>1 DEF Apart
<1>8. c \notin Range(st) /\ IsInjective(st)
  BY <1>4, <1>7
<1>9. \A x \in Range(is.stream) : x # More
  BY <1>1 DEF Wire, Range
<1>10. Apart(t, c)
  BY <1>5, <1>6, <1>7, <1>8 DEF Apart
<1>11. Sent(t, NoCommand)
  <2>1. Range(st) \subseteq (Range(is.active) \cup {More}) \ {c}
    BY <1>1, <1>4, <1>8 DEF Sent
  <2>2. QED  BY <1>5, <2>1 DEF Sent
<1>12. Wire(t, NoCommand)
  <2>1. \A k \in DOMAIN st : st[k] # More
    BY <1>4, <1>9 DEF Range
  <2>2. QED  BY <1>5, <2>1 DEF Wire
<1>13. Literal(t)
  <2>1. ASSUME NEW k \in DOMAIN st, Continues(st[k])
        PROVE  t.literal = st[k] /\ k = Len(st)
    <3>1. k \in Nat /\ k <= Len(st) /\ st[k] # c
      <4>1. DOMAIN st = 1..Len(st) /\ Len(st) \in Nat
        BY <1>4
      <4>2. k \in Nat /\ k <= Len(st)
        BY <2>1, <4>1
      <4>3. QED  BY <1>8, <2>1, <4>2 DEF Range
    <3>2. CASE k \in DOMAIN is.stream /\ k < i /\ st[k] = is.stream[k]
      <4>1. k = Len(is.stream)
        BY <1>1, <2>1, <3>2 DEF Literal
      <4>2. i <= Len(is.stream) /\ i \in Nat
        BY <1>3
      <4>3. FALSE
        BY <1>3, <3>1, <3>2, <4>1, <4>2
      <4>4. QED  BY <4>3
    <3>3. CASE k + 1 \in DOMAIN is.stream /\ st[k] = is.stream[k + 1] /\ k \in Nat
      <4>1. is.literal = st[k] /\ k + 1 = Len(is.stream)
        BY <1>1, <2>1, <3>3 DEF Literal
      <4>2. k = Len(st)
        BY <1>3, <1>4, <3>1, <4>1
      <4>3. QED  BY <1>5, <3>1, <4>1, <4>2
    <3>4. QED  BY <1>4, <2>1, <3>2, <3>3
  <2>2. ASSUME t.literal # NoCommand  PROVE Continues(t.literal) /\ t.literal \in Range(st)
    <3>1. t.literal = is.literal /\ is.literal # c /\ is.literal # NoCommand
      BY <1>5, <2>2
    <3>2. Continues(is.literal) /\ is.literal \in Range(is.stream)
      BY <1>1, <3>1 DEF Literal
    <3>3. QED  BY <1>4, <3>1, <3>2
  <2>3. QED  BY <1>5, <2>1, <2>2 DEF Literal
<1>14. IdleState(t, c, NoCommand)
  <2>1. is.active # <<>> /\ is.stream # <<>>
    BY <1>6 DEF Range
  <2>2. is.idle # "PENDING" /\ is.idle # "STARTED"
    BY <1>1, <2>1 DEF IdleState
  <2>3. ASSUME is.idle \in {"ISSUED", "CANCEL"}  PROVE t.active = <<>> /\ c = Idle
    <3>1. is.active = <<Idle>>
      BY <1>1, <2>1, <2>3 DEF IdleState
    <3>2. c = Idle
      BY <1>6, <3>1 DEF Range
    <3>3. QED  BY <1>5, <3>1, <3>2
  <2>4. Idle \in Range(st) => is.idle \in {"ISSUED", "CANCEL"}
    BY <1>1, <1>4 DEF IdleState
  <2>5. is.idle # "OFF" => is.state = "SELECTED" /\ is.select_pending = NULL
    BY <1>1 DEF IdleState
  <2>6. QED  BY <1>5, <2>2, <2>3, <2>4, <2>5 DEF IdleState
<1>15. NoCommand.op = "NONE" /\ (c.op = "SELECT" => c = Select(c.folder)) /\ \A f : Select(f).op = "SELECT" /\ NoCommand # Select(f)
  BY CommandsDiffer DEF Select, NoCommand
<1>16. Selecting(t, c, ok, sel2)
  <2>1. CASE is.select_pending = NULL
    <3>1. is.select_folder = sel /\ \A x \in Range(is.active) : x.op # "SELECT"
      BY <1>1, <2>1 DEF Selecting
    <3>2. QED  BY <1>5, <1>6, <2>1, <3>1 DEF Selecting
  <2>2. CASE is.select_pending # NULL
    <3>1. /\ is.select_folder \in {NULL, is.select_pending}
          /\ Select(is.select_pending) \in Range(is.active)
          /\ \A x \in Range(is.active) : x.op = "SELECT" => x.folder = is.select_pending
          /\ is.select_folder # NULL => sel = NULL
      BY <1>1, <1>15, <2>2 DEF Selecting
    <3>2. Select(is.select_pending) \in Range(t.active) => c.op # "SELECT"
      BY <1>5, <1>6, <1>15, <3>1
    <3>3. Select(is.select_pending) \in Range(t.active) \cup {c}
      BY <1>5, <3>1
    <3>4. \A x \in Range(t.active) \cup {c} : x.op = "SELECT" => x.folder = is.select_pending
      BY <1>5, <1>6, <3>1
    <3>5. c.op = "SELECT" => sel2 = IF ok THEN is.select_pending ELSE NULL
      BY <3>4
    <3>6. Select(is.select_pending) \in Range(t.active) /\ is.select_folder # NULL => sel2 = NULL
      BY <3>1, <3>2
    <3>7. QED  BY <1>5, <2>2, <3>1, <3>3, <3>4, <3>5, <3>6 DEF Selecting
  <2>3. QED  BY <2>1, <2>2
<1>17. InFolder(t, jb, sel2)
  <2>1. ASSUME NEW x \in Range(t.active), SelectOf(x, jb) # NULL
        PROVE  is.select_pending = NULL /\ sel2 = SelectOf(x, jb)
    <3>1. is.select_pending = NULL /\ sel = SelectOf(x, jb)
      BY <1>1, <1>5, <2>1 DEF InFolder
    <3>2. c.op # "SELECT"
      BY <1>1, <1>6, <3>1 DEF Selecting
    <3>3. QED  BY <3>1, <3>2
  <2>2. QED  BY <1>5, <2>1 DEF InFolder
<1>18. Fresh(t, jb, c)
  BY <1>1, <1>5, <1>6 DEF Fresh
<1>19. QED  BY <1>1, <1>5, <1>10, <1>11, <1>12, <1>13, <1>14, <1>16, <1>17, <1>18 DEF Connected

\* The tagged answer to the command w that had been continued.
LEMMA AnswerToMoreKeeps ==
  ASSUME is \in Servers, NEW jb, NEW ok, NEW sel, NEW ok2, NEW w \in Commands,
         Connected(is, jb, NoCommand, ok2, w, sel), is.stream # <<>>,
         NEW t, t = Detached(w, Tail(is.stream))
  PROVE  Connected(t, jb, w, ok, NoCommand, sel)
<1>1. /\ Apart(is, NoCommand) /\ Sent(is, w) /\ Wire(is, w) /\ Literal(is)
      /\ IdleState(is, NoCommand, w)
      /\ Selecting(is, NoCommand, ok2, sel) /\ InFolder(is, jb, sel) /\ Fresh(is, jb, NoCommand)
      /\ is.state \in {"INITIALISED", "SELECTED"}
  BY DEF Connected
<1>2. PICK st : st = Tail(is.stream)
  OBVIOUS
<1>3. is.stream \in Seq(Commands \cup {More}) /\ DOMAIN is.stream = 1..Len(is.stream) /\ Len(is.stream) \in Nat
  BY SequencesOf
<1>4. /\ st \in Seq(Commands \cup {More}) /\ Len(st) = Len(is.stream) - 1
      /\ \A k \in DOMAIN st : k + 1 \in DOMAIN is.stream /\ st[k] = is.stream[k + 1] /\ k \in Nat \ {0}
      /\ Range(is.stream) = {is.stream[1]} \cup Range(st)
      /\ IsInjective(is.stream) => IsInjective(st) /\ is.stream[1] \notin Range(st)
  BY <1>2, <1>3, TailIs
<1>5. w # NoCommand /\ is.stream[1] = More
  BY <1>1, CommandsDiffer DEF Wire
<1>6. /\ t \in Servers /\ t.queue = is.queue /\ t.idle = is.idle /\ t.state = is.state
      /\ t.select_folder = is.select_folder /\ t.select_pending = is.select_pending
      /\ t.literal = (IF is.literal = w THEN NoCommand ELSE is.literal) /\ t.stream = st
      /\ Range(t.active) = Range(is.active) \ {w}
      /\ IsInjective(is.active) => IsInjective(t.active)
  <2>1. t = Detached(w, st) /\ st \in Seq(Commands \cup {More})
    BY <1>2, <1>4
  <2>2. QED  BY <2>1, DetachedIs
<1>7. w \in Range(is.active) \ Range(is.stream) /\ Continues(w)
  BY <1>1, <1>5 DEF Sent
<1>8. IsInjective(is.stream) /\ IsInjective(is.active) /\ IsInjective(is.queue)
      /\ Range(is.queue) \cap Range(is.active) = {}
  BY <1>1 DEF Apart
<1>9. IsInjective(st) /\ More \notin Range(st) /\ w \notin Range(st)
  BY <1>4, <1>5, <1>7, <1>8
<1>10. Apart(t, w)
  BY <1>6, <1>7, <1>8, <1>9 DEF Apart
<1>11. Sent(t, NoCommand)
  <2>1. Range(st) \subseteq (Range(is.active) \cup {More}) \ {w}
    BY <1>1, <1>4, <1>9 DEF Sent
  <2>2. QED  BY <1>6, <2>1 DEF Sent
<1>12. Wire(t, NoCommand)
  <2>1. \A k \in DOMAIN st : st[k] # More
    BY <1>9 DEF Range
  <2>2. QED  BY <1>6, <2>1 DEF Wire
<1>13. is.literal # w
  BY <1>1, <1>5, <1>7 DEF Literal
<1>14. Literal(t)
  <2>1. ASSUME NEW k \in DOMAIN st, Continues(st[k])
        PROVE  t.literal = st[k] /\ k = Len(st)
    <3>1. k + 1 \in DOMAIN is.stream /\ st[k] = is.stream[k + 1] /\ k \in Nat
      BY <1>4, <2>1
    <3>2. is.literal = st[k] /\ k + 1 = Len(is.stream)
      BY <1>1, <2>1, <3>1 DEF Literal
    <3>3. k = Len(st)
      BY <1>3, <1>4, <3>1, <3>2
    <3>4. QED  BY <1>6, <1>13, <3>2, <3>3
  <2>2. ASSUME t.literal # NoCommand  PROVE Continues(t.literal) /\ t.literal \in Range(st)
    <3>1. t.literal = is.literal
      BY <1>6, <1>13
    <3>2. Continues(is.literal) /\ is.literal \in Range(is.stream)
      BY <1>1, <2>2, <3>1 DEF Literal
    <3>3. is.literal # More
      BY <3>2, CommandsDiffer
    <3>4. QED  BY <1>4, <1>5, <3>1, <3>2, <3>3
  <2>3. QED  BY <1>6, <2>1, <2>2 DEF Literal
<1>15. is.idle = "OFF"
  <2>1. is.active # <<>>
    BY <1>7 DEF Range
  <2>2. is.stream # <<Idle>>
    BY <1>5, CommandsDiffer DEF Commands
  <2>3. is.idle \in {"OFF", "PENDING", "ISSUED", "STARTED", "CANCEL"}
    BY DEF Servers
  <2>4. QED  BY <1>1, <2>1, <2>2, <2>3 DEF IdleState
<1>16. IdleState(t, w, NoCommand)
  <2>1. Idle \notin Range(is.stream)
    BY <1>1, <1>15 DEF IdleState
  <2>2. Idle \notin Range(st)
    BY <1>4, <2>1
  <2>3. QED  BY <1>6, <1>15, <2>2 DEF IdleState
<1>17. w.op # "SELECT" /\ NoCommand.op = "NONE" /\ \A f : Select(f).op = "SELECT"
  BY <1>7 DEF Continues, NoCommand, Select
<1>18. Selecting(t, w, ok, sel)
  <2>1. CASE is.select_pending = NULL
    BY <1>1, <1>6, <1>17, <2>1 DEF Selecting
  <2>2. CASE is.select_pending # NULL
    <3>1. /\ is.select_folder \in {NULL, is.select_pending}
          /\ Select(is.select_pending) \in Range(is.active)
          /\ \A x \in Range(is.active) : x.op = "SELECT" => x.folder = is.select_pending
          /\ is.select_folder # NULL => sel = NULL
      <4>1. \A f : Select(f) # NoCommand
        BY <1>17
      <4>2. QED  BY <1>1, <2>2, <4>1 DEF Selecting
    <3>2. Select(is.select_pending) \in Range(t.active)
      BY <1>6, <1>17, <3>1
    <3>3. QED  BY <1>6, <1>17, <2>2, <3>1, <3>2 DEF Selecting
  <2>3. QED  BY <2>1, <2>2
<1>19. InFolder(t, jb, sel)
  BY <1>1, <1>6 DEF InFolder
<1>20. Fresh(t, jb, w)
  BY <1>1, <1>6, <1>7 DEF Fresh
<1>21. QED  BY <1>1, <1>6, <1>10, <1>11, <1>12, <1>14, <1>16, <1>18, <1>19, <1>20 DEF Connected

\* The server asks for more of w.
LEMMA ContinuationKeeps ==
  ASSUME is \in Servers, NEW jb \in JobMaps, NEW sel, NEW ok,
         Connected(is, jb, NoCommand, ok, NoCommand, sel),
         is.stream # <<>>, NEW w \in Commands, w = is.stream[1], Continues(w),
         NEW id, NEW st,
         \/ is.idle = "ISSUED" /\ id = "STARTED" /\ st = <<>>
         \/ is.idle \in {"CANCEL", "OFF"} /\ id = "OFF" /\ st = <<More>>,
         NEW t, t = [is EXCEPT !.stream = st, !.idle = id, !.literal = NoCommand]
  PROVE  t \in Servers /\ Connected(t, jb, NoCommand, ok, w, sel)
<1>1. /\ Apart(is, NoCommand) /\ Sent(is, NoCommand) /\ Literal(is)
      /\ IdleState(is, NoCommand, NoCommand)
      /\ Selecting(is, NoCommand, ok, sel) /\ InFolder(is, jb, sel) /\ Fresh(is, jb, NoCommand)
      /\ is.state \in {"INITIALISED", "SELECTED"}
  BY DEF Connected
<1>2. st \in Seq(Commands \cup {More}) /\ id \in {"OFF", "STARTED"}
  <2>1. PICK X : X = Commands \cup {More}
    OBVIOUS
  <2>2. More \in X
    BY <2>1
  <2>3. <<>> \in Seq(X) /\ <<More>> \in Seq(X)
    BY <2>2
  <2>4. QED  BY <2>1, <2>3
<1>3. /\ t \in Servers /\ t.queue = is.queue /\ t.active = is.active /\ t.stream = st
      /\ t.literal = NoCommand /\ t.idle = id /\ t.state = is.state
      /\ t.select_folder = is.select_folder /\ t.select_pending = is.select_pending
  BY <1>2 DEF Servers
<1>4. w # More /\ w # NoCommand /\ More # Idle /\ More # NoCommand /\ ~Continues(More) /\ NoCommand # Idle
      /\ ~Continues(NoCommand)
  BY CommandsDiffer DEF More, Idle, NoCommand
<1>5. w \in Range(is.active)
  <2>1. w \in Range(is.stream)
    BY SequencesOf, TailIs
  <2>2. QED  BY <1>1, <1>4, <2>1 DEF Sent
<1>6. /\ Range(st) \subseteq {More} /\ IsInjective(st)
      /\ \A i \in DOMAIN st : i = 1 /\ st[i] = More
  BY DEF Range, IsInjective
<1>7. w \notin Range(st)
  BY <1>4, <1>6
<1>8. Apart(t, NoCommand)
  BY <1>1, <1>3, <1>6 DEF Apart
<1>9. Sent(t, w)
  BY <1>3, <1>5, <1>6, <1>7 DEF Sent
<1>10. Wire(t, w)
  <2>1. st # <<>> => st[1] = More
    OBVIOUS
  <2>2. st = <<>> => id = "STARTED"
    OBVIOUS
  <2>3. QED  BY <1>3, <1>4, <1>6, <2>1, <2>2 DEF Wire
<1>11. Literal(t)
  BY <1>3, <1>4, <1>6 DEF Literal
<1>12. IdleState(t, NoCommand, w)
  <2>1. Idle \notin Range(st)
    BY <1>4, <1>6
  <2>2. CASE is.idle = "ISSUED" /\ id = "STARTED" /\ st = <<>>
    <3>1. is.active = <<Idle>> /\ is.state = "SELECTED" /\ is.select_pending = NULL
      BY <1>1, <1>4, <2>2 DEF IdleState
    <3>2. w = Idle
      BY <1>5, <3>1 DEF Range
    <3>3. QED  BY <1>3, <2>1, <2>2, <3>1, <3>2 DEF IdleState
  <2>3. CASE id = "OFF"
    BY <1>3, <2>1, <2>3 DEF IdleState
  <2>4. QED  BY <2>2, <2>3
<1>13. Selecting(t, NoCommand, ok, sel)
  BY <1>1, <1>3 DEF Selecting
<1>14. InFolder(t, jb, sel) /\ Fresh(t, jb, NoCommand)
  BY <1>1, <1>3 DEF InFolder, Fresh
<1>15. QED  BY <1>1, <1>3, <1>8, <1>9, <1>10, <1>11, <1>12, <1>13, <1>14 DEF Connected

\* CLOSED: the old selection is over.
LEMMA ClosedKeeps ==
  ASSUME NEW s \in Servers, NEW jb, NEW ok, NEW sel,
         Connected(s, jb, NoCommand, ok, NoCommand, sel),
         s.stream # <<>>, s.stream[1].op = "SELECT", sel # NULL,
         NEW t, t = [s EXCEPT !.select_folder = s.select_pending]
  PROVE  /\ s.select_pending # NULL /\ s.select_folder = NULL
         /\ t \in Servers /\ Connected(t, jb, NoCommand, ok, NoCommand, NULL)
<1>1. /\ Apart(s, NoCommand) /\ Sent(s, NoCommand) /\ Wire(s, NoCommand) /\ Literal(s)
      /\ IdleState(s, NoCommand, NoCommand)
      /\ Selecting(s, NoCommand, ok, sel) /\ InFolder(s, jb, sel) /\ Fresh(s, jb, NoCommand)
      /\ s.state \in {"INITIALISED", "SELECTED"}
  BY DEF Connected
<1>2. PICK c : c = s.stream[1]
  OBVIOUS
<1>3. c \in Range(s.stream) /\ c # More /\ c.op = "SELECT"
  BY <1>2, SequencesOf, TailIs, CommandsDiffer
<1>4. c \in Range(s.active) /\ c \in Commands
  BY <1>1, <1>3, SequencesOf DEF Sent
<1>5. s.select_pending # NULL
  BY <1>1, <1>3, <1>4 DEF Selecting
<1>6. c = Select(s.select_pending)
  BY <1>1, <1>3, <1>4, <1>5, CommandsDiffer DEF Selecting
<1>7. s.select_folder = NULL
  BY <1>1, <1>4, <1>5, <1>6 DEF Selecting
<1>8. /\ t \in Servers /\ t.queue = s.queue /\ t.active = s.active /\ t.stream = s.stream
      /\ t.literal = s.literal /\ t.select_folder = s.select_pending
      /\ t.select_pending = s.select_pending /\ t.state = s.state /\ t.idle = s.idle
  BY DEF Servers
<1>9. Apart(t, NoCommand) /\ Sent(t, NoCommand) /\ Wire(t, NoCommand) /\ Literal(t)
  BY <1>1, <1>8 DEF Apart, Sent, Wire, Literal
<1>10. IdleState(t, NoCommand, NoCommand)
  BY <1>1, <1>8 DEF IdleState
<1>11. Selecting(t, NoCommand, ok, NULL)
  <2>1. NoCommand.op = "NONE"
    BY CommandsDiffer
  <2>2. QED  BY <1>1, <1>5, <1>8, <2>1 DEF Selecting
<1>12. InFolder(t, jb, NULL)
  BY <1>1, <1>5, <1>8 DEF InFolder
<1>13. Fresh(t, jb, NoCommand)
  BY <1>1, <1>8 DEF Fresh
<1>14. QED  BY <1>1, <1>5, <1>7, <1>8, <1>9, <1>10, <1>11, <1>12, <1>13 DEF Connected

\* The jobs after n commands of one are done: those whose commands are still
\* there have not changed.
LEMMA FinishKeeps ==
  ASSUME NEW s \in Servers, NEW jb \in JobMaps, NEW ok, NEW w, NEW sel,
         Connected(s, jb, NoCommand, ok, w, sel), NEW jb2 \in JobMaps,
         \A j \in Jobs \cup Async :
           \/ jb2[j] = jb[j]
           \/ /\ j \in Async => Command(j, 1) \notin Range(s.queue) \cup Range(s.active)
              /\ j \notin Async => jb2[j].folder = jb[j].folder /\ jb2[j].issued = jb[j].issued
  PROVE  Connected(s, jb2, NoCommand, ok, w, sel)
<1>1. Fresh(s, jb, NoCommand)
  BY DEF Connected
<1>2. NoCommand \in Commands \cup {NoCommand}
  OBVIOUS
<1>3. ASSUME NEW c \in Range(s.queue) \cup Range(s.active) \cup {NoCommand}, c.op = "JOB"
      PROVE  /\ jb2[c.job].folder \in {jb[c.job].folder, NULL}
             /\ jb[c.job].issued <= jb2[c.job].issued
             /\ jb[c.job].issued \in Nat /\ jb2[c.job].issued \in Nat /\ c.part \in Nat
             /\ c.job \in Async => jb2[c.job].at = jb[c.job].at
  <2>1. /\ c.job \in Jobs \cup Async /\ c.part \in Nat \ {0} /\ c = Command(c.job, c.part)
        /\ jb[c.job].issued \in Nat
    BY <1>2, <1>3, TheirJobs
  <2>2. c # NoCommand
    BY <1>3, CommandsDiffer
  <2>3. c.job \in Async => c = Command(c.job, 1)
    BY <1>1, <1>3, <2>1 DEF Fresh
  <2>4. jb2[c.job] = jb[c.job]
        \/ (c.job \notin Async /\ jb2[c.job].folder = jb[c.job].folder /\ jb2[c.job].issued = jb[c.job].issued)
    BY <1>3, <2>1, <2>2, <2>3
  <2>5. QED  BY <2>1, <2>4
<1>4. QED  BY <1>3, JobsKeep

Adds(s, t, c) == Ours(t) = Ours(s) \cup {c}

\* The command of a job of several steps is completed: the next one is queued.
LEMMA NextStepKeeps ==
  ASSUME NEW s \in Servers, NEW jb \in JobMaps, NEW c \in JobCommands, NEW ok, NEW w, NEW sel,
         Connected(s, jb, c, ok, w, sel), NEW j, j = c.job, NEW r, NEW ok2,
         jb[j].issued < PartsOf(j),
         r.job \in JobMaps,
         \A k \in Jobs \cup Async : k # j => r.job[k] = jb[k],
         r.job[j] = [jb[j] EXCEPT !.issued = @ + 1],
         r.is = CommandQueue(s, r.job, Command(j, jb[j].issued + 1))
  PROVE  /\ Connected(r.is, r.job, NoCommand, ok2, w, sel)
         /\ Adds(s, r.is, Command(j, jb[j].issued + 1))
<1>1. c.op = "JOB" /\ c.job \in Jobs \cup Async /\ c.part \in Nat \ {0} /\ c = Command(c.job, c.part)
  BY CommandsDiffer
<1>2. Connected(s, jb, NoCommand, ok2, w, sel)
  BY <1>1, HandEmpty
<1>3. c.part <= jb[c.job].issued /\ (c.job \in Async => c = Command(c.job, 1))
  BY <1>1 DEF Connected, Fresh
<1>4. jb[j] \in JobStates /\ jb[j].issued \in Nat
  BY <1>1 DEF JobMaps, JobStates
<1>5. j \notin Async
  <2>1. j \in Async => PartsOf(j) = 1 /\ jb[j].issued >= 1
    BY <1>1, <1>3, <1>4 DEF PartsOf
  <2>2. QED  BY <1>4, <2>1
<1>6. PICK jb2 \in JobMaps : jb2 = r.job
  OBVIOUS
<1>7. jb2[j].issued = jb[j].issued + 1 /\ jb2[j].folder = jb[j].folder /\ jb2[j].at = jb[j].at
  BY <1>4, <1>6 DEF JobStates
<1>8. Connected(s, jb2, NoCommand, ok2, w, sel)
  <2>1. ASSUME NEW x \in Range(s.queue) \cup Range(s.active) \cup {NoCommand}, x.op = "JOB"
        PROVE  /\ jb2[x.job].folder \in {jb[x.job].folder, NULL}
               /\ jb[x.job].issued <= jb2[x.job].issued
               /\ jb[x.job].issued \in Nat /\ jb2[x.job].issued \in Nat /\ x.part \in Nat
               /\ x.job \in Async => jb2[x.job].at = jb[x.job].at
    <3>1. x.job \in Jobs \cup Async /\ x.part \in Nat /\ jb[x.job].issued \in Nat
      BY <2>1, TheirJobs
    <3>2. CASE x.job = j
      BY <1>7, <3>1, <3>2
    <3>3. CASE x.job # j
      <4>1. \A k \in Jobs \cup Async : k # j => r.job[k] = jb[k]
        OBVIOUS
      <4>2. jb2[x.job] = jb[x.job]
        BY <1>6, <3>1, <3>3, <4>1
      <4>3. QED  BY <3>1, <4>2
    <3>4. QED  BY <3>2, <3>3
  <2>2. QED  BY <1>2, <2>1, JobsKeep
<1>9. PICK n : n = jb[j].issued + 1
  OBVIOUS
<1>10. n \in Nat \ {0}
  BY <1>4, <1>9
<1>11. PICK d \in JobCommands : d = Command(j, n) /\ d.op = "JOB" /\ d.job = j /\ d.part = n
  BY <1>1, <1>10, CommandIs
<1>12. d \notin Range(s.queue) \cup Range(s.active) \cup {NoCommand}
  <2>1. SUFFICES ASSUME d \in Range(s.queue) \cup Range(s.active)  PROVE FALSE
    BY <1>11, CommandsDiffer
  <2>2. d.part <= jb[j].issued
    BY <1>2, <1>11, <2>1 DEF Connected, Fresh
  <2>3. QED  BY <1>4, <1>9, <1>11, <2>2
<1>13. d.part <= jb2[d.job].issued /\ (d.job \in Async => jb2[d.job].at = "wait" /\ d.part = 1)
  BY <1>4, <1>5, <1>7, <1>9, <1>11
<1>14. PICK t : t = CommandQueue(s, jb2, d)
  OBVIOUS
<1>15. Connected(t, jb2, NoCommand, ok2, w, sel) /\ Ours(t) = Ours(s) \cup {d}
  BY <1>8, <1>12, <1>13, <1>14, QueueKeeps
<1>16. r.is = t
  BY <1>6, <1>9, <1>11, <1>14
<1>17. QED  BY <1>6, <1>9, <1>11, <1>15, <1>16 DEF Adds

\* The command of a job is completed.
LEMMA CompleteJobKeeps ==
  ASSUME NEW s \in Servers, NEW jb \in JobMaps, NEW c \in JobCommands, NEW ok \in BOOLEAN, NEW w, NEW sel,
         Connected(s, jb, c, ok, w, sel), NEW r, r = JobComplete(s, jb, c, ok), NEW ok2
  PROVE  Connected(r.is, r.job, NoCommand, ok2, w, sel)
<1>1. c.op = "JOB" /\ c.job \in Jobs \cup Async /\ c.part \in Nat \ {0} /\ c = Command(c.job, c.part)
  BY CommandsDiffer
<1>2. Connected(s, jb, NoCommand, ok2, w, sel)
  BY <1>1, HandEmpty
<1>3. c.part <= jb[c.job].issued /\ (c.job \in Async => c = Command(c.job, 1))
  BY <1>1 DEF Connected, Fresh
<1>4. c \notin Range(s.queue) \cup Range(s.active)
  BY DEF Connected, Apart
<1>5. PICK j : j = c.job
  OBVIOUS
<1>6. jb[j] \in JobStates /\ jb[j].issued \in Nat
  BY <1>1, <1>5 DEF JobMaps, JobStates
<1>7. \/ /\ JobKind(c.job) = "steps" /\ ok /\ jb[c.job].issued < PartsOf(c.job)
         /\ s.state # "SHUTDOWN"
         /\ r.job \in JobMaps
         /\ \A k \in Jobs \cup Async : k # c.job => r.job[k] = jb[k]
         /\ r.job[c.job] = [jb[c.job] EXCEPT !.issued = @ + 1]
         /\ r.is = CommandQueue(s, r.job, Command(c.job, jb[c.job].issued + 1))
      \/ \E failed \in BOOLEAN :
           /\ r.is = s /\ r.job = Finish(jb, c.job, 1, failed)
           /\ ~ok => failed
           /\ ~failed => JobKind(c.job) # "steps" \/ ~(jb[c.job].issued < PartsOf(c.job))
  BY JobCompleteIs
<1>8. ASSUME jb[j].issued < PartsOf(j),
             r.job \in JobMaps,
             \A k \in Jobs \cup Async : k # j => r.job[k] = jb[k],
             r.job[j] = [jb[j] EXCEPT !.issued = @ + 1],
             r.is = CommandQueue(s, r.job, Command(j, jb[j].issued + 1))
      PROVE  Connected(r.is, r.job, NoCommand, ok2, w, sel)
  <2>1. /\ Connected(r.is, r.job, NoCommand, ok2, w, sel)
        /\ Adds(s, r.is, Command(j, jb[j].issued + 1))
    BY <1>5, <1>8, NextStepKeeps
  <2>2. QED  BY <2>1
<1>9. ASSUME NEW failed \in BOOLEAN, r.is = s, r.job = Finish(jb, j, 1, failed)
      PROVE  Connected(r.is, r.job, NoCommand, ok2, w, sel)
  <2>1. PICK jb2 \in JobMaps :
          /\ jb2 = Finish(jb, j, 1, failed)
          /\ \A k \in Jobs \cup Async : k # j => jb2[k] = jb[k]
          /\ jb[j].commands # 1 \/ j \notin Async =>
               jb2[j].folder = jb[j].folder /\ jb2[j].issued = jb[j].issued
    BY <1>1, <1>5, FinishIs
  <2>2. j \in Async => Command(j, 1) \notin Range(s.queue) \cup Range(s.active)
    BY <1>3, <1>4, <1>5
  <2>3. ASSUME NEW k \in Jobs \cup Async
        PROVE  \/ jb2[k] = jb[k]
               \/ /\ k \in Async => Command(k, 1) \notin Range(s.queue) \cup Range(s.active)
                  /\ k \notin Async => jb2[k].folder = jb[k].folder /\ jb2[k].issued = jb[k].issued
    BY <2>1, <2>2
  <2>4. Connected(s, jb2, NoCommand, ok2, w, sel)
    BY <1>2, <2>3, FinishKeeps
  <2>5. QED  BY <1>9, <2>1, <2>4
<1>10. QED  BY <1>5, <1>7, <1>8, <1>9

\* The SELECT failed.
LEMMA SelectFailedKeeps ==
  ASSUME NEW s \in Servers, NEW jb \in JobMaps, NEW ic \in Commands, NEW w, NEW sel, NEW ok,
         Connected(s, jb, ic, ok, w, sel), ic.op = "SELECT", sel = NULL,
         NEW byError,
         NEW r, r = SelectFailed(s, jb, byError), r.is.state = "INITIALISED", NEW ok2
  PROVE  Connected(r.is, r.job, NoCommand, ok2, w, sel)
<1>1. /\ Apart(s, ic) /\ Sent(s, w) /\ Wire(s, w) /\ Literal(s) /\ IdleState(s, ic, w) /\ Fresh(s, jb, ic)
  BY DEF Connected
<1>2. /\ s.select_pending # NULL
      /\ \A c \in Range(s.active) : c.op # "SELECT" /\ SelectOf(c, jb) = NULL
      /\ s.idle = "OFF" /\ sel = NULL
  BY SelectInHand
<1>3. PICK failed : failed = Failing(s, jb)
  OBVIOUS
<1>4. r.is.state = "INITIALISED"
  OBVIOUS
<1>5. /\ r.is \in Servers /\ r.job \in JobMaps
      /\ r.is.queue = Keep(s.queue, DOMAIN s.queue \ failed)
      /\ r.is.active = s.active /\ r.is.stream = s.stream /\ r.is.literal = s.literal
      /\ r.is.idle = s.idle /\ r.is.select_pending = NULL /\ r.is.select_folder = NULL
      /\ \A j \in Jobs \cup Async :
           \E n \in Nat :
             /\ n = Cardinality(FailingOf(s, jb, j))
             /\ r.job[j] = IF FailingOf(s, jb, j) = {} THEN jb[j] ELSE Failed(jb, j, n)[j]
  <2>1. LeftOver(s, jb, r)
    BY SelectFailedIs
  <2>2. QED  BY <1>3, <2>1 DEF LeftOver
<1>6. PICK t, jb2, q : /\ t = r.is /\ jb2 = r.job /\ q = Keep(s.queue, DOMAIN s.queue \ failed)
                       /\ t \in Servers /\ jb2 \in JobMaps
  BY <1>5
<1>7. /\ t.queue = q /\ t.active = s.active /\ t.stream = s.stream /\ t.literal = s.literal /\ t.idle = "OFF"
      /\ t.select_folder = NULL /\ t.select_pending = NULL /\ t.state = "INITIALISED"
  BY <1>2, <1>4, <1>5, <1>6
<1>8. /\ \A x \in Range(q) : \E i \in DOMAIN s.queue \ failed : x = s.queue[i]
      /\ IsInjective(s.queue) => IsInjective(q)
  <2>1. s.queue \in Seq(JobCommands) /\ DOMAIN s.queue \ failed \in SUBSET DOMAIN s.queue
    BY SequencesOf
  <2>2. QED  BY <1>6, <2>1, KeepIs
<1>9. Range(q) \subseteq Range(s.queue)
  BY <1>8 DEF Range
<1>10. NoCommand.op = "NONE" /\ NoCommand \notin Range(s.queue) \cup Range(s.active)
  BY CommandsDiffer, SequencesOf DEF Commands
<1>11. Connected(t, jb, NoCommand, ok2, w, sel)
  <2>1. Apart(t, NoCommand)
    BY <1>1, <1>7, <1>8, <1>9, <1>10 DEF Apart
  <2>2. Sent(t, w) /\ Literal(t)
    BY <1>1, <1>7 DEF Sent, Literal
  <2>3. Wire(t, w)
    BY <1>1, <1>2, <1>7 DEF Wire
  <2>4. IdleState(t, NoCommand, w)
    BY <1>1, <1>2, <1>7 DEF IdleState
  <2>5. Selecting(t, NoCommand, ok2, sel)
    BY <1>2, <1>7, <1>10 DEF Selecting
  <2>6. InFolder(t, jb, sel)
    BY <1>2, <1>7 DEF InFolder
  <2>7. Fresh(t, jb, NoCommand)
    BY <1>1, <1>7, <1>9, <1>10 DEF Fresh
  <2>8. QED  BY <1>7, <2>1, <2>2, <2>3, <2>4, <2>5, <2>6, <2>7 DEF Connected
<1>12. ASSUME NEW j \in Jobs \cup Async
       PROVE  \/ jb2[j] = jb[j]
              \/ /\ j \in Async => Command(j, 1) \notin Range(t.queue) \cup Range(t.active)
                 /\ j \notin Async => jb2[j].folder = jb[j].folder /\ jb2[j].issued = jb[j].issued
  <2> SUFFICES ASSUME jb2[j] # jb[j]
               PROVE  /\ j \in Async => Command(j, 1) \notin Range(t.queue) \cup Range(t.active)
                      /\ j \notin Async => jb2[j].folder = jb[j].folder /\ jb2[j].issued = jb[j].issued
    OBVIOUS
  <2>1. PICK n \in Nat : jb2[j] = IF FailingOf(s, jb, j) = {} THEN jb[j] ELSE Failed(jb, j, n)[j]
    BY <1>5, <1>6
  <2>2. FailingOf(s, jb, j) # {} /\ jb2[j] = Failed(jb, j, n)[j]
    BY <2>1
  <2>3. PICK i \in failed : s.queue[i].job = j
    BY <1>3, <2>2 DEF FailingOf
  <2>4. i \in DOMAIN s.queue /\ s.queue[i] \in Range(s.queue) /\ s.queue[i] \in JobCommands
    BY <1>3, SequencesOf DEF Range, Failing
  <2>5. ASSUME j \in Async  PROVE Command(j, 1) \notin Range(t.queue) \cup Range(t.active)
    <3>1. s.queue[i] = Command(j, 1)
      <4>1. s.queue[i].op = "JOB" /\ s.queue[i] = Command(s.queue[i].job, s.queue[i].part)
        BY <2>4, CommandsDiffer
      <4>2. s.queue[i].part = 1
        BY <1>1, <2>3, <2>4, <2>5, <4>1 DEF Fresh
      <4>3. QED  BY <2>3, <4>1, <4>2
    <3>2. s.queue[i] \notin Range(s.active)
      BY <1>1, <2>4 DEF Apart
    <3>3. s.queue[i] \notin Range(q)
      <4>1. SUFFICES ASSUME NEW k \in DOMAIN s.queue \ failed, s.queue[i] = s.queue[k]  PROVE FALSE
        BY <1>8
      <4>2. i = k
        BY <1>1, <2>4, <4>1 DEF Apart, IsInjective
      <4>3. QED  BY <2>3, <4>1, <4>2
    <3>4. QED  BY <1>7, <3>1, <3>2, <3>3
  <2>6. ASSUME j \notin Async  PROVE jb2[j].folder = jb[j].folder /\ jb2[j].issued = jb[j].issued
    <3>1. Failed(jb, j, n)[j].folder = jb[j].folder /\ Failed(jb, j, n)[j].issued = jb[j].issued
      <4>1. FailedState(jb[j], Failed(jb, j, n)[j], n)
        BY <2>6, FailedIs
      <4>2. QED  BY <4>1 DEF FailedState
    <3>2. QED  BY <2>2, <3>1
  <2>7. QED  BY <2>5, <2>6
<1>13. Connected(t, jb2, NoCommand, ok2, w, sel)
  <2>1. t \in Servers /\ jb2 \in JobMaps
    BY <1>6
  <2>2. QED  BY <1>11, <1>12, <2>1, FinishKeeps
<1>14. QED  BY <1>6, <1>13

\* The SELECT succeeded.
LEMMA SelectOkKeeps ==
  ASSUME NEW s \in Servers, NEW jb \in JobMaps, NEW ic \in Commands, NEW w, NEW sel, NEW ok,
         Connected(s, jb, ic, ok, w, sel), ic.op = "SELECT", sel = s.select_pending,
         NEW grown, NEW r, r = SelectOk(s, jb, grown), NEW ok2
  PROVE  Connected(r.is, r.job, NoCommand, ok2, w, sel) /\ SameForCallers(s, jb, r)
<1>1. /\ s.select_pending # NULL /\ ic = Select(s.select_pending)
      /\ s.select_folder \in {NULL, s.select_pending}
      /\ \A c \in Range(s.active) : c.op # "SELECT" /\ SelectOf(c, jb) = NULL
      /\ s.idle = "OFF" /\ sel = IF ok THEN s.select_pending ELSE NULL
  BY SelectInHand
<1>2. PICK v : v = Opened(s)
  OBVIOUS
<1>3. /\ v \in Servers /\ v.queue = s.queue /\ v.active = s.active /\ v.stream = s.stream
      /\ v.literal = s.literal /\ v.select_folder = s.select_pending
      /\ v.select_pending = s.select_pending /\ v.state = "SELECTED" /\ v.idle = "OFF"
  BY <1>1, <1>2 DEF Servers, Opened
<1>4. /\ Apart(s, ic) /\ Sent(s, w) /\ Wire(s, w) /\ Literal(s) /\ IdleState(s, ic, w)
      /\ InFolder(s, jb, sel) /\ Fresh(s, jb, ic)
  BY DEF Connected
<1>5. Connected(v, jb, ic, ok, w, sel)
  <2>1. Apart(v, ic) /\ Sent(v, w) /\ Literal(v) /\ InFolder(v, jb, sel) /\ Fresh(v, jb, ic)
    BY <1>3, <1>4 DEF Apart, Sent, Literal, InFolder, Fresh
  <2>2. Wire(v, w)
    BY <1>1, <1>3, <1>4 DEF Wire
  <2>3. IdleState(v, ic, w)
    BY <1>1, <1>3, <1>4 DEF IdleState
  <2>4. Selecting(v, ic, ok, sel)
    <3>1. Select(s.select_pending) \notin Range(s.active) /\ ic.folder = s.select_pending
      BY <1>1, <1>4 DEF Apart, Select
    <3>2. QED  BY <1>1, <1>3, <3>1 DEF Selecting
  <2>5. QED  BY <1>3, <2>1, <2>2, <2>3, <2>4 DEF Connected
<1>6. PICK q : q = FetchNewMessages(v, jb, s.select_pending)
  OBVIOUS
<1>7. /\ q.is \in Servers /\ q.job \in JobMaps /\ Connected(q.is, q.job, ic, ok, w, sel)
      /\ v.select_pending # NULL => /\ q.is.select_pending = v.select_pending
                                    /\ q.is.select_folder = v.select_folder /\ q.is.state = v.state
      /\ SameForCallers(v, jb, q)
  <2>1. s.select_pending \in SomeFolder
    BY DEF Servers
  <2>2. PICK f \in SomeFolder : f = s.select_pending
    BY <2>1
  <2>3. q = FetchNewMessages(v, jb, f) /\ ic \in Commands \cup {NoCommand}
    BY <1>6, <2>2
  <2>4. QED  BY <1>3, <1>5, <2>3, FetchKeeps
<1>8. \/ r.is = [v EXCEPT !.select_pending = NULL] /\ r.job = jb
      \/ r.is = [q.is EXCEPT !.select_pending = NULL] /\ r.job = q.job
  <2>1. \/ r.is = [Opened(s) EXCEPT !.select_pending = NULL] /\ r.job = jb
        \/ LET p == FetchNewMessages(Opened(s), jb, s.select_pending)
           IN  r.is = [p.is EXCEPT !.select_pending = NULL] /\ r.job = p.job
    BY SelectOkIs
  <2>2. QED  BY <1>2, <1>6, <2>1
<1>9. CASE r.is = [v EXCEPT !.select_pending = NULL] /\ r.job = jb
  <2>1. v.select_folder = v.select_pending
    BY <1>3
  <2>2. PICK t : t = [v EXCEPT !.select_pending = NULL]
    OBVIOUS
  <2>3. Connected(t, jb, NoCommand, ok2, w, sel)
    BY <1>3, <1>5, <2>1, <2>2, SelectionDone
  <2>4. t.queue = s.queue /\ t.active = s.active
    BY <1>3, <2>2
  <2>5. SameForCallers(s, jb, r)
    BY <1>9, <2>2, <2>4 DEF SameForCallers, Ours
  <2>6. QED  BY <1>9, <2>2, <2>3, <2>5
<1>10. CASE r.is = [q.is EXCEPT !.select_pending = NULL] /\ r.job = q.job
  <2>1. PICK x \in Servers : x = q.is
    BY <1>7
  <2>2. Connected(x, q.job, ic, ok, w, sel) /\ x.select_folder = x.select_pending /\ sel = x.select_pending
    BY <1>1, <1>3, <1>7, <2>1
  <2>3. PICK t : t = [x EXCEPT !.select_pending = NULL]
    OBVIOUS
  <2>4. Connected(t, q.job, NoCommand, ok2, w, sel)
    BY <2>2, <2>3, SelectionDone
  <2>5. t.queue = q.is.queue /\ t.active = q.is.active
    BY <2>1, <2>3 DEF Servers
  <2>6. Ours(t) = Ours(q.is) /\ Ours(v) = Ours(s)
    BY <1>3, <2>5 DEF Ours
  <2>7. SameForCallers(s, jb, r)
    BY <1>7, <1>10, <2>1, <2>3, <2>6 DEF SameForCallers
  <2>8. QED  BY <1>10, <2>1, <2>3, <2>4, <2>7
<1>11. QED  BY <1>8, <1>9, <1>10

\* The answer to IDLE has come (imapx_command_idle_done).
LEMMA IdleDoneKeeps ==
  ASSUME NEW s \in Servers, NEW jb, NEW ok, NEW w, NEW sel,
         Connected(s, jb, Idle, ok, w, sel), NEW t, t = [s EXCEPT !.idle = "OFF"], NEW ok2
  PROVE  Connected(t, jb, NoCommand, ok2, w, sel)
<1>1. /\ Apart(s, Idle) /\ Sent(s, w) /\ Wire(s, w) /\ Literal(s) /\ IdleState(s, Idle, w)
      /\ Selecting(s, Idle, ok, sel) /\ InFolder(s, jb, sel) /\ Fresh(s, jb, Idle)
      /\ s.state \in {"INITIALISED", "SELECTED"}
  BY DEF Connected
<1>2. /\ t.queue = s.queue /\ t.active = s.active /\ t.stream = s.stream /\ t.literal = s.literal
      /\ t.idle = "OFF" /\ t.select_folder = s.select_folder /\ t.select_pending = s.select_pending
      /\ t.state = s.state
  BY DEF Servers
<1>3. Idle # More /\ NoCommand.op = "NONE" /\ NoCommand \notin Range(s.queue) \cup Range(s.active)
  BY CommandsDiffer, SequencesOf DEF Commands
<1>4. Idle \notin Range(s.active)
  BY <1>1 DEF Apart
<1>5. Idle \notin Range(s.stream)
  BY <1>1, <1>3, <1>4 DEF Sent
<1>6. s.idle # "STARTED"
  <2>1. s.active = <<Idle>> => Idle \in Range(s.active)
    BY DEF Range
  <2>2. QED  BY <1>1, <1>4, <2>1 DEF IdleState
<1>7. Apart(t, NoCommand)
  BY <1>1, <1>2, <1>3 DEF Apart
<1>8. Sent(t, w) /\ Literal(t) /\ InFolder(t, jb, sel)
  BY <1>1, <1>2 DEF Sent, Literal, InFolder
<1>9. Wire(t, w)
  BY <1>1, <1>2, <1>6 DEF Wire
<1>10. IdleState(t, NoCommand, w)
  BY <1>2, <1>5 DEF IdleState
<1>11. Selecting(t, NoCommand, ok2, sel)
  <2>1. Idle.op = "IDLE"
    BY DEF Idle
  <2>2. \A f : Idle # Select(f)
    BY DEF Idle, Select
  <2>3. QED  BY <1>1, <1>2, <1>3, <2>1, <2>2 DEF Selecting
<1>12. Fresh(t, jb, NoCommand)
  BY <1>1, <1>2, <1>3 DEF Fresh
<1>13. QED  BY <1>1, <1>2, <1>7, <1>8, <1>9, <1>10, <1>11, <1>12 DEF Connected

\* IDLE is issued (imapx_job_idle_start): nothing else is under way.
LEMMA IdleIssueKeeps ==
  ASSUME NEW s \in Servers, NEW jb, NEW ic, NEW ok, NEW w, NEW sel,
         Connected(s, jb, ic, ok, w, sel), s.idle = "PENDING",
         NEW t, t = CommandStart([s EXCEPT !.idle = "ISSUED"], Idle)
  PROVE  Connected(t, jb, ic, ok, w, sel)
<1>1. /\ Apart(s, ic) /\ Sent(s, w) /\ Wire(s, w) /\ Literal(s) /\ IdleState(s, ic, w)
      /\ Selecting(s, ic, ok, sel) /\ InFolder(s, jb, sel) /\ Fresh(s, jb, ic)
      /\ s.state \in {"INITIALISED", "SELECTED"}
  BY DEF Connected
<1>2. s.active = <<>> /\ ic # Idle /\ s.state = "SELECTED" /\ s.select_pending = NULL
  BY <1>1 DEF IdleState
<1>3. w = NoCommand /\ s.stream = <<>> /\ s.literal = NoCommand
  BY <1>2, NothingSent
<1>4. Idle \in Commands /\ Continues(Idle) /\ Idle \notin JobCommands /\ Idle # More /\ Idle.op = "IDLE"
  BY CommandsDiffer DEF Commands, Continues
<1>5. PICK v \in Servers :
        /\ v = [s EXCEPT !.idle = "ISSUED"]
        /\ v.queue = s.queue /\ v.active = s.active /\ v.stream = s.stream /\ v.idle = "ISSUED"
        /\ v.select_folder = s.select_folder /\ v.select_pending = s.select_pending /\ v.state = s.state
  <2>1. PICK v : v = [s EXCEPT !.idle = "ISSUED"]
    OBVIOUS
  <2>2. /\ v \in Servers /\ v.idle = "ISSUED"
        /\ v.queue = s.queue /\ v.active = s.active /\ v.stream = s.stream
        /\ v.select_folder = s.select_folder /\ v.select_pending = s.select_pending /\ v.state = s.state
    BY <2>1 DEF Servers
  <2>3. QED  BY <2>1, <2>2
<1>6. /\ t.active = Append(v.active, Idle) /\ t.stream = Append(v.stream, Idle) /\ t.literal = Idle
      /\ t.queue = v.queue /\ t.idle = v.idle /\ t.select_folder = v.select_folder
      /\ t.select_pending = v.select_pending /\ t.state = v.state
  BY <1>4, <1>5, StartTypes
<1>7. t.active = <<Idle>> /\ t.stream = <<Idle>>
  BY <1>2, <1>3, <1>5, <1>6
<1>8. /\ t.queue = s.queue /\ t.literal = Idle /\ t.idle = "ISSUED" /\ t.select_folder = s.select_folder
      /\ t.select_pending = NULL /\ t.state = "SELECTED"
  BY <1>2, <1>5, <1>6
<1>9. /\ Range(t.active) = {Idle} /\ Range(t.stream) = {Idle}
      /\ IsInjective(t.active) /\ IsInjective(t.stream)
      /\ \A i \in DOMAIN t.stream : t.stream[i] = Idle /\ i = 1 /\ i = Len(t.stream)
  <2>1. PICK e : e = Idle
    OBVIOUS
  <2>2. \A q : q = <<e>> => /\ Range(q) = {e} /\ IsInjective(q)
                            /\ \A i \in DOMAIN q : q[i] = e /\ i = 1 /\ i = Len(q)
    BY DEF Range, IsInjective
  <2>3. QED  BY <1>7, <2>1, <2>2
<1>10. Apart(t, ic)
  <2>1. Idle \notin Range(s.queue)
    BY <1>4, SequencesOf
  <2>2. QED  BY <1>1, <1>2, <1>8, <1>9, <2>1 DEF Apart
<1>11. Sent(t, w) /\ Wire(t, w)
  BY <1>3, <1>4, <1>9 DEF Sent, Wire
<1>12. Literal(t)
  BY <1>4, <1>8, <1>9 DEF Literal
<1>13. IdleState(t, ic, w)
  BY <1>7, <1>8, <1>9 DEF IdleState
<1>14. Selecting(t, ic, ok, sel)
  BY <1>1, <1>2, <1>4, <1>8, <1>9 DEF Selecting
<1>15. InFolder(t, jb, sel)
  BY <1>4, <1>9 DEF InFolder, SelectOf
<1>16. Fresh(t, jb, ic)
  BY <1>1, <1>4, <1>8, <1>9 DEF Fresh
<1>17. QED  BY <1>8, <1>10, <1>11, <1>12, <1>13, <1>14, <1>15, <1>16 DEF Connected

-----------------------------------------------------------------------------
(* The inductive invariant of stream and selection.                        *)

\* After the connection is lost: what is on the stream stays there, no SELECT is
\* under way, and an IDLE that is still to be issued is the first command.
Disconnected ==
  /\ is.state = "SHUTDOWN"
  /\ is.select_pending = NULL
  /\ IsInjective(is.queue) /\ IsInjective(is.active)
  /\ Range(is.queue) \cap Range(is.active) = {}
  /\ \A c \in Range(is.active) : c.op # "SELECT"
  /\ is.idle = "PENDING" => is.active = <<>> /\ server.waiting = NoCommand /\ is.stream = <<>>

Reading == parser.at \in {"read", "complete", "next"}

Steady ==
  IF Reading
  THEN Connected(is, job, parser.ic, parser.ok, server.waiting, server.selected)
  ELSE Disconnected

\* A command is in the parser thread's hands while it is being completed.
Completing == parser.at = "complete" <=> parser.ic # NoCommand

StreamInv ==
  /\ CommandRunsInItsFolder /\ SelectionAgrees /\ WireInStep
  /\ Completing
  /\ is.state # "CRASHED" => Steady

\* What keeps the invariant while the parser thread reads ...
LEMMA ReadingKeeps ==
  ASSUME TypeOK', Reading', Completing',
         Connected(is', job', parser'.ic, parser'.ok, server'.waiting, server'.selected)
  PROVE  StreamInv'
<1>1. /\ is' \in Servers /\ job' \in JobMaps /\ server'.waiting \in Commands \cup {NoCommand}
  BY DEF TypeOK
<1>2. /\ \A c \in Range(is'.stream) \cup {server'.waiting} :
           SelectOf(c, job') # NULL => server'.selected = SelectOf(c, job')
      /\ is'.select_folder # NULL /\ server'.selected # NULL => is'.select_folder = server'.selected
      /\ \A i \in DOMAIN is'.stream : is'.stream[i] = More => i = 1 /\ server'.waiting # NoCommand
      /\ server'.waiting # NoCommand /\ is'.stream # <<>> => is'.stream[1] = More
  <2>1. PICK s \in Servers, jb \in JobMaps, w \in Commands \cup {NoCommand} :
          s = is' /\ jb = job' /\ w = server'.waiting
    BY <1>1
  <2>2. PICK ic, ok, sel : ic = parser'.ic /\ ok = parser'.ok /\ sel = server'.selected
    OBVIOUS
  <2>3. Connected(s, jb, ic, ok, w, sel)
    BY <2>1, <2>2
  <2>4. /\ \A c \in Range(s.stream) \cup {w} : SelectOf(c, jb) # NULL => sel = SelectOf(c, jb)
        /\ s.select_folder # NULL /\ sel # NULL => s.select_folder = sel
        /\ \A i \in DOMAIN s.stream : s.stream[i] = More => i = 1 /\ w # NoCommand
        /\ w # NoCommand /\ s.stream # <<>> => s.stream[1] = More
    BY <2>3, ConnectedGives
  <2>5. QED  BY <2>1, <2>2, <2>4
<1>3. CommandRunsInItsFolder' /\ SelectionAgrees' /\ WireInStep'
  BY <1>2 DEF CommandRunsInItsFolder, SelectionAgrees, WireInStep
<1>4. QED  BY <1>3 DEF StreamInv, Steady

\* ... and when it does not.
LEMMA LostKeeps ==
  ASSUME StreamInv, Completing',
         is'.stream = is.stream, server' = server, is'.select_folder = is.select_folder,
         \A c \in Range(is.stream) \cup {server.waiting} : SelectOf(c, job') \in {SelectOf(c, job), NULL},
         is'.state # "CRASHED" => ~Reading' /\ Disconnected'
  PROVE  StreamInv'
<1>1. CommandRunsInItsFolder' /\ SelectionAgrees' /\ WireInStep'
  BY DEF StreamInv, CommandRunsInItsFolder, SelectionAgrees, WireInStep
<1>2. QED  BY <1>1 DEF StreamInv, Steady

\* A job's folder is forgotten, or stays.
LEMMA FolderStays ==
  ASSUME NEW jb \in JobMaps, NEW jb2 \in JobMaps,
         \A k \in Jobs \cup Async : jb2[k].folder \in {jb[k].folder, NULL},
         NEW c \in Commands \cup {NoCommand, More}
  PROVE  SelectOf(c, jb2) \in {SelectOf(c, jb), NULL}
<1>1. CASE c.op = "JOB"
  <2>1. c \in JobCommands
    BY <1>1, CommandsDiffer
  <2>2. c.job \in Jobs \cup Async
    BY <2>1, CommandsDiffer
  <2>3. QED  BY <1>1, <2>2 DEF SelectOf
<1>2. CASE c.op # "JOB"
  BY <1>2 DEF SelectOf
<1>3. QED  BY <1>1, <1>2

\* While jobs keep their folders a SELECT stays what it is.
LEMMA FoldersStay ==
  ASSUME TypeOK, NEW jb2 \in JobMaps,
         \A k \in Jobs \cup Async : jb2[k].folder \in {job[k].folder, NULL}
  PROVE  \A c \in Range(is.stream) \cup {server.waiting} : SelectOf(c, jb2) \in {SelectOf(c, job), NULL}
<1>1. is \in Servers /\ job \in JobMaps /\ server.waiting \in Commands \cup {NoCommand}
  BY DEF TypeOK
<1>2. Range(is.stream) \cup {server.waiting} \subseteq Commands \cup {NoCommand, More}
  BY <1>1, SequencesOf
<1>3. QED  BY <1>1, <1>2, FolderStays

\* Only jobs change, in a way that their commands do not notice.
LEMMA JobsMove ==
  ASSUME TypeOK, TypeOK', StreamInv, is.state # "CRASHED", UNCHANGED <<is, parser, server>>,
         \A k \in Jobs \cup Async : /\ job'[k].folder \in {job[k].folder, NULL}
                                    /\ job[k].issued <= job'[k].issued
                                    /\ k \in Async => job'[k].at = job[k].at
  PROVE  StreamInv'
<1>1. /\ is \in Servers /\ job \in JobMaps /\ job' \in JobMaps
      /\ parser.ic \in Commands \cup {NoCommand}
  BY DEF TypeOK
<1>2. Completing'
  BY DEF StreamInv, Completing
<1>3. CASE Reading
  <2>1. Connected(is, job, parser.ic, parser.ok, server.waiting, server.selected)
    BY <1>3 DEF StreamInv, Steady
  <2>2. ASSUME NEW c \in Range(is.queue) \cup Range(is.active) \cup {parser.ic}, c.op = "JOB"
        PROVE  /\ job'[c.job].folder \in {job[c.job].folder, NULL}
               /\ job[c.job].issued <= job'[c.job].issued
               /\ job[c.job].issued \in Nat /\ job'[c.job].issued \in Nat /\ c.part \in Nat
               /\ c.job \in Async => job'[c.job].at = job[c.job].at
    <3>1. c.job \in Jobs \cup Async /\ c.part \in Nat
      BY <1>1, <2>2, TheirJobs
    <3>2. job[c.job].issued \in Nat /\ job'[c.job].issued \in Nat
      BY <1>1, <3>1 DEF JobMaps, JobStates
    <3>3. QED  BY <3>1, <3>2
  <2>3. Connected(is, job', parser.ic, parser.ok, server.waiting, server.selected)
    BY <1>1, <2>1, <2>2, JobsKeep
  <2>4. QED  BY <1>2, <1>3, <2>3, ReadingKeeps DEF Reading
<1>4. CASE ~Reading
  <2>1. Disconnected
    BY <1>4 DEF StreamInv, Steady
  <2>2. Disconnected' /\ ~Reading'
    BY <1>4, <2>1 DEF Disconnected, Reading
  <2>3. \A c \in Range(is.stream) \cup {server.waiting} : SelectOf(c, job') \in {SelectOf(c, job), NULL}
    BY <1>1, FoldersStay
  <2>4. QED  BY <1>2, <2>2, <2>3, LostKeeps
<1>5. QED  BY <1>3, <1>4

\* A job that is taken on, waits or returns.
Places == {"new", "refused", "start", "check", "wait", "returned"}
Moved(jb, j, a) == [jb EXCEPT ![j].at = a]

\* A job that goes on with what it has: only its place changes.
LEMMA MovedJob ==
  ASSUME NEW jb \in JobMaps, NEW j \in Jobs \cup Async,
         NEW a \in Places,
         NEW r, r = Moved(jb, j, a)
  PROVE  /\ r \in JobMaps /\ \A k \in Jobs \cup Async : k # j => r[k] = jb[k]
         /\ r[j].at = a /\ r[j].folder = jb[j].folder /\ r[j].issued = jb[j].issued
         /\ r[j].commands = jb[j].commands /\ r[j].error = jb[j].error /\ r[j].replies = jb[j].replies
<1>1. jb[j] \in JobStates
  BY DEF JobMaps
<1>2. PICK b : b = [jb[j] EXCEPT !.at = a]
  OBVIOUS
<1>3. /\ b \in JobStates /\ b.at = a /\ b.folder = jb[j].folder /\ b.issued = jb[j].issued
      /\ b.commands = jb[j].commands /\ b.error = jb[j].error /\ b.replies = jb[j].replies
  BY <1>1, <1>2 DEF JobStates, Places
<1>4. r = [jb EXCEPT ![j] = b]
  BY <1>1, <1>2 DEF JobMaps, JobStates, Moved
<1>5. QED  BY <1>3, <1>4 DEF JobMaps

\* A command of a job fails: nothing is queued, and folders are forgotten at most.
LEMMA FailedComplete ==
  ASSUME NEW s \in Servers, NEW jb \in JobMaps, NEW c \in JobCommands, NEW ok \in BOOLEAN, ~ok,
         NEW r, r = JobComplete(s, jb, c, ok)
  PROVE  /\ r.is = s /\ r.job \in JobMaps
         /\ \A k \in Jobs \cup Async : r.job[k].folder \in {jb[k].folder, NULL}
<1>1. PICK j \in Jobs \cup Async : j = c.job
  BY CommandsDiffer
<1>2. \/ /\ JobKind(c.job) = "steps" /\ ok /\ jb[c.job].issued < PartsOf(c.job)
         /\ s.state # "SHUTDOWN"
         /\ r.job \in JobMaps
         /\ \A k \in Jobs \cup Async : k # c.job => r.job[k] = jb[k]
         /\ r.job[c.job] = [jb[c.job] EXCEPT !.issued = @ + 1]
         /\ r.is = CommandQueue(s, r.job, Command(c.job, jb[c.job].issued + 1))
      \/ \E failed \in BOOLEAN :
           /\ r.is = s /\ r.job = Finish(jb, c.job, 1, failed)
           /\ ~ok => failed
           /\ ~failed => JobKind(c.job) # "steps" \/ ~(jb[c.job].issued < PartsOf(c.job))
  BY JobCompleteIs
<1>3. PICK failed \in BOOLEAN : r.is = s /\ r.job = Finish(jb, j, 1, failed)
  BY <1>1, <1>2
<1>4. PICK n \in Int : n = 1
  OBVIOUS
<1>5. PICK jb2 \in JobMaps :
        /\ jb2 = Finish(jb, j, n, failed)
        /\ \A k \in Jobs \cup Async : k # j => jb2[k] = jb[k]
        /\ jb[j].commands = n /\ j \in Async => jb2[j] = Created
        /\ jb[j].commands # n \/ j \notin Async => jb2[j].folder = jb[j].folder
  BY FinishIs
<1>6. ASSUME NEW k \in Jobs \cup Async  PROVE jb2[k].folder \in {jb[k].folder, NULL}
  <2>1. Created.folder = NULL
    BY DEF Created
  <2>2. QED  BY <1>5, <2>1
<1>7. QED  BY <1>3, <1>4, <1>5, <1>6

\* job->start with the server shut down, or queueing a command.
LEMMA StartJobKeeps ==
  ASSUME TypeOK, TypeOK', StreamInv, is.state # "CRASHED", NEW j \in Jobs, StartJob(j)
  PROVE  StreamInv'
<1>1. /\ is \in Servers /\ job \in JobMaps /\ job' \in JobMaps /\ j \in Jobs \cup Async
      /\ parser.ic \in Commands \cup {NoCommand}
  BY DEF TypeOK
<1>2. PICK n, c, at : /\ n = job[j].issued + 1 /\ c = Command(j, n)
                      /\ at = IF c.part < Starts(j) THEN "start"
                              ELSE IF Kind[j] = "store" THEN "check" ELSE "wait"
  OBVIOUS
<1>3. PICK next : next = WithNext(job, j)
  OBVIOUS
<1>4. PICK jb : jb = [next EXCEPT ![j].at = at]
  OBVIOUS
<1>5. /\ IF is.state = "SHUTDOWN"
         THEN job' = JobComplete(is, jb, c, FALSE).job /\ UNCHANGED is
         ELSE is' = CommandQueue(is, jb, c) /\ job' = jb
      /\ parser' = parser /\ server' = server
  BY <1>2, <1>3, <1>4 DEF StartJob
<1>6. /\ job[j] \in JobStates /\ job[j].issued \in Nat /\ n \in Nat \ {0}
      /\ c \in JobCommands /\ c.job = j /\ c.part = n
  BY <1>1, <1>2, NextCommandIs
<1>7. /\ next \in JobMaps /\ \A k \in Jobs \cup Async : k # j => next[k] = job[k]
      /\ next[j] = [job[j] EXCEPT !.issued = @ + 1, !.commands = @ + 1]
  <2>1. IssuesOne(job, next, j)
    BY <1>1, <1>3, WithNextIs
  <2>2. QED  BY <2>1 DEF IssuesOne
<1>8. at \in {"start", "check", "wait"}
  BY <1>2
<1>9. /\ jb \in JobMaps /\ \A k \in Jobs \cup Async : k # j => jb[k] = next[k]
      /\ jb[j].folder = next[j].folder /\ jb[j].issued = next[j].issued
  <2>1. PICK a \in Places : a = at
    BY <1>8 DEF Places
  <2>2. jb = Moved(next, j, a)
    BY <1>4, <2>1 DEF Moved
  <2>3. next \in JobMaps /\ j \in Jobs \cup Async
    BY <1>1, <1>7
  <2>4. QED  BY <2>2, <2>3, MovedJob
<1>10. jb[j].folder = job[j].folder /\ jb[j].issued = n
  BY <1>2, <1>6, <1>7, <1>9 DEF JobStates
<1>11. \A k \in Jobs \cup Async : k # j => jb[k] = job[k]
  BY <1>7, <1>9
<1>12. j \notin Async
  BY ImapxAssumption
<1>13. Completing'
  BY <1>5 DEF StreamInv, Completing
<1>14. CASE Reading
  <2>1. Connected(is, job, parser.ic, parser.ok, server.waiting, server.selected)
    BY <1>14 DEF StreamInv, Steady
  <2>2. ASSUME NEW x \in Range(is.queue) \cup Range(is.active) \cup {parser.ic}, x.op = "JOB"
        PROVE  /\ jb[x.job].folder \in {job[x.job].folder, NULL}
               /\ job[x.job].issued <= jb[x.job].issued
               /\ job[x.job].issued \in Nat /\ jb[x.job].issued \in Nat /\ x.part \in Nat
               /\ x.job \in Async => jb[x.job].at = job[x.job].at
    <3>1. x.job \in Jobs \cup Async /\ x.part \in Nat /\ job[x.job].issued \in Nat
      BY <1>1, <2>2, TheirJobs
    <3>2. CASE x.job = j
      BY <1>2, <1>6, <1>10, <1>12, <3>1, <3>2
    <3>3. CASE x.job # j
      BY <1>11, <3>1, <3>3
    <3>4. QED  BY <3>2, <3>3
  <2>3. Connected(is, jb, parser.ic, parser.ok, server.waiting, server.selected)
    BY <1>1, <1>9, <2>1, <2>2, JobsKeep
  <2>4. c \notin Range(is.queue) \cup Range(is.active) \cup {parser.ic}
    <3>1. SUFFICES ASSUME c \in Range(is.queue) \cup Range(is.active) \cup {parser.ic}  PROVE FALSE
      OBVIOUS
    <3>2. c.op = "JOB"
      BY <1>6, CommandsDiffer
    <3>3. c.part <= job[j].issued
      BY <1>6, <2>1, <3>1, <3>2 DEF Connected, Fresh
    <3>4. QED  BY <1>2, <1>6, <3>3
  <2>5. c.part <= jb[c.job].issued /\ (c.job \in Async => jb[c.job].at = "wait" /\ c.part = 1)
    BY <1>6, <1>10, <1>12
  <2>6. PICK t : t = CommandQueue(is, jb, c)
    OBVIOUS
  <2>7. Connected(t, jb, parser.ic, parser.ok, server.waiting, server.selected)
    BY <1>1, <1>9, <1>6, <2>3, <2>4, <2>5, <2>6, QueueKeeps
  <2>8. is' = t /\ job' = jb
    <3>1. is.state # "SHUTDOWN"
      BY <2>1 DEF Connected
    <3>2. QED  BY <1>5, <2>6, <3>1
  <2>9. QED  BY <1>5, <1>13, <1>14, <2>7, <2>8, ReadingKeeps DEF Reading
<1>15. CASE ~Reading
  <2>1. Disconnected
    BY <1>15 DEF StreamInv, Steady
  <2>2. is' = is /\ job' = JobComplete(is, jb, c, FALSE).job
    BY <1>5, <2>1 DEF Disconnected
  <2>3. PICK ok \in BOOLEAN : ok = FALSE
    OBVIOUS
  <2>4. PICK r : r = JobComplete(is, jb, c, ok)
    OBVIOUS
  <2>5. \A k \in Jobs \cup Async : r.job[k].folder \in {jb[k].folder, NULL}
    BY <1>1, <1>6, <1>9, <2>3, <2>4, FailedComplete
  <2>6. job' = r.job
    BY <2>2, <2>3, <2>4
  <2>7. \A k \in Jobs \cup Async : job'[k].folder \in {job[k].folder, NULL}
    BY <1>10, <1>11, <2>5, <2>6
  <2>8. \A x \in Range(is.stream) \cup {server.waiting} : SelectOf(x, job') \in {SelectOf(x, job), NULL}
    BY <1>1, <2>7, FoldersStay
  <2>9. Disconnected' /\ ~Reading'
    BY <1>5, <1>15, <2>1, <2>2 DEF Disconnected, Reading
  <2>10. QED  BY <1>5, <1>13, <2>2, <2>8, <2>9, LostKeeps
<1>16. QED  BY <1>14, <1>15

\* A job is registered, finds its work done, or returns to its caller.
LEMMA CallerKeeps ==
  ASSUME TypeOK, TypeOK', StreamInv, is.state # "CRASHED", NEW j \in Jobs,
         Submit(j) \/ CheckStored(j) \/ Return(j)
  PROVE  StreamInv'
<1>1. /\ is \in Servers /\ job \in JobMaps /\ job' \in JobMaps /\ j \in Jobs \cup Async /\ j \notin Async
      /\ job[j] \in JobStates
  BY ImapxAssumption DEF TypeOK, JobMaps
<1>2. UNCHANGED <<is, parser, server>>
  BY DEF Submit, CheckStored, Return
<1>3. /\ \A k \in Jobs \cup Async : k # j => job'[k] = job[k]
      /\ job'[j].folder = job[j].folder /\ job'[j].issued = job[j].issued
  <2>1. ASSUME NEW a \in Places, NEW jb \in JobMaps,
               job' = [jb EXCEPT ![j].at = a],
               \A k \in Jobs \cup Async : k # j => jb[k] = job[k],
               jb[j].folder = job[j].folder, jb[j].issued = job[j].issued
        PROVE  /\ \A k \in Jobs \cup Async : k # j => job'[k] = job[k]
               /\ job'[j].folder = job[j].folder /\ job'[j].issued = job[j].issued
    <3>1. PICK jb2 : jb2 = [jb EXCEPT ![j].at = a] /\ jb2 = Moved(jb, j, a)
      BY DEF Moved
    <3>2. /\ \A k \in Jobs \cup Async : k # j => jb2[k] = jb[k]
          /\ jb2[j].folder = jb[j].folder /\ jb2[j].issued = jb[j].issued
      BY <1>1, <3>1, MovedJob
    <3>3. QED  BY <2>1, <3>1, <3>2
  <2>2. CASE Submit(j)
    <3>1. PICK a \in Places : job' = [job EXCEPT ![j].at = a]
      BY <2>2 DEF Submit, Places
    <3>2. QED  BY <1>1, <2>1, <3>1
  <2>3. CASE Return(j)
    <3>1. PICK a \in Places : job' = [job EXCEPT ![j].at = a]
      BY <2>3 DEF Return, Places
    <3>2. QED  BY <1>1, <2>1, <3>1
  <2>4. CASE CheckStored(j)
    <3>1. PICK jb : jb = IF job[j].commands = 0 THEN JobDone(job, j) ELSE job
      OBVIOUS
    <3>2. PICK a \in Places : job' = [jb EXCEPT ![j].at = a]
      BY <2>4, <3>1 DEF CheckStored, Places
    <3>3. /\ jb \in JobMaps /\ \A k \in Jobs \cup Async : k # j => jb[k] = job[k]
          /\ jb[j] = [job[j] EXCEPT !.replies = @ + 1] \/ jb[j] = job[j]
      BY <1>1, <3>1, JobDoneIs
    <3>4. jb[j].folder = job[j].folder /\ jb[j].issued = job[j].issued
      BY <1>1, <3>3 DEF JobStates
    <3>5. QED  BY <2>1, <3>2, <3>3, <3>4
  <2>5. QED  BY <2>2, <2>3, <2>4
<1>4. ASSUME NEW k \in Jobs \cup Async
      PROVE  /\ job'[k].folder \in {job[k].folder, NULL}
             /\ job[k].issued <= job'[k].issued
             /\ k \in Async => job'[k].at = job[k].at
  <2>1. job[k].issued \in Nat
    BY <1>1 DEF JobMaps, JobStates
  <2>2. CASE k = j
    BY <1>1, <1>3, <2>1, <2>2
  <2>3. CASE k # j
    BY <1>3, <2>1, <2>3
  <2>4. QED  BY <2>2, <2>3
<1>5. QED  BY <1>2, <1>4, JobsMove

\* What is known while the parser thread waits for an answer.
LEMMA WhileReading ==
  ASSUME TypeOK, StreamInv, is.state # "CRASHED", parser.at = "read"
  PROVE  /\ is \in Servers /\ job \in JobMaps
         /\ parser.ic = NoCommand
         /\ Connected(is, job, NoCommand, parser.ok, server.waiting, server.selected)
<1>1. Reading
  BY DEF Reading
<1>2. parser.ic = NoCommand
  BY DEF StreamInv, Completing
<1>3. Connected(is, job, parser.ic, parser.ok, server.waiting, server.selected)
  BY <1>1 DEF StreamInv, Steady
<1>4. QED  BY <1>2, <1>3 DEF TypeOK

\* The command that is answered is the parser thread's.
LEMMA AnsweredIs ==
  ASSUME TypeOK, NEW c \in Commands, NEW ok, Answered(c, ok)
  PROVE  /\ parser'.ic = c /\ parser'.ok = ok /\ Reading' /\ Completing' /\ job' = job
<1>1. c # NoCommand
  BY CommandsDiffer
<1>2. parser'.at = "complete" /\ parser'.ic = c /\ parser'.ok = ok
  BY DEF Answered
<1>3. Completing'
  BY <1>1, <1>2 DEF Completing
<1>4. Reading'
  BY <1>2 DEF Reading
<1>5. job' = job
  BY DEF Answered
<1>6. QED  BY <1>2, <1>3, <1>4, <1>5

\* The stream: the server answers,
LEMMA ReadAnswerKeeps ==
  ASSUME TypeOK, TypeOK', StreamInv, is.state # "CRASHED", NEW ok \in BOOLEAN, ReadAnswer(ok)
  PROVE  StreamInv'
<1>1. /\ is \in Servers /\ job \in JobMaps
      /\ Connected(is, job, NoCommand, parser.ok, server.waiting, server.selected)
  BY WhileReading DEF ReadAnswer
<1>2. PICK i \in DOMAIN is.stream :
        LET c == is.stream[i]
        IN  /\ c # More
            /\ is' = Detached(c, RemoveAt(is.stream, i))
            /\ server' = IF c.op = "SELECT"
                         THEN [server EXCEPT !.selected = IF ok THEN c.folder ELSE NULL]
                         ELSE server
            /\ Answered(c, ok)
  BY DEF ReadAnswer
<1>3. PICK c \in Commands : c = is.stream[i]
  BY <1>1, <1>2, SequencesOf DEF Range
<1>4. PICK t, sel : /\ t = Detached(c, RemoveAt(is.stream, i))
                    /\ sel = IF c.op = "SELECT" THEN (IF ok THEN c.folder ELSE NULL) ELSE server.selected
  OBVIOUS
<1>5. server.waiting = NoCommand
  BY DEF ReadAnswer
<1>6. Connected(is, job, NoCommand, parser.ok, NoCommand, server.selected)
  BY <1>1, <1>5
<1>7. Connected(t, job, c, ok, NoCommand, sel)
  BY <1>1, <1>3, <1>4, <1>6, AnswerKeeps
<1>8. is' = t /\ Answered(c, ok)
  BY <1>2, <1>3, <1>4
<1>9. server'.waiting = NoCommand /\ server'.selected = sel
  BY <1>2, <1>3, <1>4, <1>5 DEF TypeOK
<1>10. parser'.ic = c /\ parser'.ok = ok /\ Reading' /\ Completing' /\ job' = job
  BY <1>8, AnsweredIs
<1>11. Connected(is', job', parser'.ic, parser'.ok, server'.waiting, server'.selected)
  BY <1>7, <1>8, <1>9, <1>10
<1>12. QED  BY <1>10, <1>11, ReadingKeeps

\* answers with a continuation outstanding,
LEMMA ReadAnswerToMoreKeeps ==
  ASSUME TypeOK, TypeOK', StreamInv, is.state # "CRASHED", NEW ok \in BOOLEAN, ReadAnswerToMore(ok)
  PROVE  StreamInv'
<1>1. /\ is \in Servers /\ job \in JobMaps
      /\ Connected(is, job, NoCommand, parser.ok, server.waiting, server.selected)
  BY WhileReading DEF ReadAnswerToMore
<1>2. PICK w \in Commands : w = server.waiting
  BY DEF ReadAnswerToMore, TypeOK
<1>3. PICK t : t = Detached(w, Tail(is.stream))
  OBVIOUS
<1>4. /\ is.stream # <<>> /\ is' = t /\ Answered(w, ok) /\ server' = [server EXCEPT !.waiting = NoCommand]
  BY <1>2, <1>3 DEF ReadAnswerToMore
<1>5. Connected(is, job, NoCommand, parser.ok, w, server.selected)
  BY <1>1, <1>2
<1>6. Connected(t, job, w, ok, NoCommand, server.selected)
  BY <1>1, <1>3, <1>4, <1>5, AnswerToMoreKeeps
<1>7. server'.waiting = NoCommand /\ server'.selected = server.selected
  BY <1>4 DEF TypeOK
<1>8. parser'.ic = w /\ parser'.ok = ok /\ Reading' /\ Completing' /\ job' = job
  BY <1>4, AnsweredIs
<1>9. Connected(is', job', parser'.ic, parser'.ok, server'.waiting, server'.selected)
  BY <1>4, <1>6, <1>7, <1>8
<1>10. QED  BY <1>8, <1>9, ReadingKeeps

\* imapx_continuation finds the literal command last on the stream, and starts
\* the next commands once the server waits for the rest of it.
LEMMA ContinuationIs ==
  ASSUME TypeOK, StreamInv, is.state # "CRASHED", Continuation
  PROVE  \E next \in Servers : \E w \in Commands :
           /\ Connected(next, job, NoCommand, parser.ok, w, server.selected)
           /\ next.queue = is.queue /\ next.active = is.active /\ Range(is.stream) = {w}
           /\ is' = CommandStartNext(next, job)
           /\ server.waiting = NoCommand /\ server'.waiting = w /\ server'.selected = server.selected
<1>1. /\ is \in Servers /\ job \in JobMaps /\ parser.ic = NoCommand
      /\ Connected(is, job, NoCommand, parser.ok, server.waiting, server.selected)
  BY WhileReading DEF Continuation
<1>2. /\ server.waiting = NoCommand /\ is.stream # <<>> /\ Continues(is.stream[1])
      /\ parser.at = "read" /\ UNCHANGED <<job, parser>>
  BY DEF Continuation
<1>3. PICK w : w = is.stream[1]
  OBVIOUS
<1>4. w \in Commands /\ w \in Range(is.stream)
  <2>1. is.stream \in Seq(Commands \cup {More})
    BY <1>1, SequencesOf
  <2>2. w \in Commands \cup {More} /\ w \in Range(is.stream)
    BY <1>2, <1>3, <2>1, TailIs
  <2>3. QED  BY <1>2, <1>3, <2>2, CommandsDiffer
<1>5. Literal(is) /\ IdleState(is, NoCommand, NoCommand)
  BY <1>1, <1>2 DEF Connected
<1>6. is.literal = w /\ Len(is.stream) = 1
  <2>1. 1 \in DOMAIN is.stream
    BY <1>1, <1>2, SequencesOf
  <2>2. QED  BY <1>2, <1>3, <1>5, <2>1 DEF Literal
<1>7. PICK e \in Seq(Commands \cup {More}) : e = Tail(is.stream) /\ e = <<>>
  <2>1. /\ is.stream \in Seq(Commands \cup {More})
    BY <1>1, SequencesOf
  <2>2. PICK X : X = Commands \cup {More}
    OBVIOUS
  <2>3. is.stream \in Seq(X)
    BY <2>1, <2>2
  <2>4. PICK e \in Seq(X) : e = Tail(is.stream)
    BY <1>2, <2>3, TailIs
  <2>5. Len(e) = Len(is.stream) - 1
    BY <1>2, <2>3, <2>4, TailIs
  <2>6. Len(e) = 0
    BY <1>6, <2>5
  <2>7. e = <<>>
    BY <2>6
  <2>8. QED  BY <2>2, <2>4, <2>7
<1>8. is.idle \in {"ISSUED", "CANCEL", "OFF"}
  <2>1. is.active # <<>>
    <3>1. Sent(is, NoCommand) /\ w # More
      BY <1>1, <1>2, <1>4, CommandsDiffer DEF Connected
    <3>2. w \in Range(is.active)
      BY <1>4, <3>1 DEF Sent
    <3>3. QED  BY <3>2 DEF Range
  <2>2. is.idle \in {"OFF", "PENDING", "ISSUED", "STARTED", "CANCEL"}
    BY <1>1 DEF Servers
  <2>3. QED  BY <1>2, <1>5, <2>1, <2>2 DEF IdleState
<1>9. PICK read : read = [is EXCEPT !.stream = Tail(@)]
  OBVIOUS
<1>18. PICK went : went = CASE read.idle = "ISSUED" -> [read EXCEPT !.idle = "STARTED"]
                           [] read.idle = "CANCEL" -> [read EXCEPT !.idle = "OFF", !.stream = Append(@, More)]
                           [] read.idle = "OFF" /\ read.literal # NoCommand ->
                                [read EXCEPT !.stream = Append(@, More)]
                           [] OTHER -> read
  OBVIOUS
<1>19. PICK next : next = [went EXCEPT !.literal = NoCommand]
  OBVIOUS
<1>20. is' = CommandStartNext(next, job)
  BY <1>9, <1>18, <1>19 DEF Continuation
<1>10. PICK st, id :
         /\ \/ is.idle = "ISSUED" /\ id = "STARTED" /\ st = <<>>
            \/ is.idle \in {"CANCEL", "OFF"} /\ id = "OFF" /\ st = <<More>>
         /\ next = [is EXCEPT !.stream = st, !.idle = id, !.literal = NoCommand]
  <2>1. read \in Servers /\ read.stream = <<>> /\ read.idle = is.idle /\ read.literal = w
    <3>1. read = [is EXCEPT !.stream = e]
      BY <1>7, <1>9
    <3>2. QED  BY <1>1, <1>6, <1>7, <3>1 DEF Servers
  <2>2. read = [is EXCEPT !.stream = <<>>]
    BY <1>7, <1>9
  <2>3. w # NoCommand
    BY <1>4, CommandsDiffer
  <2>4. PICK m : m = Append(<<>>, More)
    OBVIOUS
  <2>5. m = <<More>>
    BY <2>4
  <2>6. CASE is.idle = "ISSUED"
    <3>1. went = [read EXCEPT !.idle = "STARTED"]
      BY <1>18, <2>1, <2>6
    <3>2. next = [is EXCEPT !.stream = <<>>, !.idle = "STARTED", !.literal = NoCommand]
      BY <1>1, <1>19, <2>2, <3>1 DEF Servers
    <3>3. QED  BY <2>6, <3>2
  <2>7. CASE is.idle \in {"CANCEL", "OFF"}
    <3>1. went = [read EXCEPT !.idle = "OFF", !.stream = m]
      <4>1. CASE is.idle = "CANCEL"
        <5>1. went = [read EXCEPT !.idle = "OFF", !.stream = Append(@, More)]
          BY <1>18, <2>1, <4>1
        <5>2. QED  BY <2>1, <2>4, <5>1
      <4>2. CASE is.idle = "OFF"
        <5>1. went = [read EXCEPT !.stream = Append(@, More)]
          BY <1>18, <2>1, <2>3, <4>2
        <5>2. went = [read EXCEPT !.stream = m]
          BY <2>1, <2>4, <5>1
        <5>3. QED  BY <2>1, <4>2, <5>2 DEF Servers
      <4>3. QED  BY <2>7, <4>1, <4>2
    <3>2. next = [is EXCEPT !.stream = m, !.idle = "OFF", !.literal = NoCommand]
      BY <1>1, <1>19, <2>2, <3>1 DEF Servers
    <3>3. QED  BY <2>5, <2>7, <3>2
  <2>8. QED  BY <1>8, <2>6, <2>7
<1>11. next \in Servers /\ Connected(next, job, NoCommand, parser.ok, w, server.selected)
  <2>1. Connected(is, job, NoCommand, parser.ok, NoCommand, server.selected)
    BY <1>1, <1>2
  <2>2. QED  BY <1>1, <1>2, <1>3, <1>4, <1>10, <2>1, ContinuationKeeps
<1>12. Range(is.stream) = {w}
  <2>1. is.stream \in Seq(Commands \cup {More})
    BY <1>1, SequencesOf
  <2>2. Range(is.stream) = {w} \cup Range(Tail(is.stream))
    BY <1>2, <1>3, <2>1, TailIs
  <2>3. Range(<<>>) = {}
    BY DEF Range
  <2>4. QED  BY <1>7, <2>2, <2>3
<1>13. server'.waiting = w /\ server'.selected = server.selected
  BY <1>3 DEF Continuation, TypeOK
<1>14. next.queue = is.queue /\ next.active = is.active
  BY <1>10
<1>15. QED  BY <1>2, <1>4, <1>11, <1>12, <1>13, <1>14, <1>20

\* The commands that follow keep what the stream says true.
LEMMA ContinuationStepKeeps ==
  ASSUME TypeOK, TypeOK', StreamInv, is.state # "CRASHED", Continuation
  PROVE  StreamInv' /\ Ours(is') = Ours(is)
<1>1. PICK next \in Servers, w \in Commands :
        /\ Connected(next, job, NoCommand, parser.ok, w, server.selected)
        /\ next.queue = is.queue /\ next.active = is.active
        /\ is' = CommandStartNext(next, job)
        /\ server'.waiting = w /\ server'.selected = server.selected
  BY ContinuationIs
<1>2. job \in JobMaps /\ parser.ic = NoCommand /\ parser.at = "read" /\ UNCHANGED <<job, parser>>
  BY WhileReading DEF Continuation
<1>3. PICK t : t = CommandStartNext(next, job)
  OBVIOUS
<1>4. Connected(t, job, NoCommand, parser.ok, w, server.selected) /\ Ours(t) = Ours(next)
  <2>1. NoCommand # Idle
    BY CommandsDiffer DEF Commands
  <2>2. QED  BY <1>1, <1>2, <1>3, <2>1, StartNextKeeps
<1>5. Connected(is', job', parser'.ic, parser'.ok, server'.waiting, server'.selected)
  BY <1>1, <1>2, <1>3, <1>4
<1>6. Reading' /\ Completing'
  BY <1>2 DEF Reading, Completing, StreamInv
<1>7. Ours(next) = Ours(is)
  BY <1>1 DEF Ours
<1>8. QED  BY <1>1, <1>3, <1>4, <1>5, <1>6, <1>7, ReadingKeeps

\* Untagged CLOSED and EXISTS.
LEMMA UntaggedKeeps ==
  ASSUME TypeOK, TypeOK', StreamInv, is.state # "CRASHED", UntaggedClosed \/ UntaggedExists
  PROVE  StreamInv'
<1>1. /\ is \in Servers /\ job \in JobMaps /\ parser.ic = NoCommand
      /\ Connected(is, job, NoCommand, parser.ok, server.waiting, server.selected)
  BY WhileReading DEF UntaggedClosed, UntaggedExists
<1>2. Reading' /\ Completing' /\ UNCHANGED <<job, parser>>
  BY DEF Reading, Completing, StreamInv, UntaggedClosed, UntaggedExists
<1>3. CASE UntaggedClosed
  <2>1. /\ is.stream # <<>> /\ is.stream[1].op = "SELECT" /\ server.selected # NULL
        /\ server.waiting = NoCommand
    BY <1>3 DEF UntaggedClosed
  <2>2. PICK t : t = [is EXCEPT !.select_folder = is.select_pending]
    OBVIOUS
  <2>3. Connected(is, job, NoCommand, parser.ok, NoCommand, server.selected)
    BY <1>1, <2>1
  <2>4. /\ is.select_pending # NULL /\ is.select_folder = NULL
        /\ Connected(t, job, NoCommand, parser.ok, NoCommand, NULL)
    BY <1>1, <2>1, <2>2, <2>3, ClosedKeeps
  <2>5. is' = t /\ server'.waiting = NoCommand /\ server'.selected = NULL
    BY <1>3, <2>1, <2>2, <2>4 DEF UntaggedClosed, TypeOK
  <2>6. Connected(is', job', parser'.ic, parser'.ok, server'.waiting, server'.selected)
    BY <1>1, <1>2, <2>4, <2>5
  <2>7. QED  BY <1>2, <2>6, ReadingKeeps
<1>4. CASE UntaggedExists
  <2>1. is' = StopIdle(is) /\ server' = server
    BY <1>4 DEF UntaggedExists
  <2>2. Connected(StopIdle(is), job, NoCommand, parser.ok, server.waiting, server.selected)
    BY <1>1, StopIdleKeeps
  <2>3. Connected(is', job', parser'.ic, parser'.ok, server'.waiting, server'.selected)
    BY <1>1, <1>2, <2>1, <2>2
  <2>4. QED  BY <1>2, <2>3, ReadingKeeps
<1>5. QED  BY <1>3, <1>4

\* The complete function of the command in hand.
LEMMA CompleteKeeps ==
  ASSUME TypeOK, TypeOK', StreamInv, is.state # "CRASHED", CompleteCommand
  PROVE  StreamInv'
<1>1. PICK c \in Commands : c = parser.ic
  <2>1. parser.ic # NoCommand
    BY DEF CompleteCommand, StreamInv, Completing
  <2>2. QED  BY <2>1 DEF TypeOK
<1>2. /\ is \in Servers /\ job \in JobMaps
      /\ Connected(is, job, c, parser.ok, server.waiting, server.selected)
  <2>1. Reading
    BY DEF Reading, CompleteCommand
  <2>2. QED  BY <1>1, <2>1 DEF StreamInv, Steady, TypeOK
<1>3. PICK ok2 : parser' = [parser EXCEPT !.at = "next", !.ic = NoCommand, !.ok = ok2]
  BY DEF CompleteCommand
<1>4. Reading' /\ Completing' /\ parser'.ic = NoCommand /\ parser'.ok = ok2
  BY <1>3 DEF Reading, Completing, TypeOK
<1>5. server' = server
  BY DEF CompleteCommand
<1>6. SUFFICES Connected(is', job', NoCommand, ok2, server.waiting, server.selected)
  BY <1>4, <1>5, ReadingKeeps
<1>7. ASSUME c.op = "JOB", is' = JobComplete(is, job, c, parser.ok).is,
             job' = JobComplete(is, job, c, parser.ok).job
      PROVE  Connected(is', job', NoCommand, ok2, server.waiting, server.selected)
  <2>1. c \in JobCommands
    BY <1>7, CommandsDiffer
  <2>2. PICK ok \in BOOLEAN : ok = parser.ok
    BY DEF TypeOK
  <2>3. PICK r : r = JobComplete(is, job, c, ok)
    OBVIOUS
  <2>4. Connected(is, job, c, ok, server.waiting, server.selected)
    BY <1>2, <2>2
  <2>5. Connected(r.is, r.job, NoCommand, ok2, server.waiting, server.selected)
    BY <1>2, <2>1, <2>3, <2>4, CompleteJobKeeps
  <2>6. is' = r.is /\ job' = r.job
    BY <1>7, <2>2, <2>3
  <2>7. QED  BY <2>5, <2>6
<1>8. ASSUME c.op = "SELECT", NEW grown, parser.ok,
             is' = SelectOk(is, job, grown).is, job' = SelectOk(is, job, grown).job
      PROVE  Connected(is', job', NoCommand, ok2, server.waiting, server.selected)
  <2>1. server.selected = is.select_pending
    BY <1>2, <1>8, SelectInHand
  <2>2. PICK r : r = SelectOk(is, job, grown)
    OBVIOUS
  <2>3. Connected(r.is, r.job, NoCommand, ok2, server.waiting, server.selected)
    BY <1>2, <1>8, <2>1, <2>2, SelectOkKeeps
  <2>4. QED  BY <1>8, <2>2, <2>3
<1>9. ASSUME c.op = "SELECT", ~parser.ok,
             is' = SelectFailed(is, job, FALSE).is, job' = SelectFailed(is, job, FALSE).job
      PROVE  Connected(is', job', NoCommand, ok2, server.waiting, server.selected)
  <2>1. server.selected = NULL
    BY <1>2, <1>9, SelectInHand
  <2>2. PICK byError : byError = FALSE
    OBVIOUS
  <2>3. PICK r : r = SelectFailed(is, job, byError)
    OBVIOUS
  <2>4. r.is.state = "INITIALISED"
    BY <1>2, <2>2, <2>3, SelectFailedState
  <2>5. Connected(r.is, r.job, NoCommand, ok2, server.waiting, server.selected)
    BY <1>2, <1>9, <2>1, <2>3, <2>4, SelectFailedKeeps
  <2>6. is' = r.is /\ job' = r.job
    BY <1>9, <2>2, <2>3
  <2>7. QED  BY <2>5, <2>6
<1>10. ASSUME c.op = "IDLE", is' = [is EXCEPT !.idle = "OFF"], job' = job
       PROVE  Connected(is', job', NoCommand, ok2, server.waiting, server.selected)
  <2>1. c = Idle
    BY <1>10, CommandsDiffer
  <2>2. PICK t : t = [is EXCEPT !.idle = "OFF"]
    OBVIOUS
  <2>3. Connected(is, job, Idle, parser.ok, server.waiting, server.selected)
    BY <1>2, <2>1
  <2>4. Connected(t, job, NoCommand, ok2, server.waiting, server.selected)
    BY <1>2, <2>2, <2>3, IdleDoneKeeps
  <2>5. is' = t /\ job' = job
    BY <1>10, <2>2
  <2>6. QED  BY <2>4, <2>5
<1>11. \/ /\ c.op = "JOB"
          /\ \E r \in {JobComplete(is, job, c, parser.ok)} : is' = r.is /\ job' = r.job
       \/ /\ c.op = "SELECT"
          /\ \E grown : \E r \in {IF parser.ok THEN SelectOk(is, job, grown)
                                  ELSE SelectFailed(is, job, FALSE)} : is' = r.is /\ job' = r.job
       \/ c.op = "IDLE" /\ is' = [is EXCEPT !.idle = "OFF"] /\ job' = job
  BY <1>1, Zenon DEF CompleteCommand
<1>12. CASE c.op = "JOB" /\ \E r \in {JobComplete(is, job, c, parser.ok)} : is' = r.is /\ job' = r.job
  BY <1>7, <1>12
<1>13. CASE /\ c.op = "SELECT"
            /\ \E grown : \E r \in {IF parser.ok THEN SelectOk(is, job, grown)
                                    ELSE SelectFailed(is, job, FALSE)} : is' = r.is /\ job' = r.job
  BY <1>8, <1>9, <1>13
<1>14. CASE c.op = "IDLE" /\ is' = [is EXCEPT !.idle = "OFF"] /\ job' = job
  BY <1>10, <1>14
<1>15. QED  BY <1>11, <1>12, <1>13, <1>14

\* the parser thread starts the next commands,
LEMMA StartNextStepKeeps ==
  ASSUME TypeOK, TypeOK', StreamInv, is.state # "CRASHED", StartNextCommand
  PROVE  StreamInv'
<1>1. parser.at = "next" /\ parser' = [parser EXCEPT !.at = "read"] /\ job' = job /\ server' = server
  BY DEF StartNextCommand
<1>2. Reading /\ parser.ic = NoCommand
  BY <1>1 DEF Reading, StreamInv, Completing
<1>3. /\ is \in Servers /\ job \in JobMaps
      /\ Connected(is, job, NoCommand, parser.ok, server.waiting, server.selected)
  BY <1>2 DEF StreamInv, Steady, TypeOK
<1>4. PICK t : t = CommandStartNext(is, job)
  OBVIOUS
<1>5. Connected(t, job, NoCommand, parser.ok, server.waiting, server.selected)
  <2>1. NoCommand # Idle
    BY CommandsDiffer DEF Commands
  <2>2. QED  BY <1>3, <1>4, <2>1, StartNextKeeps
<1>6. is' = t /\ parser'.ic = NoCommand /\ parser'.ok = parser.ok /\ parser'.at = "read"
  BY <1>1, <1>2, <1>4 DEF StartNextCommand, TypeOK
<1>7. Reading' /\ Completing'
  BY <1>6 DEF Reading, Completing
<1>8. Connected(is', job', parser'.ic, parser'.ok, server'.waiting, server'.selected)
  BY <1>1, <1>5, <1>6
<1>9. QED  BY <1>7, <1>8, ReadingKeeps

\* The parser thread leaves its loop, with no SELECT under way.
LEMMA ConnectionLostKeeps ==
  ASSUME TypeOK, TypeOK', StreamInv, is.state # "CRASHED", "selectLost" \notin Faults, ConnectionLost
  PROVE  StreamInv'
<1>1. /\ is \in Servers /\ job \in JobMaps /\ parser.ic = NoCommand
      /\ Connected(is, job, NoCommand, parser.ok, server.waiting, server.selected)
  BY WhileReading DEF ConnectionLost
<1>2. /\ is.select_pending = NULL /\ is' = [is EXCEPT !.state = "SHUTDOWN"]
      /\ parser' = [parser EXCEPT !.at = "cancelActive"] /\ job' = job /\ server' = server
  BY DEF ConnectionLost
<1>3. /\ is'.queue = is.queue /\ is'.active = is.active /\ is'.stream = is.stream /\ is'.idle = is.idle
      /\ is'.select_folder = is.select_folder /\ is'.select_pending = NULL /\ is'.state = "SHUTDOWN"
  BY <1>1, <1>2 DEF Servers
<1>4. parser'.at = "cancelActive" /\ parser'.ic = NoCommand
  BY <1>1, <1>2 DEF TypeOK
<1>5. Completing' /\ ~Reading'
  BY <1>4 DEF Completing, Reading
<1>6. /\ IsInjective(is.queue) /\ IsInjective(is.active) /\ Range(is.queue) \cap Range(is.active) = {}
      /\ \A c \in Range(is.active) : c.op # "SELECT"
      /\ is.idle = "PENDING" => is.active = <<>>
  BY <1>1, <1>2 DEF Connected, Apart, Selecting, IdleState
<1>7. is.active = <<>> => server.waiting = NoCommand /\ is.stream = <<>>
  BY <1>1, NothingSent
<1>8. Disconnected'
  BY <1>2, <1>3, <1>6, <1>7 DEF Disconnected
<1>9. \A c \in Range(is.stream) \cup {server.waiting} : SelectOf(c, job') \in {SelectOf(c, job), NULL}
  BY <1>2
<1>10. QED  BY <1>2, <1>3, <1>5, <1>8, <1>9, LostKeeps

\* What is known while the parser thread cancels.
LEMMA WhileCancelling ==
  ASSUME TypeOK, StreamInv, is.state # "CRASHED", parser.at \in {"cancelActive", "cancelQueue"}
  PROVE  is \in Servers /\ job \in JobMaps /\ Disconnected /\ parser.ic = NoCommand
<1>1. ~Reading /\ parser.at # "complete"
  BY DEF Reading
<1>2. QED  BY <1>1 DEF StreamInv, Steady, Completing, TypeOK

\* One more command of those sent, or of those that wait, fails.
LEMMA CancelKeeps ==
  ASSUME TypeOK, TypeOK', StreamInv, is.state # "CRASHED", CancelActive \/ CancelQueue
  PROVE  StreamInv'
<1>1. is \in Servers /\ job \in JobMaps /\ Disconnected /\ parser.ic = NoCommand
  BY WhileCancelling DEF CancelActive, CancelQueue
<1>2. /\ is.queue \in Seq(JobCommands) /\ is.active \in Seq(Commands)
      /\ Range(is.queue) \subseteq JobCommands /\ Range(is.active) \subseteq Commands
  BY <1>1, SequencesOf
<1>3. server' = server /\ parser' \in {parser, [parser EXCEPT !.at = "cancelQueue"], [parser EXCEPT !.at = "gone"]}
      /\ parser.at \in {"cancelActive", "cancelQueue"}
  BY DEF CancelActive, CancelQueue
<1>4. parser'.at \in {"cancelActive", "cancelQueue", "gone"} /\ parser'.ic = NoCommand
  BY <1>1, <1>3 DEF TypeOK
<1>5. Completing' /\ ~Reading'
  BY <1>4 DEF Completing, Reading
<1>6. ASSUME job' \in JobMaps, \A k \in Jobs \cup Async : job'[k].folder \in {job[k].folder, NULL},
             is'.stream = is.stream, is'.select_folder = is.select_folder, Disconnected'
      PROVE  StreamInv'
  <2>1. \A c \in Range(is.stream) \cup {server.waiting} : SelectOf(c, job') \in {SelectOf(c, job), NULL}
    BY <1>6, FoldersStay
  <2>2. QED  BY <1>3, <1>5, <1>6, <2>1, LostKeeps
<1>7. CASE is' = is /\ job' = job
  <2>1. Disconnected'
    BY <1>1, <1>3, <1>7 DEF Disconnected
  <2>2. QED  BY <1>1, <1>6, <1>7, <2>1
<1>8. CASE CancelActive /\ is.active # <<>>
  <2>1. PICK c, tl : c = Head(is.active) /\ tl = Tail(is.active)
    OBVIOUS
  <2>2. /\ c \in Commands /\ tl \in Seq(Commands) /\ Range(is.active) = {c} \cup Range(tl)
        /\ IsInjective(tl)
    <3>1. IsInjective(is.active)
      BY <1>1 DEF Disconnected
    <3>2. QED  BY <1>2, <1>8, <2>1, <3>1, TailIs
  <2>10. PICK s : s = [is EXCEPT !.active = tl]
    OBVIOUS
  <2>3. /\ s \in Servers
        /\ s.active = tl /\ s.queue = is.queue /\ s.stream = is.stream /\ s.idle = is.idle
        /\ s.state = is.state /\ s.select_folder = is.select_folder /\ s.select_pending = is.select_pending
    BY <1>1, <2>2, <2>10 DEF Servers
  <2>4. c.op \in {"JOB", "IDLE"}
    <3>1. c.op # "SELECT"
      BY <1>1, <2>2 DEF Disconnected
    <3>2. c.op \in {"JOB", "SELECT", "IDLE"}
      BY <2>2, CommandsDiffer DEF Commands
    <3>3. QED  BY <3>1, <3>2
  <2>5. PICK r : /\ r = CASE c.op = "JOB"    -> JobComplete(s, job, c, FALSE)
                          [] c.op = "SELECT" -> SelectFailed(s, job, TRUE)
                          [] c.op = "IDLE"   -> [is |-> [s EXCEPT !.idle = "OFF"], job |-> job]
                 /\ is' = r.is /\ job' = r.job
    BY <1>8, <2>1, <2>10 DEF CancelActive
  <2>6. ASSUME job' \in JobMaps, \A k \in Jobs \cup Async : job'[k].folder \in {job[k].folder, NULL},
               is' = s \/ is' = [s EXCEPT !.idle = "OFF"]
        PROVE  StreamInv'
    <3>1. /\ is'.stream = is.stream /\ is'.select_folder = is.select_folder /\ is'.active = tl
          /\ is'.queue = is.queue /\ is'.state = is.state /\ is'.select_pending = is.select_pending
          /\ is'.idle \in {is.idle, "OFF"}
      BY <2>3, <2>6 DEF Servers
    <3>2. is.idle # "PENDING"
      BY <1>1, <1>8 DEF Disconnected
    <3>3. Disconnected'
      BY <1>1, <1>3, <2>2, <3>1, <3>2 DEF Disconnected
    <3>4. QED  BY <1>6, <2>6, <3>1, <3>3
  <2>7. CASE c.op = "JOB"
    <3>1. r = JobComplete(s, job, c, FALSE) /\ c \in JobCommands
      BY <2>2, <2>5, <2>7, CommandsDiffer
    <3>2. PICK ok \in BOOLEAN : ok = FALSE
      OBVIOUS
    <3>3. r = JobComplete(s, job, c, ok)
      BY <3>1, <3>2
    <3>4. /\ r.is = s /\ r.job \in JobMaps
          /\ \A k \in Jobs \cup Async : r.job[k].folder \in {job[k].folder, NULL}
      <4>1. s \in Servers /\ c \in JobCommands
        BY <2>3, <3>1
      <4>2. QED  BY <1>1, <3>2, <3>3, <4>1, FailedComplete
    <3>5. is' = r.is /\ job' = r.job
      BY <2>5
    <3>6. QED  BY <2>6, <3>4, <3>5
  <2>8. CASE c.op = "IDLE"
    <3>1. r = [is |-> [s EXCEPT !.idle = "OFF"], job |-> job]
      BY <2>5, <2>8
    <3>2. is' = r.is /\ job' = r.job
      BY <2>5
    <3>3. is' = [s EXCEPT !.idle = "OFF"] /\ job' = job
      BY <3>1, <3>2
    <3>4. QED  BY <1>1, <2>6, <3>3
  <2>9. QED  BY <2>4, <2>7, <2>8
<1>9. CASE CancelQueue /\ is.queue # <<>>
  <2>1. PICK c, tl : c = Head(is.queue) /\ tl = Tail(is.queue)
    OBVIOUS
  <2>2. /\ c \in JobCommands /\ tl \in Seq(JobCommands) /\ Range(tl) \subseteq Range(is.queue)
        /\ IsInjective(tl)
    <3>1. IsInjective(is.queue)
      BY <1>1 DEF Disconnected
    <3>2. QED  BY <1>2, <1>9, <2>1, <3>1, TailIs
  <2>3. job' = JobComplete(is, job, c, FALSE).job /\ is' = [is EXCEPT !.queue = tl]
    BY <1>9, <2>1 DEF CancelQueue
  <2>4. /\ is'.stream = is.stream /\ is'.select_folder = is.select_folder /\ is'.active = is.active
        /\ is'.queue = tl /\ is'.state = is.state /\ is'.select_pending = is.select_pending
        /\ is'.idle = is.idle
    BY <1>1, <2>3 DEF Servers
  <2>5. Disconnected'
    BY <1>1, <1>3, <2>2, <2>4 DEF Disconnected
  <2>6. PICK ok \in BOOLEAN : ok = FALSE
    OBVIOUS
  <2>7. PICK r : r = JobComplete(is, job, c, ok)
    OBVIOUS
  <2>8. /\ r.job \in JobMaps
        /\ \A k \in Jobs \cup Async : r.job[k].folder \in {job[k].folder, NULL}
    BY <1>1, <2>2, <2>6, <2>7, FailedComplete
  <2>9. job' = r.job
    BY <2>3, <2>6, <2>7
  <2>10. QED  BY <1>6, <2>4, <2>5, <2>8, <2>9
<1>10. QED  BY <1>7, <1>8, <1>9 DEF CancelActive, CancelQueue

\* The idle thread wakes up, looks, or ends its IDLE.
LEMMA IdleStepKeeps ==
  ASSUME TypeOK, TypeOK', StreamInv, is.state # "CRASHED", IdleWake \/ IdleCheck \/ IdleReply
  PROVE  StreamInv'
<1>1. is \in Servers /\ job \in JobMaps
  BY DEF TypeOK
<1>2. job' = job /\ parser' = parser /\ server' = server
  BY DEF IdleWake, IdleCheck, IdleReply
<1>3. /\ is'.queue = is.queue /\ is'.active = is.active /\ is'.stream = is.stream /\ is'.idle = is.idle
      /\ is'.select_folder = is.select_folder /\ is'.select_pending = is.select_pending
      /\ is'.state = is.state /\ is'.literal = is.literal
  <2>1. is' = is \/ is' = [is EXCEPT !.watch = FALSE]
    BY DEF IdleWake, IdleCheck, IdleReply
  <2>2. QED  BY <1>1, <2>1 DEF Servers
<1>4. Completing'
  BY <1>2 DEF StreamInv, Completing
<1>5. CASE Reading
  <2>1. Connected(is, job, parser.ic, parser.ok, server.waiting, server.selected)
    BY <1>5 DEF StreamInv, Steady
  <2>2. PICK t : t = is'
    OBVIOUS
  <2>3. SameQueues(is, t)
    BY <1>3, <2>2 DEF SameQueues
  <2>4. IdleState(t, parser.ic, server.waiting) /\ t.idle = is.idle
    BY <1>3, <2>1, <2>2 DEF Connected, IdleState
  <2>5. Connected(t, job, parser.ic, parser.ok, server.waiting, server.selected)
    BY <2>1, <2>3, <2>4, IdleKeeps
  <2>6. Reading'
    BY <1>2, <1>5 DEF Reading
  <2>7. QED  BY <1>2, <1>4, <2>2, <2>5, <2>6, ReadingKeeps
<1>6. CASE ~Reading
  <2>1. Disconnected
    BY <1>6 DEF StreamInv, Steady
  <2>2. Disconnected' /\ ~Reading'
    BY <1>2, <1>3, <1>6, <2>1 DEF Disconnected, Reading
  <2>3. \A c \in Range(is.stream) \cup {server.waiting} : SelectOf(c, job') \in {SelectOf(c, job), NULL}
    BY <1>2
  <2>4. QED  BY <1>2, <1>3, <1>4, <2>2, <2>3, LostKeeps
<1>7. QED  BY <1>5, <1>6

\* Nothing that matters to the stream changes.
LEMMA SameKeeps ==
  ASSUME StreamInv, is' = is, job' = job, parser' = parser, server' = server
  PROVE  StreamInv'
<1>1. CommandRunsInItsFolder' /\ SelectionAgrees' /\ WireInStep'
  BY DEF StreamInv, CommandRunsInItsFolder, SelectionAgrees, WireInStep
<1>2. Completing'
  BY DEF StreamInv, Completing
<1>3. is'.state # "CRASHED" => Steady'
  <2>1. Reading' <=> Reading
    BY DEF Reading
  <2>2. Disconnected' <=> Disconnected
    BY DEF Disconnected
  <2>3. QED  BY <2>1, <2>2 DEF StreamInv, Steady
<1>4. QED  BY <1>1, <1>2, <1>3 DEF StreamInv

\* imapx_job_idle_start, with the connection and without it.
LEMMA IdleIssueStepKeeps ==
  ASSUME TypeOK, TypeOK', StreamInv, is.state # "CRASHED", IdleIssue
  PROVE  StreamInv'
<1>1. is \in Servers /\ job \in JobMaps
  BY DEF TypeOK
<1>2. job' = job /\ parser' = parser /\ server' = server
  BY DEF IdleIssue
<1>3. CASE is.idle # "PENDING"
  <2>1. is' = is
    BY <1>3 DEF IdleIssue
  <2>2. QED  BY <1>2, <2>1, SameKeeps
<1>4. CASE is.idle = "PENDING"
  <2>1. PICK v : v = [is EXCEPT !.idle = "ISSUED"]
    OBVIOUS
  <2>2. PICK t : t = CommandStart(v, Idle)
    OBVIOUS
  <2>3. is' = t
    BY <1>4, <2>1, <2>2 DEF IdleIssue
  <2>4. Completing'
    BY <1>2 DEF StreamInv, Completing
  <2>5. CASE Reading
    <3>1. Connected(is, job, parser.ic, parser.ok, server.waiting, server.selected)
      BY <2>5 DEF StreamInv, Steady
    <3>2. t = CommandStart([is EXCEPT !.idle = "ISSUED"], Idle)
      BY <2>1, <2>2
    <3>3. Connected(t, job, parser.ic, parser.ok, server.waiting, server.selected)
      BY <1>1, <1>4, <3>1, <3>2, IdleIssueKeeps
    <3>4. Reading'
      BY <1>2, <2>5 DEF Reading
    <3>5. QED  BY <1>2, <2>3, <2>4, <3>3, <3>4, ReadingKeeps
  <2>6. CASE ~Reading
    <3>1. Disconnected
      BY <2>6 DEF StreamInv, Steady
    <3>2. is.active = <<>> /\ server.waiting = NoCommand /\ is.stream = <<>> /\ is.state = "SHUTDOWN"
          /\ is.select_pending = NULL
      BY <1>4, <3>1 DEF Disconnected
    <3>3. /\ v \in Servers /\ v.queue = is.queue /\ v.active = is.active /\ v.stream = is.stream
          /\ v.idle = "ISSUED" /\ v.select_folder = is.select_folder
          /\ v.select_pending = is.select_pending /\ v.state = is.state
      BY <1>1, <2>1 DEF Servers
    <3>4. /\ t.active = Append(v.active, Idle) /\ t.stream = Append(v.stream, Idle)
          /\ t.queue = v.queue /\ t.idle = v.idle /\ t.select_folder = v.select_folder
          /\ t.select_pending = v.select_pending /\ t.state = v.state
      <4>1. v \in Servers /\ Idle \in Commands
        BY <3>3 DEF Commands
      <4>2. QED  BY <2>2, <4>1, StartTypes
    <3>5. PICK e : e = Idle /\ e \notin JobCommands /\ e # More /\ e.op = "IDLE"
      BY CommandsDiffer DEF Commands
    <3>6. t.active = <<e>> /\ t.stream = <<e>>
      BY <3>2, <3>3, <3>4, <3>5
    <3>7. /\ Range(t.active) = {e} /\ Range(t.stream) = {e} /\ IsInjective(t.active)
          /\ \A i \in DOMAIN t.stream : t.stream[i] = e
      <4>1. \A q : q = <<e>> => /\ Range(q) = {e} /\ IsInjective(q)
                                /\ \A i \in DOMAIN q : q[i] = e
        BY DEF Range, IsInjective
      <4>2. QED  BY <3>6, <4>1
    <3>8. /\ t.queue = is.queue /\ t.idle = "ISSUED" /\ t.select_folder = is.select_folder
          /\ t.select_pending = NULL /\ t.state = "SHUTDOWN"
      BY <3>2, <3>3, <3>4
    <3>9. CommandRunsInItsFolder'
      <4>1. ASSUME NEW c \in Range(is'.stream) \cup {server'.waiting}  PROVE SelectOf(c, job') = NULL
        <5>1. c = e \/ c = NoCommand
          BY <1>2, <2>3, <3>2, <3>7
        <5>2. c.op # "JOB"
          BY <3>5, <5>1, CommandsDiffer
        <5>3. QED  BY <5>2 DEF SelectOf
      <4>2. QED  BY <4>1 DEF CommandRunsInItsFolder
    <3>10. SelectionAgrees'
      BY <1>2, <2>3, <3>8 DEF StreamInv, SelectionAgrees
    <3>11. WireInStep'
      BY <1>2, <2>3, <3>2, <3>5, <3>7 DEF WireInStep
    <3>12. Disconnected'
      <4>1. e \notin Range(is.queue)
        BY <1>1, <3>5, SequencesOf
      <4>2. IsInjective(is.queue)
        BY <3>1 DEF Disconnected
      <4>3. QED  BY <2>3, <3>5, <3>7, <3>8, <4>1, <4>2 DEF Disconnected
    <3>13. ~Reading'
      BY <1>2, <2>6 DEF Reading
    <3>14. QED  BY <2>4, <3>9, <3>10, <3>11, <3>12, <3>13 DEF StreamInv, Steady
  <2>7. QED  BY <2>5, <2>6
<1>5. QED  BY <1>3, <1>4

\* The idle thread fetches new mail, or finds no folder.
LEMMA IdleFetchKeeps ==
  ASSUME TypeOK, TypeOK', StreamInv, is.state # "CRASHED", IdleFetch
  PROVE  StreamInv'
<1>1. is \in Servers /\ job \in JobMaps /\ parser.ic \in Commands \cup {NoCommand}
  BY DEF TypeOK
<1>2. parser' = parser /\ server' = server
  BY DEF IdleFetch
<1>3. Completing'
  BY <1>2 DEF StreamInv, Completing
<1>4. PICK r : /\ r = CASE is.select_folder = NULL -> [is |-> [is EXCEPT !.state = "CRASHED"], job |-> job]
                        [] is.select_folder # NULL /\ Registers ->
                             FetchNewMessages(is, job, is.select_folder)
                        [] OTHER -> [is |-> is, job |-> job]
               /\ is' = r.is /\ job' = r.job
  BY DEF IdleFetch
<1>5. is' = r.is /\ job' = r.job
  BY <1>4
<1>6. CASE is.select_folder = NULL
  <2>1. r = [is |-> [is EXCEPT !.state = "CRASHED"], job |-> job]
    BY <1>4, <1>6
  <2>2. is' = [is EXCEPT !.state = "CRASHED"] /\ job' = job
    BY <1>5, <2>1
  <2>3. is'.stream = is.stream /\ is'.select_folder = is.select_folder /\ is'.state = "CRASHED"
    BY <1>1, <2>2 DEF Servers
  <2>4. \A c \in Range(is.stream) \cup {server.waiting} : SelectOf(c, job') \in {SelectOf(c, job), NULL}
    BY <2>2
  <2>5. QED  BY <1>2, <1>3, <2>3, <2>4, LostKeeps
<1>7. CASE is.select_folder # NULL /\ Registers
  <2>1. r = FetchNewMessages(is, job, is.select_folder)
    BY <1>4, <1>7
  <2>2. Reading
    BY <1>7 DEF Registers, StreamInv, Steady, Disconnected
  <2>3. Connected(is, job, parser.ic, parser.ok, server.waiting, server.selected)
    BY <2>2 DEF StreamInv, Steady
  <2>4. PICK f \in SomeFolder : f = is.select_folder
    BY <1>1 DEF Servers
  <2>5. r = FetchNewMessages(is, job, f)
    BY <2>1, <2>4
  <2>6. Connected(r.is, r.job, parser.ic, parser.ok, server.waiting, server.selected)
    BY <1>1, <2>3, <2>5, FetchKeeps
  <2>7. Reading'
    BY <1>2, <2>2 DEF Reading
  <2>8. QED  BY <1>2, <1>3, <1>5, <2>6, <2>7, ReadingKeeps
<1>8. CASE is.select_folder # NULL /\ ~Registers
  <2>1. r = [is |-> is, job |-> job]
    BY <1>4, <1>8
  <2>2. is' = is /\ job' = job
    BY <1>5, <2>1
  <2>3. QED  BY <1>2, <2>2, SameKeeps
<1>9. QED  BY <1>6, <1>7, <1>8

\* The invariant of the stream holds at first
LEMMA InitStream == Init => StreamInv
<1> SUFFICES ASSUME Init  PROVE StreamInv
  OBVIOUS
<1>1. PICK s, jb, sel : s = is /\ jb = job /\ sel = server.selected
  OBVIOUS
<1>2. /\ s.state = "INITIALISED" /\ s.queue = <<>> /\ s.active = <<>> /\ s.stream = <<>>
      /\ s.literal = NoCommand /\ s.select_folder = NULL /\ s.select_pending = NULL /\ s.idle = "OFF"
      /\ sel = NULL
  BY <1>1 DEF Init
<1>3. parser.at = "read" /\ parser.ic = NoCommand /\ server.waiting = NoCommand
  BY DEF Init
<1>4. /\ Range(s.queue) = {} /\ Range(s.active) = {} /\ Range(s.stream) = {} /\ DOMAIN s.stream = {}
      /\ IsInjective(s.queue) /\ IsInjective(s.active) /\ IsInjective(s.stream)
  BY <1>2 DEF Range, IsInjective
<1>5. NoCommand.op = "NONE"
  BY CommandsDiffer
<1>6. Apart(s, NoCommand) /\ Sent(s, NoCommand) /\ Wire(s, NoCommand) /\ Literal(s)
  BY <1>2, <1>4 DEF Apart, Sent, Wire, Literal
<1>7. IdleState(s, NoCommand, NoCommand) /\ Selecting(s, NoCommand, parser.ok, sel)
  BY <1>2, <1>4, <1>5 DEF IdleState, Selecting
<1>8. InFolder(s, jb, sel) /\ Fresh(s, jb, NoCommand)
  BY <1>4, <1>5 DEF InFolder, Fresh
<1>9. Connected(is, job, parser.ic, parser.ok, server.waiting, server.selected)
  BY <1>1, <1>2, <1>3, <1>6, <1>7, <1>8 DEF Connected
<1>10. Steady /\ Completing
  BY <1>3, <1>9 DEF Steady, Completing, Reading
<1>11. CommandRunsInItsFolder
  BY <1>1, <1>3, <1>4, <1>5 DEF CommandRunsInItsFolder, SelectOf
<1>12. SelectionAgrees /\ WireInStep
  BY <1>1, <1>2, <1>3, <1>4 DEF SelectionAgrees, WireInStep
<1>13. QED  BY <1>10, <1>11, <1>12 DEF StreamInv

\* and is kept by every step,
LEMMA NextStream ==
  ASSUME TypeOK, StreamInv, "selectLost" \notin Faults, [Next]_vars
  PROVE  StreamInv'
<1>1. TypeOK'
  BY NextTypes
<1>2. CASE UNCHANGED vars
  BY <1>2, SameKeeps DEF vars
<1>3. CASE Next
  <2>1. is.state # "CRASHED"
    BY <1>3 DEF Next
  <2>2. CASE \E j \in Jobs : Submit(j) \/ Caller(j)
    BY <1>1, <2>1, <2>2, StartJobKeeps, CallerKeeps DEF Caller
  <2>3. CASE ServerSpeaks
    BY <1>1, <2>1, <2>3, ReadAnswerKeeps, ReadAnswerToMoreKeeps, ContinuationStepKeeps DEF ServerSpeaks
  <2>4. CASE UntaggedClosed \/ UntaggedExists
    BY <1>1, <2>1, <2>4, UntaggedKeeps
  <2>5. CASE ConnectionLost
    BY <1>1, <2>1, <2>5, ConnectionLostKeeps
  <2>6. CASE Parser
    BY <1>1, <2>1, <2>6, CompleteKeeps, StartNextStepKeeps, CancelKeeps DEF Parser
  <2>7. CASE Idler
    BY <1>1, <2>1, <2>7, IdleStepKeeps, IdleIssueStepKeeps, IdleFetchKeeps DEF Idler
  <2>8. QED  BY <1>3, <2>2, <2>3, <2>4, <2>5, <2>6, <2>7 DEF Next
<1>4. QED  BY <1>2, <1>3

\* so that it holds always.
LEMMA StreamInvariant ==
  ASSUME "selectLost" \notin Faults
  PROVE  Spec => []StreamInv
<1>1. Init => TypeOK /\ StreamInv
  BY InitTypes, InitStream
<1>2. TypeOK /\ StreamInv /\ [Next]_vars => (TypeOK /\ StreamInv)'
  BY NextTypes, NextStream
<1>3. QED  BY <1>1, <1>2, PTL DEF Spec

\* While no connection is lost with a SELECT under way, a command reaches the server
\* in the folder it is meant for, however folders are selected and IDLE comes and goes.
THEOREM EachInItsFolder == "selectLost" \notin Faults => (Spec => []CommandRunsInItsFolder)
<1> SUFFICES ASSUME "selectLost" \notin Faults  PROVE Spec => []CommandRunsInItsFolder
  OBVIOUS
<1>1. StreamInv => CommandRunsInItsFolder
  BY DEF StreamInv
<1>2. QED  BY <1>1, StreamInvariant, PTL

\* ... and when client and server both have a folder selected it is the same one.
THEOREM SelectionsAgree == "selectLost" \notin Faults => (Spec => []SelectionAgrees)
<1> SUFFICES ASSUME "selectLost" \notin Faults  PROVE Spec => []SelectionAgrees
  OBVIOUS
<1>1. StreamInv => SelectionAgrees
  BY DEF StreamInv
<1>2. QED  BY <1>1, StreamInvariant, PTL

\* ... and a literal or DONE follows what it belongs to, asked for.
THEOREM StreamInStep == "selectLost" \notin Faults => (Spec => []WireInStep)
<1> SUFFICES ASSUME "selectLost" \notin Faults  PROVE Spec => []WireInStep
  OBVIOUS
<1>1. StreamInv => WireInStep
  BY DEF StreamInv
<1>2. QED  BY <1>1, StreamInvariant, PTL

-----------------------------------------------------------------------------
(* Jobs and their answers.                                                 *)

\* The commands of jobs that are queued, sent or being completed, and those of one job.
Outstanding(s, ic) == Ours(s) \cup ({ic} \cap JobCommands)
Of(j, O) == {c \in O : c.job = j}

\* What a job says of itself, b, agrees with its outstanding commands, P, and with
\* what the server has carried out, R.
Counted(j, b, P) ==
  /\ IsFiniteSet(P) /\ b.commands = Cardinality(P)
  /\ b.issued <= Parts[j]
  /\ \A c \in P : c.part <= b.issued

Placed(j, b) ==
  /\ b.at \in {"new", "refused"} => b.issued = 0 /\ b.commands = 0
  /\ b.at \in {"new", "refused", "start", "check"} => b.replies = 0 /\ ~b.error
  /\ b.at \in {"start", "check"} =>
       b.commands = b.issued /\ (Kind[j] = "store" \/ (b.at = "start" /\ b.issued = 0))
  /\ b.at = "start" => b.issued < Parts[j]
  /\ b.at = "check" => b.issued = Parts[j]
  /\ b.at \in {"wait", "returned"} =>
       /\ b.replies = IF b.commands = 0 THEN 1 ELSE 0
       /\ (b.commands = 0 /\ ~b.error) \/ Kind[j] # "steps" => b.issued = Parts[j]
  /\ b.at = "returned" => b.commands = 0

CarriedOut(j, b, P, R) ==
  ~b.error => \A n \in 1..b.issued : Command(j, n) \in R \/ Command(j, n) \in P

Serving(j, b, P, R) == Counted(j, b, P) /\ Placed(j, b) /\ CarriedOut(j, b, P, R)

Served(jb, O, R) == \A j \in Jobs : Serving(j, jb[j], Of(j, O), R)

\* A job has queued all its commands by the time the parser thread cancels them,
AllIssued == ~Reading => \A j \in Jobs : Kind[j] = "store" => job[j].at \notin {"start", "check"}

\* and what the parser thread completes as carried out has been.
CompletedRan == parser.ok /\ parser.ic \in JobCommands /\ parser.ic.job \in Jobs => parser.ic \in ran

AnswerInv ==
  /\ Served(job, Outstanding(is, parser.ic), ran)
  /\ AllIssued
  /\ CompletedRan

\* The fields of a job.
LEMMA FieldsOf ==
  ASSUME NEW b \in JobStates
  PROVE  /\ b.at \in Places /\ b.issued \in Nat /\ b.commands \in Int
         /\ b.error \in BOOLEAN /\ b.replies \in Nat
  BY DEF JobStates, Places

\* A job with commands that are outstanding is waiting, or issuing some more.
LEMMA OutstandingJob ==
  ASSUME NEW j \in Jobs, NEW b \in JobStates, NEW P, NEW R, Serving(j, b, P, R), P # {}
  PROVE  /\ b.commands \in Nat \ {0} /\ b.issued \in Nat
         /\ b.at = "wait" \/ (Kind[j] = "store" /\ b.at \in {"start", "check"} /\ b.issued > 0)
<1>1. IsFiniteSet(P) /\ b.commands = Cardinality(P)
  BY DEF Serving, Counted
<1>2. b.commands \in Nat \ {0}
  <2>1. Cardinality(P) \in Nat /\ (Cardinality(P) = 0 <=> P = {})
    BY <1>1, FS_CardinalityType, FS_EmptySet
  <2>2. QED  BY <1>1, <2>1
<1>3. b.issued \in Nat /\ b.at \in Places
  BY FieldsOf
<1>4. Placed(j, b)
  BY DEF Serving
<1>5. b.at \notin {"new", "refused", "returned"}
  BY <1>2, <1>4 DEF Placed
<1>6. b.at \in {"start", "check"} => Kind[j] = "store" /\ b.issued > 0
  BY <1>2, <1>3, <1>4 DEF Placed
<1>7. QED  BY <1>2, <1>3, <1>5, <1>6 DEF Places

\* Its command is queued: the job goes on to issue another one, or to wait.
LEMMA QueueServing ==
  ASSUME NEW j \in Jobs, NEW b \in JobStates, NEW P \in SUBSET JobCommands, NEW R,
         Serving(j, b, P, R), b.at = "start",
         NEW d \in JobCommands, d = Command(j, b.issued + 1), NEW b2 \in JobStates,
         b2.issued = b.issued + 1, b2.commands = b.commands + 1, b2.error = b.error, b2.replies = b.replies,
         b2.at = IF d.part < Starts(j) THEN "start" ELSE IF Kind[j] = "store" THEN "check" ELSE "wait"
  PROVE  Serving(j, b2, P \cup {d}, R)
<1>1. b.issued \in Nat /\ b.commands \in Int /\ b.error \in BOOLEAN
  BY FieldsOf
<1>2. Counted(j, b, P) /\ Placed(j, b) /\ CarriedOut(j, b, P, R)
  BY DEF Serving
<1>3. d.part = b.issued + 1
  BY DEF Command
<1>4. IsFiniteSet(P) /\ b.commands = Cardinality(P) /\ \A c \in P : c.part <= b.issued
  BY <1>2 DEF Counted
<1>5. /\ b.issued < Parts[j] /\ b.replies = 0 /\ ~b.error /\ b.commands = b.issued
      /\ Kind[j] = "store" \/ b.issued = 0
  BY <1>2 DEF Placed
<1>6. /\ Parts[j] \in Nat \ {0} /\ Kind[j] \in {"single", "append", "steps", "store"}
      /\ Kind[j] \in {"single", "append"} => Parts[j] = 1
  BY ImapxAssumption
<1>7. Counted(j, b2, P \cup {d})
  <2>1. \A c \in P : c.part \in Nat
    BY CommandsDiffer
  <2>2. d \notin P
    BY <1>1, <1>3, <1>4
  <2>3. IsFiniteSet(P \cup {d}) /\ Cardinality(P \cup {d}) = Cardinality(P) + 1
    BY <1>4, <2>2, FS_AddElement
  <2>4. b2.issued <= Parts[j]
    BY <1>1, <1>5, <1>6
  <2>5. \A c \in P \cup {d} : c.part <= b2.issued
    BY <1>1, <1>3, <1>4, <2>1
  <2>6. QED  BY <1>4, <2>3, <2>4, <2>5 DEF Counted
<1>8. Placed(j, b2)
  <2>1. Starts(j) = IF Kind[j] = "store" THEN Parts[j] ELSE 1
    BY DEF Starts
  <2>2. b2.commands = b2.issued /\ b2.issued \in Nat \ {0} /\ b2.replies = 0 /\ ~b2.error
    BY <1>1, <1>5
  <2>3. CASE Kind[j] = "store"
    <3>1. CASE d.part < Starts(j)
      <4>1. b2.at = "start" /\ b2.issued < Parts[j]
        BY <1>3, <2>1, <2>3, <3>1
      <4>2. QED  BY <2>2, <2>3, <4>1 DEF Placed
    <3>2. CASE ~(d.part < Starts(j))
      <4>1. b2.at = "check" /\ b2.issued = Parts[j]
        BY <1>1, <1>3, <1>5, <1>6, <2>1, <2>3, <3>2
      <4>2. QED  BY <2>2, <2>3, <4>1 DEF Placed
    <3>3. QED  BY <3>1, <3>2
  <2>4. CASE Kind[j] # "store"
    <3>1. d.part = 1 /\ b2.issued = 1
      BY <1>3, <1>5, <2>4
    <3>2. b2.at = "wait"
      BY <2>1, <2>4, <3>1
    <3>3. Kind[j] # "steps" => Parts[j] = 1
      BY <1>6, <2>4
    <3>4. QED  BY <2>2, <3>1, <3>2, <3>3 DEF Placed
  <2>5. QED  BY <2>3, <2>4
<1>9. CarriedOut(j, b2, P \cup {d}, R)
  <2>1. ASSUME NEW n \in 1..b2.issued  PROVE Command(j, n) \in R \/ Command(j, n) \in P \cup {d}
    <3>1. n \in 1..b.issued \/ n = b.issued + 1
      BY <1>1
    <3>2. \A m \in 1..b.issued : Command(j, m) \in R \/ Command(j, m) \in P
      BY <1>2, <1>5 DEF CarriedOut
    <3>3. QED  BY <3>1, <3>2
  <2>2. QED  BY <2>1 DEF CarriedOut
<1>10. QED  BY <1>7, <1>8, <1>9 DEF Serving

\* Q, n commands of a job that waits, are done with, carried out or failed.
DoneWith(b, b2, n, failed) ==
  /\ b2.at = b.at /\ b2.issued = b.issued /\ b2.commands = b.commands - n
  /\ b2.error <=> b.error \/ failed
  /\ b2.replies = IF b.commands = n THEN b.replies + 1 ELSE b.replies

AllRan(j, b, Q, R) == Q \subseteq R /\ (Kind[j] # "steps" \/ ~(b.issued < Parts[j]))

LEMMA DoneServing ==
  ASSUME NEW j \in Jobs, NEW b \in JobStates, NEW P \in SUBSET JobCommands, NEW R,
         Serving(j, b, P, R), b.at = "wait",
         NEW Q \in SUBSET P, Q # {}, NEW n \in Nat, n = Cardinality(Q), NEW failed \in BOOLEAN,
         NEW b2 \in JobStates, DoneWith(b, b2, n, failed), failed \/ AllRan(j, b, Q, R)
  PROVE  Serving(j, b2, P \ Q, R)
<1>11. /\ b2.at = b.at /\ b2.issued = b.issued /\ b2.commands = b.commands - n
       /\ b2.error <=> b.error \/ failed
       /\ b2.replies = IF b.commands = n THEN b.replies + 1 ELSE b.replies
  BY DEF DoneWith
<1>12. ~failed => Q \subseteq R /\ (Kind[j] # "steps" \/ ~(b.issued < Parts[j]))
  BY DEF AllRan
<1>1. b.issued \in Nat /\ b.commands \in Int /\ b.error \in BOOLEAN /\ b2.error \in BOOLEAN
  BY FieldsOf
<1>2. Counted(j, b, P) /\ Placed(j, b) /\ CarriedOut(j, b, P, R)
  BY DEF Serving
<1>3. /\ IsFiniteSet(P) /\ b.commands = Cardinality(P) /\ \A c \in P : c.part <= b.issued
      /\ b.issued <= Parts[j]
  BY <1>2 DEF Counted
<1>4. Parts[j] \in Nat
  BY ImapxAssumption
<1>5. /\ IsFiniteSet(Q) /\ n # 0 /\ IsFiniteSet(P \ Q) /\ Cardinality(P \ Q) = Cardinality(P) - n
      /\ Cardinality(P) \in Nat /\ n <= Cardinality(P)
  <2>1. IsFiniteSet(Q) /\ n <= Cardinality(P)
    BY <1>3, FS_Subset
  <2>2. n # 0
    BY <2>1, FS_EmptySet
  <2>3. IsFiniteSet(P \ Q) /\ Cardinality(P \ Q) = Cardinality(P) - Cardinality(P \cap Q)
    BY <1>3, FS_Difference
  <2>4. P \cap Q = Q
    OBVIOUS
  <2>5. QED  BY <1>3, <2>1, <2>2, <2>3, <2>4, FS_CardinalityType
<1>6. Counted(j, b2, P \ Q)
  BY <1>3, <1>5, <1>11 DEF Counted
<1>7. b.replies = 0 /\ (Kind[j] # "steps" => b.issued = Parts[j])
  <2>1. b.commands # 0
    BY <1>3, <1>5
  <2>2. QED  BY <1>2, <2>1 DEF Placed
<1>8. Placed(j, b2)
  <2>1. b2.replies = IF b2.commands = 0 THEN 1 ELSE 0
    BY <1>1, <1>7, <1>11
  <2>2. ~b2.error => Kind[j] # "steps" \/ b2.issued = Parts[j]
    BY <1>1, <1>3, <1>4, <1>11, <1>12
  <2>3. Kind[j] # "steps" => b2.issued = Parts[j]
    BY <1>7, <1>11
  <2>4. QED  BY <1>11, <2>1, <2>2, <2>3 DEF Placed
<1>9. CarriedOut(j, b2, P \ Q, R)
  BY <1>2, <1>11, <1>12 DEF CarriedOut
<1>10. QED  BY <1>6, <1>8, <1>9 DEF Serving

\* A command of a job of several steps has been carried out, and the next one is queued.
LEMMA StepServing ==
  ASSUME NEW j \in Jobs, NEW b \in JobStates, NEW P \in SUBSET JobCommands, NEW R,
         Serving(j, b, P, R), b.at = "wait", Kind[j] = "steps",
         NEW c \in P, c \in R, b.issued < Parts[j],
         NEW d \in JobCommands, d = Command(j, b.issued + 1),
         NEW b2 \in JobStates, b2.at = b.at, b2.issued = b.issued + 1, b2.commands = b.commands,
         b2.error = b.error, b2.replies = b.replies
  PROVE  Serving(j, b2, (P \ {c}) \cup {d}, R)
<1>1. b.issued \in Nat /\ b.commands \in Int /\ b.error \in BOOLEAN
  BY FieldsOf
<1>2. Counted(j, b, P) /\ Placed(j, b) /\ CarriedOut(j, b, P, R)
  BY DEF Serving
<1>3. IsFiniteSet(P) /\ b.commands = Cardinality(P) /\ \A x \in P : x.part <= b.issued
  BY <1>2 DEF Counted
<1>4. Parts[j] \in Nat
  BY ImapxAssumption
<1>5. d.part = b.issued + 1
  BY DEF Command
<1>6. d \notin P /\ \A x \in P : x.part \in Nat
  BY <1>1, <1>3, <1>5, CommandsDiffer
<1>7. /\ IsFiniteSet(P \ {c}) /\ Cardinality(P \ {c}) = Cardinality(P) - 1 /\ Cardinality(P) \in Nat
  BY <1>3, FS_RemoveElement, FS_CardinalityType
<1>8. /\ IsFiniteSet((P \ {c}) \cup {d})
      /\ Cardinality((P \ {c}) \cup {d}) = Cardinality(P \ {c}) + 1
  BY <1>6, <1>7, FS_AddElement
<1>9. Counted(j, b2, (P \ {c}) \cup {d})
  <2>1. b2.issued <= Parts[j] /\ b2.commands = Cardinality((P \ {c}) \cup {d})
    BY <1>1, <1>3, <1>4, <1>7, <1>8
  <2>2. \A x \in (P \ {c}) \cup {d} : x.part <= b2.issued
    BY <1>1, <1>3, <1>5, <1>6
  <2>3. QED  BY <1>8, <2>1, <2>2 DEF Counted
<1>10. Placed(j, b2)
  <2>1. b.commands # 0
    <3>1. Cardinality(P) # 0
      BY <1>3, FS_EmptySet
    <3>2. QED  BY <1>3, <3>1
  <2>2. QED  BY <1>2, <2>1 DEF Placed
<1>11. CarriedOut(j, b2, (P \ {c}) \cup {d}, R)
  <2>1. ASSUME ~b2.error, NEW n \in 1..b2.issued
        PROVE  Command(j, n) \in R \/ Command(j, n) \in (P \ {c}) \cup {d}
    <3>1. n \in 1..b.issued \/ n = b.issued + 1
      BY <1>1
    <3>2. \A m \in 1..b.issued : Command(j, m) \in R \/ Command(j, m) \in P
      BY <1>2, <2>1 DEF CarriedOut
    <3>3. QED  BY <3>1, <3>2
  <2>2. QED  BY <2>1 DEF CarriedOut
<1>12. QED  BY <1>9, <1>10, <1>11 DEF Serving

\* The server is shut down when the job is to start: its command fails at once.
LEMMA LateServing ==
  ASSUME NEW j \in Jobs, NEW b \in JobStates, NEW P \in SUBSET JobCommands, NEW R,
         Serving(j, b, P, R), b.at = "start", Kind[j] # "store",
         NEW b2 \in JobStates, b2.at = "wait", b2.issued = b.issued + 1, b2.commands = b.commands,
         b2.error, b2.replies = b.replies + 1
  PROVE  Serving(j, b2, P, R)
<1>1. b.issued \in Nat /\ b.commands \in Int
  BY FieldsOf
<1>2. Counted(j, b, P) /\ Placed(j, b)
  BY DEF Serving
<1>3. b.issued = 0 /\ b.commands = 0 /\ b.replies = 0
  BY <1>2 DEF Placed
<1>4. /\ Parts[j] \in Nat \ {0} /\ Kind[j] \in {"single", "append", "steps", "store"}
      /\ Kind[j] \in {"single", "append"} => Parts[j] = 1
  BY ImapxAssumption
<1>5. P = {}
  BY <1>2, <1>3, FS_EmptySet DEF Counted
<1>6. Counted(j, b2, P)
  BY <1>2, <1>3, <1>4, <1>5 DEF Counted
<1>7. Placed(j, b2)
  BY <1>3, <1>4 DEF Placed
<1>8. CarriedOut(j, b2, P, R)
  BY DEF CarriedOut
<1>9. QED  BY <1>6, <1>7, <1>8 DEF Serving

\* A job is taken on or refused, has issued all its commands, or returns.
LEMMA MovedServing ==
  ASSUME NEW j \in Jobs, NEW b \in JobStates, NEW P, NEW R, Serving(j, b, P, R),
         NEW b2 \in JobStates, b2.issued = b.issued, b2.commands = b.commands,
         b2.error = b.error, b2.replies = b.replies,
         \/ b.at = "new" /\ b2.at \in {"start", "refused"}
         \/ b.at = "check" /\ b2.at = "wait"
         \/ b.at = "wait" /\ b2.at = "returned" /\ b.replies > 0
  PROVE  Serving(j, b2, P, R)
<1>1. b.issued \in Nat /\ b.commands \in Int /\ b.error \in BOOLEAN
  BY FieldsOf
<1>2. Counted(j, b, P) /\ Placed(j, b) /\ CarriedOut(j, b, P, R)
  BY DEF Serving
<1>3. Counted(j, b2, P) /\ CarriedOut(j, b2, P, R)
  BY <1>2 DEF Counted, CarriedOut
<1>4. Parts[j] \in Nat \ {0}
  BY ImapxAssumption
<1>5. b.at = "check" => b.commands # 0
  BY <1>2, <1>4 DEF Placed
<1>6. Placed(j, b2)
  <2>1. CASE b.at = "new" /\ b2.at \in {"start", "refused"}
    BY <1>2, <1>4, <2>1 DEF Placed
  <2>2. CASE b.at = "check" /\ b2.at = "wait"
    BY <1>2, <1>5, <2>2 DEF Placed
  <2>3. CASE b.at = "wait" /\ b2.at = "returned" /\ b.replies > 0
    BY <1>2, <2>3 DEF Placed
  <2>4. QED  BY <2>1, <2>2, <2>3
<1>7. QED  BY <1>3, <1>5, <1>6 DEF Serving

\* The commands of one job,
LEMMA OfIs ==
  ASSUME NEW O \in SUBSET JobCommands, NEW j
  PROVE  /\ Of(j, O) \in SUBSET JobCommands
         /\ \A c \in Of(j, O) : c \in O /\ c.job = j
         /\ \A c \in O : c.job = j => c \in Of(j, O)
  BY DEF Of

\* when one of them comes or goes,
LEMMA OfMine ==
  ASSUME NEW O, NEW j, NEW c, c.job = j
  PROVE  Of(j, O \cup {c}) = Of(j, O) \cup {c} /\ Of(j, O \ {c}) = Of(j, O) \ {c}
  BY DEF Of

\* and when one of another job does.
LEMMA OfOther ==
  ASSUME NEW O, NEW j, NEW c, c.job # j
  PROVE  Of(j, O \cup {c}) = Of(j, O) /\ Of(j, O \ {c}) = Of(j, O)
  BY DEF Of

\* What is outstanding are commands of jobs.
LEMMA OutstandingIs ==
  ASSUME NEW s, NEW ic
  PROVE  /\ Outstanding(s, ic) \in SUBSET JobCommands /\ Ours(s) \in SUBSET JobCommands
         /\ Outstanding(s, NoCommand) = Ours(s)
         /\ ic \in JobCommands => Outstanding(s, ic) = Ours(s) \cup {ic}
         /\ ic \notin JobCommands => Outstanding(s, ic) = Ours(s)
<1>1. NoCommand \notin JobCommands
  BY CommandsDiffer DEF Commands
<1>2. QED  BY <1>1 DEF Outstanding, Ours

\* Nothing changes for the callers' jobs, but for what the server has carried out.
LEMMA SameServed ==
  ASSUME NEW jb, NEW O \in SUBSET JobCommands, NEW R, Served(jb, O, R),
         NEW jb2, NEW O2 \in SUBSET JobCommands, NEW R2, R \subseteq R2,
         \A j \in Jobs : jb2[j] = jb[j],
         \A c \in JobCommands : c.job \in Jobs => (c \in O2 <=> c \in O)
  PROVE  Served(jb2, O2, R2)
<1>1. SUFFICES ASSUME NEW j \in Jobs  PROVE Serving(j, jb2[j], Of(j, O2), R2)
  BY DEF Served
<1>2. Of(j, O2) = Of(j, O)
  BY DEF Of
<1>3. Serving(j, jb[j], Of(j, O), R)
  BY DEF Served
<1>4. QED  BY <1>2, <1>3 DEF Serving, CarriedOut

\* One job and its commands change.
OthersStay(jb, O, jb2, O2, j) ==
  \A k \in Jobs : k # j => jb2[k] = jb[k] /\ Of(k, O2) = Of(k, O)

LEMMA OneServed ==
  ASSUME NEW jb, NEW O \in SUBSET JobCommands, NEW R, Served(jb, O, R),
         NEW jb2, NEW O2 \in SUBSET JobCommands, NEW j, OthersStay(jb, O, jb2, O2, j),
         j \in Jobs => Serving(j, jb2[j], Of(j, O2), R)
  PROVE  Served(jb2, O2, R)
<1>1. SUFFICES ASSUME NEW k \in Jobs  PROVE Serving(k, jb2[k], Of(k, O2), R)
  BY DEF Served
<1>2. CASE k = j
  BY <1>2
<1>3. CASE k # j
  <2>1. Serving(k, jb[k], Of(k, O), R)
    BY DEF Served
  <2>2. QED  BY <1>3, <2>1 DEF OthersStay
<1>4. QED  BY <1>2, <1>3

\* A job that nobody waits for is no job of Jobs.
LEMMA CallersJob ==
  ASSUME NEW j \in Jobs
  PROVE  /\ j \in Jobs \cup Async /\ j \notin Async /\ JobKind(j) = Kind[j] /\ PartsOf(j) = Parts[j]
         /\ \A jb \in JobMaps : jb[j] \in JobStates
  BY ImapxAssumption DEF JobKind, PartsOf, JobMaps

\* A command may end: its job waits for it, and if it did not fail it was carried out
\* and was the last one.
MayEnd(jb, c, failed, R) ==
  c.job \in Jobs =>
    /\ jb[c.job].at = "wait"
    /\ ~failed => c \in R /\ (JobKind(c.job) # "steps" \/ ~(jb[c.job].issued < PartsOf(c.job)))

SamePlaces(jb, jb2) == \A j \in Jobs : jb2[j].at = jb[j].at

\* A command of a job that waits is done with.
LEMMA FinishServed ==
  ASSUME NEW jb \in JobMaps, NEW O \in SUBSET JobCommands, NEW R, Served(jb, O, R),
         NEW c \in O, NEW failed \in BOOLEAN, MayEnd(jb, c, failed, R),
         NEW j, j = c.job, NEW jb2, jb2 = Finish(jb, j, 1, failed)
  PROVE  jb2 \in JobMaps /\ Served(jb2, O \ {c}, R) /\ SamePlaces(jb, jb2)
<1>1. c \in JobCommands /\ j \in Jobs \cup Async
  BY CommandsDiffer
<1>2. /\ jb2 \in JobMaps
      /\ \A k \in Jobs \cup Async : k # j => jb2[k] = jb[k]
      /\ j \notin Async =>
           /\ jb2[j].at = jb[j].at /\ jb2[j].issued = jb[j].issued
           /\ jb2[j].commands = jb[j].commands - 1
           /\ jb2[j].error <=> jb[j].error \/ failed
           /\ jb2[j].replies = IF jb[j].commands = 1 THEN jb[j].replies + 1 ELSE jb[j].replies
  <2>1. PICK n \in Int : n = 1
    OBVIOUS
  <2>2. jb2 = Finish(jb, j, n, failed)
    BY <2>1
  <2>3. PICK r \in JobMaps :
           /\ r = Finish(jb, j, n, failed)
           /\ \A k \in Jobs \cup Async : k # j => r[k] = jb[k]
           /\ jb[j].commands = n /\ j \in Async => r[j] = Created
           /\ jb[j].commands # n \/ j \notin Async =>
                /\ r[j].at = jb[j].at /\ r[j].folder = jb[j].folder /\ r[j].issued = jb[j].issued
                /\ r[j].commands = jb[j].commands - n
                /\ r[j].error <=> jb[j].error \/ failed
                /\ r[j].replies = IF jb[j].commands = n THEN jb[j].replies + 1 ELSE jb[j].replies
    BY <1>1, FinishIs
  <2>4. jb2 = r
    BY <2>2, <2>3
  <2>5. QED  BY <2>1, <2>3, <2>4
<1>3. ASSUME j \in Jobs  PROVE Serving(j, jb2[j], Of(j, O \ {c}), R)
  <2>1. PICK P : P = Of(j, O)
    OBVIOUS
  <2>2. Of(j, O \ {c}) = P \ {c} /\ P \in SUBSET JobCommands /\ {c} \in SUBSET P
    BY <2>1, OfIs, OfMine
  <2>3. Serving(j, jb[j], P, R)
    BY <1>3, <2>1 DEF Served
  <2>4. j \notin Async /\ JobKind(j) = Kind[j] /\ PartsOf(j) = Parts[j]
        /\ jb[j] \in JobStates /\ jb2[j] \in JobStates
    BY <1>2, <1>3, CallersJob
  <2>5. PICK b \in JobStates, b2 \in JobStates : b = jb[j] /\ b2 = jb2[j]
    BY <2>4
  <2>6. PICK n \in Nat, Q \in SUBSET P : n = 1 /\ Q = {c}
    BY <2>2
  <2>7. n = Cardinality(Q) /\ Q # {}
    BY <2>6, FS_Singleton
  <2>8. Serving(j, b, P, R) /\ b.at = "wait" /\ b2.at = b.at /\ b2.issued = b.issued
        /\ b2.commands = b.commands - n
        /\ (b2.error <=> b.error \/ failed)
        /\ b2.replies = IF b.commands = n THEN b.replies + 1 ELSE b.replies
    <3>1. b.at = "wait"
      BY <1>3, <2>5 DEF MayEnd
    <3>2. QED  BY <1>2, <2>3, <2>4, <2>5, <2>6, <3>1
  <2>9. ~failed => Q \subseteq R /\ (Kind[j] # "steps" \/ ~(b.issued < Parts[j]))
    BY <1>3, <2>4, <2>5, <2>6 DEF MayEnd
  <2>10. Serving(j, b2, P \ Q, R)
    <3>1. DoneWith(b, b2, n, failed)
      BY <2>8 DEF DoneWith
    <3>2. failed \/ AllRan(j, b, Q, R)
      BY <2>9 DEF AllRan
    <3>3. Serving(j, b, P, R) /\ b.at = "wait"
      BY <2>8
    <3>4. QED  BY <1>3, <2>2, <2>5, <2>6, <2>7, <3>1, <3>2, <3>3, DoneServing
  <2>11. QED  BY <2>2, <2>5, <2>6, <2>10
<1>4. PICK O2 \in SUBSET JobCommands : O2 = O \ {c}
  OBVIOUS
<1>5. OthersStay(jb, O, jb2, O2, j)
  BY <1>2, <1>4, OfOther DEF OthersStay
<1>6. Served(jb2, O2, R)
  <2>1. j \in Jobs => Serving(j, jb2[j], Of(j, O2), R)
    BY <1>3, <1>4
  <2>2. QED  BY <1>5, <2>1, OneServed
<1>7. SamePlaces(jb, jb2)
  BY <1>2, CallersJob DEF SamePlaces
<1>8. QED  BY <1>2, <1>4, <1>6, <1>7

\* A job issues one more command.
Issues(jb, jb2, j) ==
  /\ \A k \in Jobs \cup Async : k # j => jb2[k] = jb[k]
  /\ jb2[j] = [jb[j] EXCEPT !.issued = @ + 1]

\* A command of a job of several steps has been carried out and is followed by the next.
LEMMA StepServed ==
  ASSUME NEW jb \in JobMaps, NEW O \in SUBSET JobCommands, NEW R, Served(jb, O, R),
         NEW c \in O, NEW j, j = c.job, j \in Jobs => jb[j].at = "wait" /\ c \in R,
         JobKind(j) = "steps", jb[j].issued < PartsOf(j),
         NEW d \in JobCommands, d = Command(j, jb[j].issued + 1),
         NEW jb2 \in JobMaps, Issues(jb, jb2, j)
  PROVE  Served(jb2, (O \ {c}) \cup {d}, R)
<1>1. d.job = j
  BY DEF Command
<1>2. PICK O1 \in SUBSET JobCommands : O1 = O \ {c}
  OBVIOUS
<1>3. PICK O2 \in SUBSET JobCommands : O2 = O1 \cup {d}
  OBVIOUS
<1>4. ASSUME j \in Jobs  PROVE Serving(j, jb2[j], Of(j, O2), R)
  <2>1. PICK P : P = Of(j, O)
    OBVIOUS
  <2>2. Of(j, O1) = P \ {c} /\ P \in SUBSET JobCommands /\ c \in P
    BY <1>2, <2>1, OfIs, OfMine
  <2>3. Of(j, O2) = (P \ {c}) \cup {d}
    <3>1. Of(j, O1 \cup {d}) = Of(j, O1) \cup {d}
      BY <1>1 DEF Of
    <3>2. QED  BY <1>3, <2>2, <3>1
  <2>4. Serving(j, jb[j], P, R)
    BY <1>4, <2>1 DEF Served
  <2>5. /\ JobKind(j) = Kind[j] /\ PartsOf(j) = Parts[j]
        /\ jb[j] \in JobStates /\ jb2[j] \in JobStates
    BY <1>4, CallersJob
  <2>6. PICK b \in JobStates, b2 \in JobStates : b = jb[j] /\ b2 = jb2[j]
    BY <2>5
  <2>7. /\ b2.at = b.at /\ b2.issued = b.issued + 1 /\ b2.commands = b.commands
        /\ b2.error = b.error /\ b2.replies = b.replies
    BY <2>6 DEF JobStates, Issues
  <2>8. /\ Serving(j, b, P, R) /\ b.at = "wait" /\ Kind[j] = "steps" /\ b.issued < Parts[j]
        /\ d = Command(j, b.issued + 1) /\ c \in R
    BY <1>4, <2>4, <2>5, <2>6
  <2>9. Serving(j, b2, (P \ {c}) \cup {d}, R)
    BY <1>4, <2>2, <2>7, <2>8, StepServing
  <2>10. QED  BY <2>3, <2>6, <2>9
<1>5. ASSUME NEW k \in Jobs, k # j
      PROVE  jb2[k] = jb[k] /\ Of(k, O2) = Of(k, O)
  <2>1. Of(k, O1) = Of(k, O) /\ Of(k, O2) = Of(k, O1)
    BY <1>1, <1>2, <1>5, <1>3, OfOther
  <2>2. QED  BY <1>5, <2>1 DEF Issues
<1>6. Served(jb2, O2, R)
  <2>1. OthersStay(jb, O, jb2, O2, j)
    BY <1>5 DEF OthersStay
  <2>2. QED  BY <1>4, <2>1, OneServed
<1>7. QED  BY <1>2, <1>6, <1>3

\* The first or another command of a job is queued by its start function.
LEMMA QueueServed ==
  ASSUME NEW jb \in JobMaps, NEW O \in SUBSET JobCommands, NEW R, Served(jb, O, R),
         NEW j \in Jobs, jb[j].at = "start",
         NEW d \in JobCommands, d = Command(j, jb[j].issued + 1),
         NEW jb2 \in JobMaps, \A k \in Jobs \cup Async : k # j => jb2[k] = jb[k],
         jb2[j].issued = jb[j].issued + 1, jb2[j].commands = jb[j].commands + 1,
         jb2[j].error = jb[j].error, jb2[j].replies = jb[j].replies,
         jb2[j].at = IF d.part < Starts(j) THEN "start" ELSE IF Kind[j] = "store" THEN "check" ELSE "wait"
  PROVE  Served(jb2, O \cup {d}, R)
<1>1. d.job = j
  BY DEF Command
<1>2. PICK O2 \in SUBSET JobCommands : O2 = O \cup {d}
  OBVIOUS
<1>3. PICK P \in SUBSET JobCommands : P = Of(j, O)
  BY OfIs
<1>4. Of(j, O2) = P \cup {d}
  <2>1. Of(j, O \cup {d}) = Of(j, O) \cup {d}
    BY <1>1 DEF Of
  <2>2. QED  BY <1>2, <1>3, <2>1
<1>5. PICK b \in JobStates, b2 \in JobStates : b = jb[j] /\ b2 = jb2[j]
  BY CallersJob
<1>6. Serving(j, b, P, R)
  BY <1>3, <1>5 DEF Served
<1>7. Serving(j, b2, P \cup {d}, R)
  BY <1>5, <1>6, QueueServing
<1>8. OthersStay(jb, O, jb2, O2, j)
  BY <1>1, <1>2, OfOther DEF OthersStay
<1>9. Served(jb2, O2, R)
  <2>1. Serving(j, jb2[j], Of(j, O2), R)
    BY <1>4, <1>5, <1>7
  <2>2. QED  BY <1>8, <2>1, OneServed
<1>10. QED  BY <1>2, <1>9

\* As many different elements as positions of a sequence that has none twice.
Entries(q, F) == {q[i] : i \in F}

LEMMA EntriesCount ==
  ASSUME NEW X, NEW q \in Seq(X), IsInjective(q), NEW F \in SUBSET DOMAIN q
  PROVE  Cardinality(Entries(q, F)) = Cardinality(F)
<1>1. PICK T : T = Entries(q, F)
  OBVIOUS
<1>2. PICK f : f = [i \in F |-> q[i]]
  OBVIOUS
<1>3. f \in Surjection(F, T)
  BY <1>1, <1>2 DEF Surjection, Entries
<1>4. f \in Injection(F, T)
  BY <1>2, <1>3 DEF Surjection, Injection, IsInjective
<1>5. IsFiniteSet(F)
  <2>1. DOMAIN q = 1..Len(q) /\ Len(q) \in Nat
    OBVIOUS
  <2>2. QED  BY <2>1, PositionsFinite
<1>6. QED  BY <1>1, <1>3, <1>4, <1>5, FS_Surjection

\* Jobs with commands that are outstanding wait for them.
Waiting(jb, O) == \A j \in Jobs : Of(j, O) # {} => jb[j].at = "wait"

\* No command is queued twice, or queued and active.
QueuedOnce(s) == IsInjective(s.queue) /\ Range(s.queue) \cap Range(s.active) = {}

\* The commands that wait for a folder fail with its SELECT.
LEMMA SelectFailedServed ==
  ASSUME NEW s \in Servers, NEW jb \in JobMaps, NEW R, Served(jb, Ours(s), R),
         QueuedOnce(s), Waiting(jb, Ours(s)),
         NEW byError, NEW r, r = SelectFailed(s, jb, byError)
  PROVE  Served(r.job, Ours(r.is), R)
<1>1. PICK failed : failed = Failing(s, jb)
  OBVIOUS
<1>2. PICK q : q = Keep(s.queue, DOMAIN s.queue \ failed)
  OBVIOUS
<1>3. /\ r.is.queue = q /\ r.is.active = s.active /\ r.job \in JobMaps
      /\ \A j \in Jobs \cup Async :
           \E n \in Nat :
             /\ n = Cardinality(FailingOf(s, jb, j))
             /\ r.job[j] = IF FailingOf(s, jb, j) = {} THEN jb[j] ELSE Failed(jb, j, n)[j]
  <2>1. LeftOver(s, jb, r)
    BY SelectFailedIs
  <2>2. QED  BY <1>1, <1>2, <2>1 DEF LeftOver
<1>4. s.queue \in Seq(JobCommands) /\ Range(s.queue) \subseteq JobCommands
  BY SequencesOf
<1>5. /\ \A i \in DOMAIN s.queue \ failed : s.queue[i] \in Range(q)
      /\ \A x \in Range(q) : \E i \in DOMAIN s.queue \ failed : x = s.queue[i]
  <2>1. DOMAIN s.queue \ failed \in SUBSET DOMAIN s.queue
    OBVIOUS
  <2>2. QED  BY <1>2, <1>4, <2>1, KeepIs
<1>6. failed \in SUBSET DOMAIN s.queue
  BY <1>1 DEF Failing
<1>7. SUFFICES ASSUME NEW j \in Jobs  PROVE Serving(j, r.job[j], Of(j, Ours(r.is)), R)
  BY DEF Served
<1>8. PICK P : P = Of(j, Ours(s))
  OBVIOUS
<1>9. PICK F : F = FailingOf(s, jb, j)
  OBVIOUS
<1>10. PICK Q : Q = Entries(s.queue, F)
  OBVIOUS
<1>11. /\ F \in SUBSET DOMAIN s.queue /\ F \subseteq failed
       /\ \A i \in failed : s.queue[i].job = j <=> i \in F
  BY <1>1, <1>6, <1>9 DEF FailingOf
<1>12. P \in SUBSET JobCommands /\ Q \in SUBSET P
  <2>1. P \in SUBSET JobCommands
    BY <1>8 DEF Of, Ours
  <2>2. ASSUME NEW i \in F  PROVE s.queue[i] \in P
    <3>1. s.queue[i] \in Range(s.queue) /\ s.queue[i].job = j
      BY <1>11 DEF Range
    <3>2. QED  BY <1>4, <1>8, <3>1 DEF Of, Ours
  <2>3. QED  BY <1>10, <2>1, <2>2 DEF Entries
<1>13. Of(j, Ours(r.is)) = P \ Q
  <2>1. \A c : c \in Of(j, Ours(r.is)) <=> c \in JobCommands /\ c.job = j /\ c \in Range(q) \cup Range(s.active)
    BY <1>3 DEF Of, Ours
  <2>2. \A c : c \in P <=> c \in JobCommands /\ c.job = j /\ c \in Range(s.queue) \cup Range(s.active)
    BY <1>8 DEF Of, Ours
  <2>3. \A c : c \in Q <=> \E i \in F : c = s.queue[i]
    BY <1>10 DEF Entries
  <2>4. \A c : c \in Range(s.queue) <=> \E i \in DOMAIN s.queue : c = s.queue[i]
    BY DEF Range
  <2>5. ASSUME NEW c \in Range(q)  PROVE c \in Range(s.queue) /\ c \notin Q
    <3>1. PICK k \in DOMAIN s.queue \ failed : c = s.queue[k]
      BY <1>5
    <3>2. ASSUME NEW i \in F, c = s.queue[i]  PROVE FALSE
      <4>1. i = k
        BY <1>11, <3>1, <3>2 DEF QueuedOnce, IsInjective
      <4>2. QED  BY <1>11, <3>1, <4>1
    <3>3. QED  BY <2>3, <2>4, <3>1, <3>2
  <2>6. ASSUME NEW c \in Range(s.active)  PROVE c \notin Q
    BY <1>11, <2>3, <2>4 DEF QueuedOnce
  <2>7. ASSUME NEW c \in Range(s.queue), c.job = j, c \notin Q  PROVE c \in Range(q)
    <3>1. PICK k \in DOMAIN s.queue : c = s.queue[k]
      BY <2>4
    <3>2. k \notin failed
      BY <1>11, <2>3, <2>7, <3>1
    <3>3. QED  BY <1>5, <3>1, <3>2
  <2>8. QED  BY <2>1, <2>2, <2>5, <2>6, <2>7
<1>14. Serving(j, jb[j], P, R)
  BY <1>8 DEF Served
<1>15. PICK n \in Nat : n = Cardinality(F) /\ r.job[j] = IF F = {} THEN jb[j] ELSE Failed(jb, j, n)[j]
  BY <1>3, <1>9
<1>16. CASE F = {}
  <2>1. Q = {} /\ r.job[j] = jb[j]
    BY <1>10, <1>15, <1>16 DEF Entries
  <2>2. QED  BY <1>13, <1>14, <2>1
<1>17. CASE F # {}
  <2>1. Q # {} /\ n = Cardinality(Q)
    <3>1. Cardinality(Q) = Cardinality(F)
      BY <1>4, <1>10, <1>11, EntriesCount DEF QueuedOnce
    <3>2. QED  BY <1>10, <1>15, <1>17, <3>1 DEF Entries
  <2>2. jb[j].at = "wait"
    BY <1>8, <1>12, <2>1 DEF Waiting
  <2>3. j \notin Async /\ jb[j] \in JobStates /\ j \in Jobs \cup Async
    BY CallersJob
  <2>4. PICK b \in JobStates, b2 \in JobStates : b = jb[j] /\ b2 = Failed(jb, j, n)[j]
    BY <2>3, FailedIs
  <2>5. /\ b2.at = b.at /\ b2.issued = b.issued /\ b2.commands = b.commands - n /\ b2.error = TRUE
        /\ b2.replies = IF b.commands = n THEN b.replies + 1 ELSE b.replies
    <3>1. FailedState(jb[j], Failed(jb, j, n)[j], n)
      BY <2>3, FailedIs
    <3>2. QED  BY <2>4, <3>1 DEF FailedState
  <2>6. PICK failure \in BOOLEAN : failure = TRUE
    OBVIOUS
  <2>7. DoneWith(b, b2, n, failure) /\ (failure \/ AllRan(j, b, Q, R))
    BY <2>5, <2>6 DEF DoneWith
  <2>8. Serving(j, b2, P \ Q, R)
    BY <1>12, <1>14, <2>1, <2>2, <2>4, <2>7, DoneServing
  <2>9. r.job[j] = b2
    BY <1>15, <1>17, <2>4
  <2>10. QED  BY <1>13, <2>8, <2>9
<1>18. QED  BY <1>16, <1>17

\* Without a job that is issuing commands, jobs with outstanding commands wait.
LEMMA JobsWait ==
  ASSUME NEW jb \in JobMaps, NEW O, NEW R, Served(jb, O, R),
         \A j \in Jobs : Kind[j] = "store" /\ jb[j].at \in {"start", "check"} => ~(jb[j].issued > 0)
  PROVE  Waiting(jb, O)
<1>1. SUFFICES ASSUME NEW j \in Jobs, Of(j, O) # {}  PROVE jb[j].at = "wait"
  BY DEF Waiting
<1>2. PICK b \in JobStates : b = jb[j]
  BY CallersJob
<1>3. PICK P : P = Of(j, O)
  OBVIOUS
<1>4. Serving(j, b, P, R) /\ P # {}
  BY <1>1, <1>2, <1>3 DEF Served
<1>5. b.at = "wait" \/ (Kind[j] = "store" /\ b.at \in {"start", "check"} /\ b.issued > 0)
  BY <1>4, OutstandingJob
<1>6. QED  BY <1>2, <1>5

\* What a step leaves outstanding, while the parser thread reads or when its hands
\* are empty.
LEMMA EmptyHands ==
  ASSUME parser'.ic = NoCommand, Served(job', Ours(is'), ran'), AllIssued'
  PROVE  AnswerInv'
<1>1. Outstanding(is', parser'.ic) = Ours(is')
  BY OutstandingIs
<1>2. CompletedRan'
  BY CommandsDiffer DEF CompletedRan, Commands
<1>3. Served(job', Outstanding(is', parser'.ic), ran')
  BY <1>1
<1>4. QED  BY <1>2, <1>3 DEF AnswerInv

\* A step that changes nothing for the callers.
LEMMA QuietAnswers ==
  ASSUME AnswerInv, ran' = ran, parser'.ic = parser.ic, parser'.ok = parser.ok, Reading' \/ ~Reading,
         NEW r, r.is = is', r.job = job', SameForCallers(is, job, r)
  PROVE  AnswerInv'
<1>1. PICK O, O2 : O = Outstanding(is, parser.ic) /\ O2 = Outstanding(is', parser'.ic)
  OBVIOUS
<1>2. /\ \A c \in JobCommands : c.job \in Jobs => (c \in Ours(is') <=> c \in Ours(is))
      /\ \A j \in Jobs : job'[j] = job[j]
  BY DEF SameForCallers
<1>3. O \in SUBSET JobCommands /\ O2 \in SUBSET JobCommands
  BY <1>1, OutstandingIs
<1>4. \A c \in JobCommands : c.job \in Jobs => (c \in O2 <=> c \in O)
  BY <1>1, <1>2 DEF Outstanding
<1>5. PICK jb, jb2, R, R2 : jb = job /\ jb2 = job' /\ R = ran /\ R2 = ran'
  OBVIOUS
<1>6. Served(jb, O, R)
  BY <1>1, <1>5 DEF AnswerInv
<1>7. R \subseteq R2 /\ \A j \in Jobs : jb2[j] = jb[j]
  BY <1>2, <1>5
<1>8. Served(jb2, O2, R2)
  BY <1>3, <1>4, <1>6, <1>7, SameServed
<1>9. AllIssued' /\ CompletedRan'
  BY <1>2 DEF AnswerInv, AllIssued, CompletedRan
<1>10. QED  BY <1>1, <1>5, <1>8, <1>9 DEF AnswerInv

\* A step that leaves the jobs and what is outstanding as they are.
LEMMA StillAnswers ==
  ASSUME AnswerInv, ran' = ran, job' = job, parser'.ic = parser.ic, parser'.ok = parser.ok,
         Reading' \/ ~Reading, Ours(is') = Ours(is)
  PROVE  AnswerInv'
<1>1. PICK r : r = [is |-> is', job |-> job']
  OBVIOUS
<1>2. r.is = is' /\ r.job = job'
  BY <1>1
<1>3. SameForCallers(is, job, r)
  BY <1>2 DEF SameForCallers
<1>4. QED  BY <1>2, <1>3, QuietAnswers

\* The answer to c has been read: the command is in the parser thread's hands.
LEMMA AnsweredAnswers ==
  ASSUME TypeOK, AnswerInv, parser.ic = NoCommand, Reading, NEW c \in Range(is.active), NEW ok \in BOOLEAN,
         Answered(c, ok), is'.queue = is.queue, Range(is'.active) = Range(is.active) \ {c}
  PROVE  AnswerInv'
<1>1. c \in Commands
  BY SequencesOf DEF TypeOK
<1>2. parser'.ic = c /\ parser'.ok = ok /\ Reading' /\ job' = job
  BY <1>1, AnsweredIs
<1>3. /\ ran \subseteq ran'
      /\ ok /\ c.op = "JOB" /\ c.job \in Jobs => c \in ran'
  BY DEF Answered
<1>4. Outstanding(is', c) = Outstanding(is, NoCommand)
  <2>1. Outstanding(is, NoCommand) = Ours(is)
    BY OutstandingIs
  <2>2. CASE c \in JobCommands
    <3>1. Outstanding(is', c) = Ours(is') \cup {c}
      BY <2>2, OutstandingIs
    <3>2. Ours(is) = Ours(is') \cup {c}
      BY <2>2 DEF Ours
    <3>3. QED  BY <2>1, <3>1, <3>2
  <2>3. CASE c \notin JobCommands
    <3>1. Outstanding(is', c) = Ours(is')
      BY <2>3, OutstandingIs
    <3>2. Ours(is) = Ours(is')
      BY <2>3 DEF Ours
    <3>3. QED  BY <2>1, <3>1, <3>2
  <2>4. QED  BY <2>2, <2>3
<1>5. PICK O, O2 : O = Outstanding(is, parser.ic) /\ O2 = Outstanding(is', parser'.ic)
  OBVIOUS
<1>6. O2 = O /\ O \in SUBSET JobCommands
  BY <1>2, <1>4, <1>5, OutstandingIs
<1>7. PICK jb, jb2, R, R2 : jb = job /\ jb2 = job' /\ R = ran /\ R2 = ran'
  OBVIOUS
<1>8. Served(jb, O, R)
  BY <1>5, <1>7 DEF AnswerInv
<1>9. Served(jb2, O2, R2)
  BY <1>2, <1>3, <1>6, <1>7, <1>8, SameServed
<1>10. AllIssued'
  BY <1>2 DEF AllIssued
<1>11. CompletedRan'
  BY <1>2, <1>3, CommandsDiffer DEF CompletedRan
<1>12. QED  BY <1>5, <1>7, <1>9, <1>10, <1>11 DEF AnswerInv

\* The server answers, asks for more, or tells of something.
LEMMA ReadingAnswers ==
  ASSUME TypeOK, TypeOK', StreamInv, is.state # "CRASHED", AnswerInv,
         ServerSpeaks \/ UntaggedClosed \/ UntaggedExists
  PROVE  AnswerInv'
<1>1. parser.at = "read" /\ Reading
  BY DEF ServerSpeaks, ReadAnswer, ReadAnswerToMore, Continuation, UntaggedClosed, UntaggedExists, Reading
<1>2. /\ is \in Servers /\ job \in JobMaps /\ parser.ic = NoCommand
      /\ Connected(is, job, NoCommand, parser.ok, server.waiting, server.selected)
  BY <1>1, WhileReading
<1>3. Sent(is, server.waiting)
  BY <1>2 DEF Connected
<1>4. is.stream \in Seq(Commands \cup {More}) /\ Range(is.active) \subseteq Commands
  BY <1>2, SequencesOf
<1>5. ASSUME NEW ok \in BOOLEAN, ReadAnswer(ok)  PROVE AnswerInv'
  <2>1. PICK i \in DOMAIN is.stream :
          LET c == is.stream[i]
          IN  c # More /\ is' = Detached(c, RemoveAt(is.stream, i)) /\ Answered(c, ok)
    BY <1>5 DEF ReadAnswer
  <2>2. PICK c : c = is.stream[i]
    OBVIOUS
  <2>3. c \in Range(is.active)
    BY <1>3, <2>1, <2>2 DEF Sent, Range
  <2>4. PICK st : st = RemoveAt(is.stream, i)
    OBVIOUS
  <2>5. st \in Seq(Commands \cup {More})
    <3>1. PICK X : X = Commands \cup {More}
      OBVIOUS
    <3>2. st \in Seq(X)
      BY <1>4, <2>4, <3>1, RemoveIs
    <3>3. QED  BY <3>1, <3>2
  <2>6. PICK t : t = Detached(c, st)
    OBVIOUS
  <2>7. t.queue = is.queue /\ Range(t.active) = Range(is.active) \ {c}
    BY <1>2, <1>4, <2>3, <2>5, <2>6, DetachedIs
  <2>8. is' = t /\ Answered(c, ok)
    BY <2>1, <2>2, <2>4, <2>6
  <2>9. QED  BY <1>1, <1>2, <1>5, <2>3, <2>7, <2>8, AnsweredAnswers
<1>6. ASSUME NEW ok \in BOOLEAN, ReadAnswerToMore(ok)  PROVE AnswerInv'
  <2>1. PICK w, st : w = server.waiting /\ st = Tail(is.stream)
    OBVIOUS
  <2>2. PICK t : t = Detached(w, st)
    OBVIOUS
  <2>3. w # NoCommand /\ is.stream # <<>> /\ is' = t /\ Answered(w, ok)
    BY <1>6, <2>1, <2>2 DEF ReadAnswerToMore
  <2>4. w \in Range(is.active)
    BY <1>3, <2>1, <2>3 DEF Sent
  <2>5. st \in Seq(Commands \cup {More})
    BY <1>4, <2>1, <2>3
  <2>6. t.queue = is.queue /\ Range(t.active) = Range(is.active) \ {w}
    BY <1>2, <1>4, <2>2, <2>4, <2>5, DetachedIs
  <2>7. QED  BY <1>1, <1>2, <1>6, <2>3, <2>4, <2>6, AnsweredAnswers
<1>7. CASE Continuation
  <2>1. Ours(is') = Ours(is)
    BY <1>7, ContinuationStepKeeps
  <2>2. ran' = ran /\ job' = job /\ parser' = parser
    BY <1>7 DEF Continuation
  <2>3. Reading'
    BY <1>1, <2>2 DEF Reading
  <2>4. QED  BY <2>1, <2>2, <2>3, StillAnswers
<1>8. CASE UntaggedClosed \/ UntaggedExists
  <2>1. ran' = ran /\ job' = job /\ parser' = parser
    BY <1>8 DEF UntaggedClosed, UntaggedExists
  <2>2. Reading'
    BY <1>1, <2>1 DEF Reading
  <2>3. Ours(is') = Ours(is)
    <3>1. CASE UntaggedExists
      <4>1. Ours(StopIdle(is)) = Ours(is)
        BY <1>2, StopIdleKeeps
      <4>2. QED  BY <3>1, <4>1 DEF UntaggedExists
    <3>2. CASE UntaggedClosed
      <4>1. is' = is \/ is' = [is EXCEPT !.select_folder = is.select_pending]
        BY <3>2 DEF UntaggedClosed
      <4>2. is'.queue = is.queue /\ is'.active = is.active
        BY <1>2, <4>1 DEF Servers
      <4>3. QED  BY <4>2 DEF Ours
    <3>3. QED  BY <1>8, <3>1, <3>2
  <2>4. QED  BY <2>1, <2>2, <2>3, StillAnswers
<1>9. QED  BY <1>5, <1>6, <1>7, <1>8 DEF ServerSpeaks

\* A step of one job alone.
LEMMA OneAnswers ==
  ASSUME AnswerInv, is' = is, parser' = parser, ran' = ran, NEW j \in Jobs,
         \A k \in Jobs \cup Async : k # j => job'[k] = job[k],
         NEW P, P = Of(j, Outstanding(is, parser.ic)), Serving(j, job'[j], P, ran),
         ~Reading => job'[j].at \notin {"start", "check"}
  PROVE  AnswerInv'
<1>1. PICK O \in SUBSET JobCommands : O = Outstanding(is, parser.ic)
  BY OutstandingIs
<1>2. PICK jb, jb2, R : jb = job /\ jb2 = job' /\ R = ran
  OBVIOUS
<1>3. Served(jb, O, R)
  BY <1>1, <1>2 DEF AnswerInv
<1>4. OthersStay(jb, O, jb2, O, j) /\ Serving(j, jb2[j], Of(j, O), R)
  BY <1>1, <1>2 DEF OthersStay
<1>5. Served(jb2, O, R)
  BY <1>3, <1>4, OneServed
<1>6. Served(job', Outstanding(is', parser'.ic), ran')
  BY <1>1, <1>2, <1>5
<1>7. AllIssued'
  <2>1. Reading' <=> Reading
    BY DEF Reading
  <2>2. ~Reading => \A k \in Jobs : Kind[k] = "store" => job[k].at \notin {"start", "check"}
    BY DEF AnswerInv, AllIssued
  <2>3. ~Reading => \A k \in Jobs : Kind[k] = "store" => job'[k].at \notin {"start", "check"}
    <3>1. SUFFICES ASSUME ~Reading, NEW k \in Jobs, Kind[k] = "store"
                   PROVE  job'[k].at \notin {"start", "check"}
      OBVIOUS
    <3>2. CASE k = j
      BY <3>1, <3>2
    <3>3. CASE k # j
      BY <2>2, <3>1, <3>3
    <3>4. QED  BY <3>2, <3>3
  <2>4. QED  BY <2>1, <2>3 DEF AllIssued
<1>8. CompletedRan'
  BY DEF AnswerInv, CompletedRan
<1>9. QED  BY <1>6, <1>7, <1>8 DEF AnswerInv

\* A job is registered, finds that it has to wait, or returns to its caller.
LEMMA CallerAnswers ==
  ASSUME TypeOK, TypeOK', StreamInv, is.state # "CRASHED", AnswerInv, NEW j \in Jobs,
         Submit(j) \/ CheckStored(j) \/ Return(j)
  PROVE  AnswerInv'
<1>1. /\ is \in Servers /\ job \in JobMaps /\ job' \in JobMaps
      /\ j \in Jobs \cup Async /\ job[j] \in JobStates /\ job'[j] \in JobStates
  BY CallersJob DEF TypeOK
<1>2. PICK b \in JobStates, b2 \in JobStates : b = job[j] /\ b2 = job'[j]
  BY <1>1
<1>3. PICK P, R : P = Of(j, Outstanding(is, parser.ic)) /\ R = ran
  OBVIOUS
<1>4. Serving(j, b, P, R)
  BY <1>2, <1>3 DEF AnswerInv, Served
<1>5. UNCHANGED <<is, parser, ran>>
  BY DEF Submit, CheckStored, Return
<1>6. b.at = "check" => b.commands # 0
  BY <1>4, ImapxAssumption DEF Serving, Placed
<1>7. PICK a \in Places :
        /\ job' = Moved(job, j, a)
        /\ \/ b.at = "new" /\ a = (IF Registers THEN "start" ELSE "refused")
           \/ b.at = "check" /\ a = "wait"
           \/ b.at = "wait" /\ a = "returned" /\ b.replies > 0
  <2>1. CASE Submit(j)
    BY <1>2, <2>1 DEF Submit, Moved, Places
  <2>2. CASE CheckStored(j)
    <3>1. job[j].at = "check" /\ job[j].commands # 0
      BY <1>2, <1>6, <2>2 DEF CheckStored
    <3>2. job' = [job EXCEPT ![j].at = "wait"]
      BY <2>2, <3>1 DEF CheckStored
    <3>3. QED  BY <1>2, <3>1, <3>2 DEF Moved, Places
  <2>3. CASE Return(j)
    BY <1>2, <2>3 DEF Return, Moved, Places
  <2>4. QED  BY <2>1, <2>2, <2>3
<1>8. /\ \A k \in Jobs \cup Async : k # j => job'[k] = job[k]
      /\ b2.at = a /\ b2.issued = b.issued /\ b2.commands = b.commands
      /\ b2.error = b.error /\ b2.replies = b.replies
  <2>1. PICK r : r = Moved(job, j, a)
    OBVIOUS
  <2>2. /\ r \in JobMaps /\ \A k \in Jobs \cup Async : k # j => r[k] = job[k]
        /\ r[j].at = a /\ r[j].folder = job[j].folder /\ r[j].issued = job[j].issued
        /\ r[j].commands = job[j].commands /\ r[j].error = job[j].error /\ r[j].replies = job[j].replies
    BY <1>1, <2>1, MovedJob
  <2>3. QED  BY <1>2, <1>7, <2>1, <2>2
<1>9. \/ b.at = "new" /\ b2.at \in {"start", "refused"}
      \/ b.at = "check" /\ b2.at = "wait"
      \/ b.at = "wait" /\ b2.at = "returned" /\ b.replies > 0
  BY <1>7, <1>8
<1>10. Serving(j, b2, P, R)
  BY <1>4, <1>8, <1>9, MovedServing
<1>11. ~Reading => b2.at \notin {"start", "check"}
  <2>1. ~Reading => ~Registers
    BY DEF StreamInv, Steady, Disconnected, Registers
  <2>2. QED  BY <1>7, <1>8, <2>1
<1>12. QED  BY <1>2, <1>3, <1>5, <1>8, <1>10, <1>11, OneAnswers

\* A job starts, with the connection or without it.
LEMMA StartJobAnswers ==
  ASSUME TypeOK, TypeOK', StreamInv, is.state # "CRASHED", AnswerInv, NEW j \in Jobs, StartJob(j)
  PROVE  AnswerInv'
<1>1. /\ is \in Servers /\ job \in JobMaps /\ job' \in JobMaps /\ j \in Jobs \cup Async
      /\ parser.ic \in Commands \cup {NoCommand}
  BY DEF TypeOK
<1>2. PICK n, c, at : /\ n = job[j].issued + 1 /\ c = Command(j, n)
                      /\ at = IF c.part < Starts(j) THEN "start"
                              ELSE IF Kind[j] = "store" THEN "check" ELSE "wait"
  OBVIOUS
<1>3. PICK next : next = WithNext(job, j)
  OBVIOUS
<1>4. PICK jb : jb = [next EXCEPT ![j].at = at]
  OBVIOUS
<1>5. /\ IF is.state = "SHUTDOWN"
         THEN job' = JobComplete(is, jb, c, FALSE).job /\ UNCHANGED is
         ELSE is' = CommandQueue(is, jb, c) /\ job' = jb
      /\ parser' = parser /\ ran' = ran /\ job[j].at = "start"
  BY <1>2, <1>3, <1>4 DEF StartJob
<1>6. /\ job[j] \in JobStates /\ job[j].issued \in Nat /\ n \in Nat \ {0}
      /\ c \in JobCommands /\ c.job = j /\ c.part = n
  BY <1>1, <1>2, NextCommandIs
<1>7. /\ next \in JobMaps /\ \A k \in Jobs \cup Async : k # j => next[k] = job[k]
      /\ next[j] = [job[j] EXCEPT !.issued = @ + 1, !.commands = @ + 1]
  <2>1. IssuesOne(job, next, j)
    BY <1>1, <1>3, WithNextIs
  <2>2. QED  BY <2>1 DEF IssuesOne
<1>8. PICK a \in Places : a = at
  BY <1>2 DEF Places
<1>9. /\ jb \in JobMaps /\ \A k \in Jobs \cup Async : k # j => jb[k] = next[k]
      /\ jb[j].at = a /\ jb[j].folder = next[j].folder /\ jb[j].issued = next[j].issued
      /\ jb[j].commands = next[j].commands /\ jb[j].error = next[j].error /\ jb[j].replies = next[j].replies
  <2>1. jb = Moved(next, j, a)
    BY <1>4, <1>8 DEF Moved
  <2>2. next \in JobMaps
    BY <1>7
  <2>3. QED  BY <1>1, <2>1, <2>2, MovedJob
<1>10. /\ jb[j].issued = job[j].issued + 1 /\ jb[j].commands = job[j].commands + 1
       /\ jb[j].error = job[j].error /\ jb[j].replies = job[j].replies
  BY <1>6, <1>7, <1>9 DEF JobStates
<1>11. \A k \in Jobs \cup Async : k # j => jb[k] = job[k]
  BY <1>7, <1>9
<1>12. j \notin Async /\ JobKind(j) = Kind[j]
  BY CallersJob
<1>13. PICK O \in SUBSET JobCommands : O = Outstanding(is, parser.ic)
  BY OutstandingIs
<1>14. PICK j0, R : j0 = job /\ R = ran
  OBVIOUS
<1>15. Served(j0, O, R)
  BY <1>13, <1>14 DEF AnswerInv
<1>16. CASE Reading
  <2>1. Connected(is, job, parser.ic, parser.ok, server.waiting, server.selected)
    BY <1>16 DEF StreamInv, Steady
  <2>2. ASSUME NEW x \in Range(is.queue) \cup Range(is.active) \cup {parser.ic}, x.op = "JOB"
        PROVE  /\ jb[x.job].folder \in {job[x.job].folder, NULL}
               /\ job[x.job].issued <= jb[x.job].issued
               /\ job[x.job].issued \in Nat /\ jb[x.job].issued \in Nat /\ x.part \in Nat
               /\ x.job \in Async => jb[x.job].at = job[x.job].at
    <3>1. x.job \in Jobs \cup Async /\ x.part \in Nat /\ job[x.job].issued \in Nat
      BY <1>1, <2>2, TheirJobs
    <3>2. next[j].folder = job[j].folder
      BY <1>6, <1>7 DEF JobStates
    <3>3. CASE x.job = j
      BY <1>2, <1>6, <1>9, <1>10, <1>12, <3>1, <3>2, <3>3
    <3>4. CASE x.job # j
      BY <1>11, <3>1, <3>4
    <3>5. QED  BY <3>3, <3>4
  <2>3. Connected(is, jb, parser.ic, parser.ok, server.waiting, server.selected)
    BY <1>1, <1>9, <2>1, <2>2, JobsKeep
  <2>4. c \notin Range(is.queue) \cup Range(is.active) \cup {parser.ic}
    <3>1. SUFFICES ASSUME c \in Range(is.queue) \cup Range(is.active) \cup {parser.ic}  PROVE FALSE
      OBVIOUS
    <3>2. c.op = "JOB"
      BY <1>6, CommandsDiffer
    <3>3. c.part <= job[j].issued
      BY <1>6, <2>1, <3>1, <3>2 DEF Connected, Fresh
    <3>4. QED  BY <1>2, <1>6, <3>3
  <2>5. c.part <= jb[c.job].issued /\ (c.job \in Async => jb[c.job].at = "wait" /\ c.part = 1)
    BY <1>2, <1>6, <1>10, <1>12
  <2>6. PICK t : t = CommandQueue(is, jb, c)
    OBVIOUS
  <2>7. Ours(t) = Ours(is) \cup {c}
    BY <1>1, <1>9, <1>6, <2>3, <2>4, <2>5, <2>6, QueueKeeps
  <2>8. is' = t /\ job' = jb
    <3>1. is.state # "SHUTDOWN"
      BY <2>1 DEF Connected
    <3>2. QED  BY <1>5, <2>6, <3>1
  <2>9. Outstanding(is', parser'.ic) = O \cup {c}
    BY <1>5, <1>13, <2>7, <2>8 DEF Outstanding
  <2>10. Served(jb, O \cup {c}, R)
    <3>1. j0 \in JobMaps /\ j0[j].at = "start" /\ c = Command(j, j0[j].issued + 1)
          /\ \A k \in Jobs \cup Async : k # j => jb[k] = j0[k]
      BY <1>1, <1>2, <1>5, <1>11, <1>14
    <3>2. /\ jb[j].issued = j0[j].issued + 1 /\ jb[j].commands = j0[j].commands + 1
          /\ jb[j].error = j0[j].error /\ jb[j].replies = j0[j].replies
          /\ jb[j].at = IF c.part < Starts(j) THEN "start" ELSE IF Kind[j] = "store" THEN "check" ELSE "wait"
      BY <1>2, <1>8, <1>9, <1>10, <1>14
    <3>3. QED  BY <1>6, <1>9, <1>15, <3>1, <3>2, QueueServed
  <2>11. AllIssued' /\ CompletedRan'
    <3>1. Reading'
      BY <1>5, <1>16 DEF Reading
    <3>2. CompletedRan'
      BY <1>5 DEF AnswerInv, CompletedRan
    <3>3. QED  BY <3>1, <3>2 DEF AllIssued
  <2>12. QED  BY <1>5, <1>14, <2>8, <2>9, <2>10, <2>11 DEF AnswerInv
<1>17. CASE ~Reading
  <2>1. Disconnected
    BY <1>17 DEF StreamInv, Steady
  <2>2. is' = is /\ job' = JobComplete(is, jb, c, FALSE).job
    BY <1>5, <2>1 DEF Disconnected
  <2>3. Kind[j] # "store"
    BY <1>5, <1>17 DEF AnswerInv, AllIssued
  <2>4. PICK P \in SUBSET JobCommands : P = Of(j, O)
    BY OfIs
  <2>5. PICK b \in JobStates : b = job[j]
    BY <1>6
  <2>6. Serving(j, b, P, R) /\ b.at = "start"
    BY <1>5, <1>14, <1>15, <2>4, <2>5 DEF Served
  <2>7. b.issued = 0 /\ b.commands = 0 /\ at = "wait"
    <3>1. b.issued = 0 /\ b.commands = 0
      BY <2>3, <2>6 DEF Serving, Placed
    <3>2. c.part = 1 /\ Starts(j) = 1
      BY <1>2, <1>6, <2>3, <2>5, <3>1 DEF Starts
    <3>3. QED  BY <1>2, <2>3, <3>1, <3>2
  <2>8. PICK ok \in BOOLEAN : ok = FALSE
    OBVIOUS
  <2>9. PICK r : r = JobComplete(is, jb, c, ok)
    OBVIOUS
  <2>10. PICK failed \in BOOLEAN : failed /\ r.job = Finish(jb, j, 1, failed)
    <3>1. \/ /\ JobKind(c.job) = "steps" /\ ok /\ jb[c.job].issued < PartsOf(c.job)
             /\ is.state # "SHUTDOWN"
             /\ r.job \in JobMaps
             /\ \A k \in Jobs \cup Async : k # c.job => r.job[k] = jb[k]
             /\ r.job[c.job] = [jb[c.job] EXCEPT !.issued = @ + 1]
             /\ r.is = CommandQueue(is, r.job, Command(c.job, jb[c.job].issued + 1))
          \/ \E failed \in BOOLEAN :
               /\ r.is = is /\ r.job = Finish(jb, c.job, 1, failed)
               /\ ~ok => failed
               /\ ~failed => JobKind(c.job) # "steps" \/ ~(jb[c.job].issued < PartsOf(c.job))
      BY <1>1, <1>6, <1>9, <2>9, JobCompleteIs
    <3>2. QED  BY <1>6, <2>8, <3>1
  <2>11. PICK m \in Int : m = 1
    OBVIOUS
  <2>12. PICK jb2 \in JobMaps :
           /\ jb2 = Finish(jb, j, m, failed)
           /\ \A k \in Jobs \cup Async : k # j => jb2[k] = jb[k]
           /\ jb[j].commands # m \/ j \notin Async =>
                /\ jb2[j].at = jb[j].at /\ jb2[j].issued = jb[j].issued
                /\ jb2[j].commands = jb[j].commands - m
                /\ jb2[j].error <=> jb[j].error \/ failed
                /\ jb2[j].replies = IF jb[j].commands = m THEN jb[j].replies + 1 ELSE jb[j].replies
    BY <1>1, <1>9, FinishIs
  <2>13. job' = jb2
    BY <2>2, <2>8, <2>9, <2>10, <2>11, <2>12
  <2>14. PICK b2 \in JobStates : b2 = jb2[j]
    BY <1>1 DEF JobMaps
  <2>15. /\ b2.at = "wait" /\ b2.issued = b.issued + 1 /\ b2.commands = b.commands /\ b2.error
         /\ b2.replies = b.replies + 1
    <3>1. jb[j].commands = m
      BY <1>10, <2>5, <2>7, <2>11
    <3>2. b2.error <=> jb[j].error \/ failed
      BY <1>12, <2>12, <2>14, Zenon
    <3>3. b2.error
      BY <2>10, <3>2, Zenon
    <3>4. /\ b2.at = jb[j].at /\ b2.issued = jb[j].issued /\ b2.commands = jb[j].commands - 1
          /\ b2.replies = jb[j].replies + 1
      BY <1>12, <2>11, <2>12, <2>14, <3>1
    <3>5. jb[j].at = "wait"
      BY <1>8, <1>9, <2>7
    <3>6. QED  BY <1>10, <2>5, <2>7, <3>3, <3>4, <3>5
  <2>16. Serving(j, b2, P, R)
    BY <2>3, <2>6, <2>15, LateServing
  <2>17. \A k \in Jobs \cup Async : k # j => job'[k] = job[k]
    BY <1>11, <2>12, <2>13
  <2>18. QED  BY <1>5, <1>13, <1>14, <2>2, <2>4, <2>13, <2>14, <2>15, <2>16, <2>17, OneAnswers
<1>18. QED  BY <1>16, <1>17

\* A job's command is completed,
LEMMA CompleteJobServed ==
  ASSUME NEW s \in Servers, NEW jb \in JobMaps, NEW c \in JobCommands, NEW ok \in BOOLEAN, NEW w, NEW sel,
         Connected(s, jb, c, ok, w, sel), NEW R,
         NEW O \in SUBSET JobCommands, O = Outstanding(s, c), Served(jb, O, R), Waiting(jb, O),
         ok /\ c.job \in Jobs => c \in R, NEW r, r = JobComplete(s, jb, c, ok)
  PROVE  Served(r.job, Ours(r.is), R)
<1>1. PICK j \in Jobs \cup Async : j = c.job
  BY CommandsDiffer
<1>2. c \notin Ours(s)
  BY DEF Connected, Apart, Ours
<1>3. Ours(s) = O \ {c}
  BY <1>2, OutstandingIs
<1>4. c \in O
  BY OutstandingIs
<1>5. j \in Jobs => jb[j].at = "wait"
  <2>1. c \in Of(j, O)
    BY <1>1, <1>4 DEF Of
  <2>2. QED  BY <2>1 DEF Waiting
<1>6. \/ /\ JobKind(c.job) = "steps" /\ ok /\ jb[c.job].issued < PartsOf(c.job)
         /\ s.state # "SHUTDOWN"
         /\ r.job \in JobMaps
         /\ \A k \in Jobs \cup Async : k # c.job => r.job[k] = jb[k]
         /\ r.job[c.job] = [jb[c.job] EXCEPT !.issued = @ + 1]
         /\ r.is = CommandQueue(s, r.job, Command(c.job, jb[c.job].issued + 1))
      \/ \E failed \in BOOLEAN :
           /\ r.is = s /\ r.job = Finish(jb, c.job, 1, failed)
           /\ ~ok => failed
           /\ ~failed => JobKind(c.job) # "steps" \/ ~(jb[c.job].issued < PartsOf(c.job))
  BY JobCompleteIs
<1>7. ASSUME /\ JobKind(j) = "steps" /\ ok /\ jb[j].issued < PartsOf(j)
             /\ r.job \in JobMaps
             /\ \A k \in Jobs \cup Async : k # j => r.job[k] = jb[k]
             /\ r.job[j] = [jb[j] EXCEPT !.issued = @ + 1]
             /\ r.is = CommandQueue(s, r.job, Command(j, jb[j].issued + 1))
      PROVE  Served(r.job, Ours(r.is), R)
  <2>1. PICK d : d = Command(j, jb[j].issued + 1)
    OBVIOUS
  <2>2. d \in JobCommands
    <3>1. jb[j].issued + 1 \in Nat \ {0}
      BY DEF JobMaps, JobStates
    <3>2. QED  BY <2>1, <3>1, CommandIs
  <2>3. Ours(r.is) = Ours(s) \cup {d}
    <3>1. /\ jb[j].issued < PartsOf(j)
          /\ r.job \in JobMaps
          /\ \A k \in Jobs \cup Async : k # j => r.job[k] = jb[k]
          /\ r.job[j] = [jb[j] EXCEPT !.issued = @ + 1]
          /\ r.is = CommandQueue(s, r.job, Command(j, jb[j].issued + 1))
      BY <1>7
    <3>2. /\ Connected(r.is, r.job, NoCommand, ok, w, sel)
          /\ Adds(s, r.is, Command(j, jb[j].issued + 1))
      BY <1>1, <3>1, NextStepKeeps
    <3>3. QED  BY <2>1, <3>2 DEF Adds
  <2>4. PICK jb2 \in JobMaps : jb2 = r.job
    BY <1>7
  <2>5. Issues(jb, jb2, j)
    BY <1>7, <2>4 DEF Issues
  <2>6. /\ j \in Jobs => jb[j].at = "wait" /\ c \in R
        /\ JobKind(j) = "steps" /\ jb[j].issued < PartsOf(j)
    BY <1>1, <1>5, <1>7
  <2>7. Served(jb2, (O \ {c}) \cup {d}, R)
    BY <1>1, <1>4, <2>1, <2>2, <2>5, <2>6, StepServed
  <2>8. QED  BY <1>3, <2>3, <2>4, <2>7
<1>8. ASSUME NEW failed \in BOOLEAN, r.is = s, r.job = Finish(jb, j, 1, failed), ~ok => failed,
             ~failed => JobKind(j) # "steps" \/ ~(jb[j].issued < PartsOf(j))
      PROVE  Served(r.job, Ours(r.is), R)
  <2>1. PICK jb2 : jb2 = Finish(jb, j, 1, failed)
    OBVIOUS
  <2>2. MayEnd(jb, c, failed, R)
    BY <1>1, <1>5, <1>8 DEF MayEnd
  <2>3. jb2 \in JobMaps /\ Served(jb2, O \ {c}, R) /\ SamePlaces(jb, jb2)
    BY <1>1, <1>4, <2>1, <2>2, FinishServed
  <2>4. QED  BY <1>3, <1>8, <2>1, <2>3
<1>9. QED  BY <1>1, <1>6, <1>7, <1>8

\* or it fails because the connection is gone.
LEMMA FailServed ==
  ASSUME NEW s \in Servers, NEW jb \in JobMaps, NEW c \in JobCommands, NEW ok \in BOOLEAN, ~ok, NEW R,
         NEW O \in SUBSET JobCommands, c \in O, Served(jb, O, R), Waiting(jb, O),
         NEW r, r = JobComplete(s, jb, c, ok)
  PROVE  r.is = s /\ Served(r.job, O \ {c}, R) /\ SamePlaces(jb, r.job)
<1>1. PICK j \in Jobs \cup Async : j = c.job
  BY CommandsDiffer
<1>2. j \in Jobs => jb[j].at = "wait"
  <2>1. c \in Of(j, O)
    BY <1>1 DEF Of
  <2>2. QED  BY <2>1 DEF Waiting
<1>3. \/ /\ JobKind(c.job) = "steps" /\ ok /\ jb[c.job].issued < PartsOf(c.job)
         /\ s.state # "SHUTDOWN"
         /\ r.job \in JobMaps
         /\ \A k \in Jobs \cup Async : k # c.job => r.job[k] = jb[k]
         /\ r.job[c.job] = [jb[c.job] EXCEPT !.issued = @ + 1]
         /\ r.is = CommandQueue(s, r.job, Command(c.job, jb[c.job].issued + 1))
      \/ \E failed \in BOOLEAN :
           /\ r.is = s /\ r.job = Finish(jb, c.job, 1, failed)
           /\ ~ok => failed
           /\ ~failed => JobKind(c.job) # "steps" \/ ~(jb[c.job].issued < PartsOf(c.job))
  BY JobCompleteIs
<1>4. PICK failed \in BOOLEAN : r.is = s /\ r.job = Finish(jb, j, 1, failed) /\ failed
  BY <1>1, <1>3
<1>5. PICK jb2 : jb2 = Finish(jb, j, 1, failed)
  OBVIOUS
<1>6. MayEnd(jb, c, failed, R)
  BY <1>1, <1>2, <1>4 DEF MayEnd
<1>7. jb2 \in JobMaps /\ Served(jb2, O \ {c}, R) /\ SamePlaces(jb, jb2)
  BY <1>1, <1>5, <1>6, FinishServed
<1>8. QED  BY <1>4, <1>5, <1>7

\* The parser thread completes the command in its hands, while no job issues several.
LEMMA CompleteAnswers ==
  ASSUME TypeOK, TypeOK', StreamInv, is.state # "CRASHED", AnswerInv, "earlyAnswer" \notin Faults,
         CompleteCommand
  PROVE  AnswerInv'
<1>1. PICK c \in Commands : c = parser.ic
  <2>1. parser.ic # NoCommand
    BY DEF CompleteCommand, StreamInv, Completing
  <2>2. QED  BY <2>1 DEF TypeOK
<1>2. /\ is \in Servers /\ job \in JobMaps
      /\ Connected(is, job, c, parser.ok, server.waiting, server.selected)
  <2>1. Reading
    BY DEF Reading, CompleteCommand
  <2>2. QED  BY <1>1, <2>1 DEF StreamInv, Steady, TypeOK
<1>3. parser' = [parser EXCEPT !.at = "next", !.ic = NoCommand, !.ok = TRUE] /\ ran' = ran
  BY DEF CompleteCommand
<1>4. Reading' /\ parser'.ic = NoCommand
  BY <1>3 DEF Reading, TypeOK
<1>5. PICK O \in SUBSET JobCommands : O = Outstanding(is, c)
  BY OutstandingIs
<1>6. PICK jb \in JobMaps, R \in {ran} : jb = job /\ R = ran
  BY <1>2
<1>7. Served(jb, O, R)
  BY <1>1, <1>5, <1>6 DEF AnswerInv
<1>8. Waiting(jb, O)
  <2>1. Half = {}
    BY DEF CompleteCommand
  <2>2. \A j \in Jobs : Kind[j] = "store" /\ jb[j].at \in {"start", "check"} => ~(jb[j].issued > 0)
    <3>1. SUFFICES ASSUME NEW j \in Jobs, Kind[j] = "store", jb[j].at \in {"start", "check"}, jb[j].issued > 0
                   PROVE  FALSE
      OBVIOUS
    <3>2. j \in Half
      BY <1>6, <3>1 DEF Half
    <3>3. QED  BY <2>1, <3>2
  <2>3. QED  BY <1>7, <2>2, JobsWait
<1>9. SUFFICES Served(job', Ours(is'), R)
  <2>1. AllIssued'
    BY <1>4 DEF AllIssued
  <2>2. QED  BY <1>3, <1>4, <1>6, <1>9, <2>1, EmptyHands
<1>10. c \notin JobCommands => O = Ours(is)
  BY <1>5, OutstandingIs
<1>11. ASSUME c.op = "JOB", is' = JobComplete(is, job, c, parser.ok).is,
              job' = JobComplete(is, job, c, parser.ok).job
       PROVE  Served(job', Ours(is'), R)
  <2>1. c \in JobCommands
    BY <1>11, CommandsDiffer
  <2>2. PICK ok \in BOOLEAN : ok = parser.ok
    BY DEF TypeOK
  <2>3. PICK r : r = JobComplete(is, jb, c, ok)
    OBVIOUS
  <2>4. PICK w, sel : w = server.waiting /\ sel = server.selected
    OBVIOUS
  <2>5. Connected(is, jb, c, ok, w, sel)
    BY <1>2, <1>6, <2>2, <2>4
  <2>6. ok /\ c.job \in Jobs => c \in R
    BY <1>1, <1>6, <2>1, <2>2 DEF AnswerInv, CompletedRan
  <2>7. Served(r.job, Ours(r.is), R)
    BY <1>2, <1>5, <1>7, <1>8, <2>1, <2>3, <2>5, <2>6, CompleteJobServed
  <2>8. is' = r.is /\ job' = r.job
    BY <1>6, <1>11, <2>2, <2>3
  <2>9. QED  BY <2>7, <2>8
<1>12. ASSUME c.op = "SELECT", NEW grown, parser.ok,
              is' = SelectOk(is, job, grown).is, job' = SelectOk(is, job, grown).job
       PROVE  Served(job', Ours(is'), R)
  <2>1. server.selected = is.select_pending
    BY <1>2, <1>12, SelectInHand
  <2>2. PICK r : r = SelectOk(is, job, grown)
    OBVIOUS
  <2>3. PICK ok2 : ok2 = parser.ok
    OBVIOUS
  <2>4. Connected(r.is, r.job, NoCommand, ok2, server.waiting, server.selected) /\ SameForCallers(is, job, r)
    BY <1>2, <1>12, <2>1, <2>2, SelectOkKeeps
  <2>5. c \notin JobCommands
    BY <1>12, CommandsDiffer
  <2>6. PICK jb2, O2 : jb2 = r.job /\ O2 = Ours(r.is)
    OBVIOUS
  <2>7. O2 \in SUBSET JobCommands
    BY <2>6, OutstandingIs
  <2>8. /\ \A j \in Jobs : jb2[j] = jb[j]
        /\ \A x \in JobCommands : x.job \in Jobs => (x \in O2 <=> x \in O)
    BY <1>6, <1>10, <2>4, <2>5, <2>6 DEF SameForCallers
  <2>9. Served(jb2, O2, R)
    BY <1>7, <2>7, <2>8, SameServed
  <2>10. QED  BY <1>12, <2>2, <2>6, <2>9
<1>13. ASSUME c.op = "SELECT", ~parser.ok,
              is' = SelectFailed(is, job, FALSE).is, job' = SelectFailed(is, job, FALSE).job
       PROVE  Served(job', Ours(is'), R)
  <2>1. c \notin JobCommands
    BY <1>13, CommandsDiffer
  <2>2. PICK byError : byError = FALSE
    OBVIOUS
  <2>3. PICK r : r = SelectFailed(is, jb, byError)
    OBVIOUS
  <2>4. QueuedOnce(is)
    BY <1>2 DEF Connected, Apart, QueuedOnce
  <2>5. Served(jb, Ours(is), R) /\ Waiting(jb, Ours(is))
    BY <1>7, <1>8, <1>10, <2>1
  <2>6. Served(r.job, Ours(r.is), R)
    BY <1>2, <2>3, <2>4, <2>5, SelectFailedServed
  <2>7. is' = r.is /\ job' = r.job
    BY <1>6, <1>13, <2>2, <2>3
  <2>8. QED  BY <2>6, <2>7
<1>14. ASSUME c.op = "IDLE", is' = [is EXCEPT !.idle = "OFF"], job' = job
       PROVE  Served(job', Ours(is'), R)
  <2>1. c \notin JobCommands
    BY <1>14, CommandsDiffer
  <2>2. is'.queue = is.queue /\ is'.active = is.active
    BY <1>2, <1>14 DEF Servers
  <2>3. Ours(is') = O
    BY <1>10, <2>1, <2>2 DEF Ours
  <2>4. QED  BY <1>6, <1>7, <1>14, <2>3
<1>15. \/ /\ c.op = "JOB"
          /\ \E r \in {JobComplete(is, job, c, parser.ok)} : is' = r.is /\ job' = r.job
       \/ /\ c.op = "SELECT"
          /\ \E grown : \E r \in {IF parser.ok THEN SelectOk(is, job, grown)
                                  ELSE SelectFailed(is, job, FALSE)} : is' = r.is /\ job' = r.job
       \/ c.op = "IDLE" /\ is' = [is EXCEPT !.idle = "OFF"] /\ job' = job
  BY <1>1, Zenon DEF CompleteCommand
<1>16. CASE c.op = "JOB" /\ \E r \in {JobComplete(is, job, c, parser.ok)} : is' = r.is /\ job' = r.job
  BY <1>11, <1>16
<1>17. CASE /\ c.op = "SELECT"
            /\ \E grown : \E r \in {IF parser.ok THEN SelectOk(is, job, grown)
                                    ELSE SelectFailed(is, job, FALSE)} : is' = r.is /\ job' = r.job
  BY <1>12, <1>13, <1>17
<1>18. CASE c.op = "IDLE" /\ is' = [is EXCEPT !.idle = "OFF"] /\ job' = job
  BY <1>14, <1>18
<1>19. QED  BY <1>15, <1>16, <1>17, <1>18

\* It starts the next commands.
LEMMA StartNextAnswers ==
  ASSUME TypeOK, TypeOK', StreamInv, is.state # "CRASHED", AnswerInv, StartNextCommand
  PROVE  AnswerInv'
<1>1. parser.at = "next" /\ parser' = [parser EXCEPT !.at = "read"] /\ job' = job /\ ran' = ran
  BY DEF StartNextCommand
<1>2. Reading /\ parser.ic = NoCommand
  BY <1>1 DEF Reading, StreamInv, Completing
<1>3. /\ is \in Servers /\ job \in JobMaps
      /\ Connected(is, job, NoCommand, parser.ok, server.waiting, server.selected)
  BY <1>2 DEF StreamInv, Steady, TypeOK
<1>4. PICK t : t = CommandStartNext(is, job)
  OBVIOUS
<1>5. Ours(t) = Ours(is)
  <2>1. NoCommand # Idle
    BY CommandsDiffer DEF Commands
  <2>2. QED  BY <1>3, <1>4, <2>1, StartNextKeeps
<1>6. is' = t /\ parser'.ic = parser.ic /\ parser'.ok = parser.ok /\ parser'.at = "read"
  BY <1>1, <1>4 DEF StartNextCommand, TypeOK
<1>7. Reading'
  BY <1>6 DEF Reading
<1>8. Ours(is') = Ours(is)
  BY <1>5, <1>6
<1>9. QED  BY <1>1, <1>6, <1>7, <1>8, StillAnswers

\* The parser thread leaves its loop, when no job is issuing several commands.
LEMMA ConnectionLostAnswers ==
  ASSUME TypeOK, TypeOK', StreamInv, is.state # "CRASHED", AnswerInv, "earlyAnswer" \notin Faults,
         ConnectionLost
  PROVE  AnswerInv'
<1>1. is \in Servers /\ parser.ic = NoCommand
  BY WhileReading DEF ConnectionLost
<1>2. /\ is' = [is EXCEPT !.state = "SHUTDOWN"] /\ parser' = [parser EXCEPT !.at = "cancelActive"]
      /\ job' = job /\ ran' = ran
      /\ \A j \in Jobs : Kind[j] = "store" => job[j].at \notin {"start", "check"}
  BY DEF ConnectionLost
<1>3. is'.queue = is.queue /\ is'.active = is.active
  BY <1>1, <1>2 DEF Servers
<1>4. Ours(is') = Ours(is) /\ Outstanding(is, parser.ic) = Ours(is)
  BY <1>1, <1>3, OutstandingIs DEF Ours
<1>5. parser'.ic = NoCommand
  BY <1>1, <1>2 DEF TypeOK
<1>6. Served(job', Ours(is'), ran')
  BY <1>2, <1>4 DEF AnswerInv
<1>7. AllIssued'
  BY <1>2 DEF AllIssued
<1>8. QED  BY <1>5, <1>6, <1>7, EmptyHands

\* One more command is cancelled, when no job is issuing commands any more.
LEMMA CancelAnswers ==
  ASSUME TypeOK, TypeOK', StreamInv, is.state # "CRASHED", AnswerInv, CancelActive \/ CancelQueue
  PROVE  AnswerInv'
<1>1. is \in Servers /\ job \in JobMaps /\ Disconnected /\ parser.ic = NoCommand
  BY WhileCancelling DEF CancelActive, CancelQueue
<1>2. /\ is.queue \in Seq(JobCommands) /\ is.active \in Seq(Commands)
      /\ Range(is.queue) \subseteq JobCommands /\ Range(is.active) \subseteq Commands
      /\ IsInjective(is.queue) /\ IsInjective(is.active) /\ Range(is.queue) \cap Range(is.active) = {}
  BY <1>1, SequencesOf DEF Disconnected
<1>3. /\ parser' \in {parser, [parser EXCEPT !.at = "cancelQueue"], [parser EXCEPT !.at = "gone"]}
      /\ ran' = ran /\ ~Reading
  BY DEF CancelActive, CancelQueue, Reading
<1>4. parser'.ic = NoCommand
  BY <1>1, <1>3 DEF TypeOK
<1>5. PICK O \in SUBSET JobCommands : O = Ours(is) /\ O = Outstanding(is, parser.ic)
  BY <1>1, OutstandingIs
<1>6. PICK jb \in JobMaps, R \in {ran} : jb = job /\ R = ran
  BY <1>1
<1>7. Served(jb, O, R)
  BY <1>5, <1>6 DEF AnswerInv
<1>8. \A j \in Jobs : Kind[j] = "store" => jb[j].at \notin {"start", "check"}
  BY <1>3, <1>6 DEF AnswerInv, AllIssued
<1>9. Waiting(jb, O)
  BY <1>7, <1>8, JobsWait
<1>10. ASSUME Served(job', Ours(is'), R), SamePlaces(jb, job')
       PROVE  AnswerInv'
  <2>1. AllIssued'
    BY <1>8, <1>10 DEF AllIssued, SamePlaces
  <2>2. QED  BY <1>3, <1>4, <1>6, <1>10, <2>1, EmptyHands
<1>11. SamePlaces(jb, jb)
  BY DEF SamePlaces
<1>12. CASE is' = is /\ job' = job
  BY <1>5, <1>6, <1>7, <1>10, <1>11, <1>12
<1>13. CASE CancelActive /\ is.active # <<>>
  <2>1. PICK c, tl : c = Head(is.active) /\ tl = Tail(is.active)
    OBVIOUS
  <2>2. /\ c \in Commands /\ tl \in Seq(Commands) /\ Range(is.active) = {c} \cup Range(tl)
        /\ c \notin Range(tl)
    BY <1>2, <1>13, <2>1, TailIs
  <2>3. PICK s : s = [is EXCEPT !.active = tl]
    OBVIOUS
  <2>4. s \in Servers /\ s.active = tl /\ s.queue = is.queue
    BY <1>1, <2>2, <2>3 DEF Servers
  <2>5. c.op \in {"JOB", "IDLE"}
    <3>1. c.op # "SELECT"
      BY <1>1, <2>2 DEF Disconnected
    <3>2. c.op \in {"JOB", "SELECT", "IDLE"}
      BY <2>2, CommandsDiffer DEF Commands
    <3>3. QED  BY <3>1, <3>2
  <2>6. PICK r : /\ r = CASE c.op = "JOB"    -> JobComplete(s, job, c, FALSE)
                          [] c.op = "SELECT" -> SelectFailed(s, job, TRUE)
                          [] c.op = "IDLE"   -> [is |-> [s EXCEPT !.idle = "OFF"], job |-> job]
                 /\ is' = r.is /\ job' = r.job
    BY <1>13, <2>1, <2>3 DEF CancelActive
  <2>7. CASE c.op = "JOB"
    <3>1. r = JobComplete(s, jb, c, FALSE) /\ c \in JobCommands
      BY <1>6, <2>2, <2>6, <2>7, CommandsDiffer
    <3>2. PICK ok \in BOOLEAN : ok = FALSE
      OBVIOUS
    <3>3. r = JobComplete(s, jb, c, ok) /\ ~ok
      BY <3>1, <3>2
    <3>4. c \in O
      BY <1>5, <2>2, <3>1 DEF Ours
    <3>5. r.is = s /\ Served(r.job, O \ {c}, R) /\ SamePlaces(jb, r.job)
      <4>1. s \in Servers /\ c \in JobCommands
        BY <2>4, <3>1
      <4>2. QED  BY <1>7, <1>9, <3>3, <3>4, <4>1, FailServed
    <3>6. Ours(s) = O \ {c}
      BY <1>2, <1>5, <2>2, <2>4 DEF Ours
    <3>7. is' = r.is /\ job' = r.job
      BY <2>6
    <3>8. QED  BY <1>10, <3>5, <3>6, <3>7
  <2>8. CASE c.op = "IDLE"
    <3>1. r = [is |-> [s EXCEPT !.idle = "OFF"], job |-> job]
      BY <2>6, <2>8
    <3>2. is' = r.is /\ job' = r.job
      BY <2>6
    <3>3. is' = [s EXCEPT !.idle = "OFF"] /\ job' = job
      BY <3>1, <3>2
    <3>4. is'.active = tl /\ is'.queue = is.queue
      BY <2>4, <3>3 DEF Servers
    <3>5. c \notin JobCommands
      BY <2>8, CommandsDiffer
    <3>6. Ours(is') = O
      BY <1>5, <2>2, <3>4, <3>5 DEF Ours
    <3>7. QED  BY <1>6, <1>7, <1>10, <1>11, <3>3, <3>6
  <2>9. QED  BY <2>5, <2>7, <2>8
<1>14. CASE CancelQueue /\ is.queue # <<>>
  <2>1. PICK c, tl : c = Head(is.queue) /\ tl = Tail(is.queue)
    OBVIOUS
  <2>2. /\ c \in JobCommands /\ tl \in Seq(JobCommands) /\ Range(is.queue) = {c} \cup Range(tl)
        /\ c \notin Range(tl)
    BY <1>2, <1>14, <2>1, TailIs
  <2>3. job' = JobComplete(is, jb, c, FALSE).job /\ is' = [is EXCEPT !.queue = tl]
    BY <1>6, <1>14, <2>1 DEF CancelQueue
  <2>4. is'.active = is.active /\ is'.queue = tl
    BY <1>1, <2>3 DEF Servers
  <2>5. PICK ok \in BOOLEAN : ok = FALSE
    OBVIOUS
  <2>6. PICK r : r = JobComplete(is, jb, c, ok)
    OBVIOUS
  <2>7. c \in O /\ ~ok
    BY <1>5, <2>2, <2>5 DEF Ours
  <2>8. Served(r.job, O \ {c}, R) /\ SamePlaces(jb, r.job)
    BY <1>1, <1>7, <1>9, <2>2, <2>6, <2>7, FailServed
  <2>9. job' = r.job
    BY <2>3, <2>5, <2>6
  <2>10. Ours(is') = O \ {c}
    BY <1>2, <1>5, <2>2, <2>4 DEF Ours
  <2>11. QED  BY <1>10, <2>8, <2>9, <2>10
<1>15. QED  BY <1>12, <1>13, <1>14 DEF CancelActive, CancelQueue

\* What the idle thread does is nothing to the callers.
LEMMA IdlerAnswers ==
  ASSUME TypeOK, TypeOK', StreamInv, is.state # "CRASHED", AnswerInv, Idler
  PROVE  AnswerInv'
<1>1. is \in Servers /\ job \in JobMaps /\ parser.ic \in Commands \cup {NoCommand}
  BY DEF TypeOK
<1>2. parser' = parser /\ ran' = ran
  BY DEF Idler, IdleWake, IdleCheck, IdleIssue, IdleReply, IdleFetch
<1>3. Reading' <=> Reading
  BY <1>2 DEF Reading
<1>4. ASSUME job' = job, is'.queue = is.queue, Range(is'.active) \ {Idle} = Range(is.active) \ {Idle}
      PROVE  AnswerInv'
  <2>1. Idle \notin JobCommands
    BY CommandsDiffer
  <2>2. Ours(is') = Ours(is)
    BY <1>4, <2>1 DEF Ours
  <2>3. QED  BY <1>2, <1>3, <1>4, <2>2, StillAnswers
<1>5. CASE IdleWake \/ IdleCheck \/ IdleReply
  <2>1. job' = job /\ (is' = is \/ is' = [is EXCEPT !.watch = FALSE])
    BY <1>5 DEF IdleWake, IdleCheck, IdleReply
  <2>2. is'.queue = is.queue /\ is'.active = is.active
    BY <1>1, <2>1 DEF Servers
  <2>3. QED  BY <1>4, <2>1, <2>2
<1>6. CASE IdleIssue
  <2>1. CASE is.idle = "PENDING"
    <3>1. PICK v : v = [is EXCEPT !.idle = "ISSUED"]
      OBVIOUS
    <3>2. PICK t : t = CommandStart(v, Idle)
      OBVIOUS
    <3>3. is' = t /\ job' = job
      BY <1>6, <2>1, <3>1, <3>2 DEF IdleIssue
    <3>4. v \in Servers /\ v.queue = is.queue /\ v.active = is.active
      BY <1>1, <3>1 DEF Servers
    <3>5. t.active = Append(v.active, Idle) /\ t.queue = v.queue
      <4>1. Idle \in Commands
        BY DEF Commands
      <4>2. QED  BY <3>2, <3>4, <4>1, StartTypes
    <3>6. Range(t.active) = Range(is.active) \cup {Idle}
      <4>1. is.active \in Seq(Commands) /\ Idle \in Commands
        BY <1>1, SequencesOf DEF Commands
      <4>2. QED  BY <3>4, <3>5, <4>1, AppendIs
    <3>7. QED  BY <1>4, <3>3, <3>4, <3>5, <3>6
  <2>2. CASE is.idle # "PENDING"
    <3>1. is' = is /\ job' = job
      BY <1>6, <2>2 DEF IdleIssue
    <3>2. QED  BY <1>4, <3>1
  <2>3. QED  BY <2>1, <2>2
<1>7. CASE IdleFetch
  <2>1. PICK r : /\ r = CASE is.select_folder = NULL -> [is |-> [is EXCEPT !.state = "CRASHED"], job |-> job]
                          [] is.select_folder # NULL /\ Registers ->
                               FetchNewMessages(is, job, is.select_folder)
                          [] OTHER -> [is |-> is, job |-> job]
                 /\ is' = r.is /\ job' = r.job
    BY <1>7 DEF IdleFetch
  <2>2. CASE is.select_folder = NULL
    <3>1. r = [is |-> [is EXCEPT !.state = "CRASHED"], job |-> job]
      BY <2>1, <2>2
    <3>2. is' = [is EXCEPT !.state = "CRASHED"] /\ job' = job
      BY <2>1, <3>1
    <3>3. is'.queue = is.queue /\ is'.active = is.active
      BY <1>1, <3>2 DEF Servers
    <3>4. QED  BY <1>4, <3>2, <3>3
  <2>3. CASE is.select_folder # NULL /\ Registers
    <3>1. PICK f \in SomeFolder : f = is.select_folder
      BY <1>1 DEF Servers
    <3>2. r = FetchNewMessages(is, job, f)
      BY <2>1, <2>3, <3>1
    <3>3. Connected(is, job, parser.ic, parser.ok, server.waiting, server.selected)
      BY <2>3 DEF Registers, StreamInv, Steady, Disconnected
    <3>4. /\ r.is \in Servers /\ r.job \in JobMaps
          /\ Connected(r.is, r.job, parser.ic, parser.ok, server.waiting, server.selected)
          /\ is.select_pending # NULL => /\ r.is.select_pending = is.select_pending
                                         /\ r.is.select_folder = is.select_folder /\ r.is.state = is.state
          /\ SameForCallers(is, job, r)
      BY <1>1, <3>2, <3>3, FetchKeeps
    <3>5. r.is = is' /\ r.job = job'
      BY <2>1
    <3>6. QED  BY <1>2, <1>3, <3>4, <3>5, QuietAnswers
  <2>4. CASE is.select_folder # NULL /\ ~Registers
    <3>1. r = [is |-> is, job |-> job]
      BY <2>1, <2>4
    <3>2. is' = is /\ job' = job
      BY <2>1, <3>1
    <3>3. QED  BY <1>4, <3>2
  <2>5. QED  BY <2>2, <2>3, <2>4
<1>8. QED  BY <1>5, <1>6, <1>7 DEF Idler

\* No job has said anything at first,
LEMMA InitAnswer == Init => AnswerInv
<1> SUFFICES ASSUME Init  PROVE AnswerInv
  OBVIOUS
<1>1. parser.at = "read" /\ parser.ic = NoCommand /\ is.queue = <<>> /\ is.active = <<>>
  BY DEF Init
<1>2. Outstanding(is, parser.ic) = {}
  <2>1. Ours(is) = {}
    BY <1>1 DEF Ours, Range
  <2>2. QED  BY <1>1, <2>1, OutstandingIs
<1>3. ASSUME NEW j \in Jobs  PROVE Serving(j, job[j], Of(j, {}), ran)
  <2>1. PICK b : b = job[j]
    OBVIOUS
  <2>2. b.at = "new" /\ b.issued = 0 /\ b.commands = 0 /\ ~b.error /\ b.replies = 0
    BY <1>3, <2>1 DEF Init
  <2>3. Of(j, {}) = {} /\ IsFiniteSet({}) /\ Cardinality({}) = 0
    BY FS_EmptySet DEF Of
  <2>4. Parts[j] \in Nat \ {0}
    BY ImapxAssumption
  <2>5. Counted(j, b, {})
    BY <2>2, <2>3, <2>4 DEF Counted
  <2>6. Placed(j, b)
    BY <2>2 DEF Placed
  <2>7. CarriedOut(j, b, {}, ran)
    BY <2>2 DEF CarriedOut
  <2>8. QED  BY <2>1, <2>3, <2>5, <2>6, <2>7 DEF Serving
<1>4. Served(job, Outstanding(is, parser.ic), ran)
  BY <1>2, <1>3 DEF Served
<1>5. AllIssued
  BY <1>1 DEF AllIssued, Reading
<1>6. CompletedRan
  BY <1>1, CommandsDiffer DEF CompletedRan, Commands
<1>7. QED  BY <1>4, <1>5, <1>6 DEF AnswerInv

\* and every step keeps what the jobs say true.
LEMMA NextAnswer ==
  ASSUME TypeOK, TypeOK', StreamInv, AnswerInv, "earlyAnswer" \notin Faults, [Next]_vars
  PROVE  AnswerInv'
<1>1. CASE UNCHANGED vars
  <2>1. ran' = ran /\ job' = job /\ parser' = parser /\ is' = is
    BY <1>1 DEF vars
  <2>2. Reading' \/ ~Reading
    BY <2>1 DEF Reading
  <2>3. QED  BY <2>1, <2>2, StillAnswers
<1>2. CASE Next
  <2>1. is.state # "CRASHED"
    BY <1>2 DEF Next
  <2>2. CASE \E j \in Jobs : Submit(j) \/ Caller(j)
    BY <2>1, <2>2, StartJobAnswers, CallerAnswers DEF Caller
  <2>3. CASE ServerSpeaks \/ UntaggedClosed \/ UntaggedExists
    BY <2>1, <2>3, ReadingAnswers
  <2>4. CASE ConnectionLost
    BY <2>1, <2>4, ConnectionLostAnswers
  <2>5. CASE Parser
    BY <2>1, <2>5, CompleteAnswers, StartNextAnswers, CancelAnswers DEF Parser
  <2>6. CASE Idler
    BY <2>1, <2>6, IdlerAnswers
  <2>7. QED  BY <1>2, <2>2, <2>3, <2>4, <2>5, <2>6 DEF Next
<1>3. QED  BY <1>1, <1>2

\* A job's answer is right when the job says what is the case.
LEMMA AnswersRight == TypeOK /\ AnswerInv => AnsweredWhenDone
<1> SUFFICES ASSUME TypeOK, AnswerInv  PROVE AnsweredWhenDone
  OBVIOUS
<1>1. ASSUME NEW j \in Jobs
      PROVE  /\ job[j].replies <= 1
             /\ job[j].replies = 1 =>
                  /\ Pending(j) = {}
                  /\ job[j].at # "start"
                  /\ ~job[j].error => \A n \in 1..Parts[j] : Command(j, n) \in ran
  <2>1. is \in Servers /\ job \in JobMaps
    BY DEF TypeOK
  <2>2. PICK b \in JobStates : b = job[j]
    BY <2>1, CallersJob
  <2>3. PICK P \in SUBSET JobCommands : P = Of(j, Outstanding(is, parser.ic))
    BY OutstandingIs, OfIs
  <2>4. Serving(j, b, P, ran)
    BY <2>2, <2>3 DEF AnswerInv, Served
  <2>5. Counted(j, b, P) /\ Placed(j, b) /\ CarriedOut(j, b, P, ran)
    BY <2>4 DEF Serving
  <2>6. b.at \in Places /\ b.replies \in Nat
    BY FieldsOf
  <2>7. /\ b.replies \in {0, 1}
        /\ b.replies = 1 => b.at \in {"wait", "returned"} /\ b.commands = 0
    BY <2>5, <2>6 DEF Placed, Places
  <2>8. ASSUME b.replies = 1
        PROVE  /\ Pending(j) = {}
               /\ b.at # "start"
               /\ ~b.error => \A n \in 1..Parts[j] : Command(j, n) \in ran
    <3>1. P = {}
      BY <2>5, <2>7, <2>8, FS_EmptySet DEF Counted
    <3>2. ASSUME NEW c \in Pending(j)  PROVE FALSE
      <4>1. c \in Range(is.queue) \cup Range(is.active) \cup {parser.ic} /\ c.op = "JOB" /\ c.job = j
        BY <3>2 DEF Pending
      <4>2. c \in JobCommands
        BY <2>1, <4>1, TheirJobs DEF TypeOK
      <4>3. c \in Outstanding(is, parser.ic)
        BY <4>1, <4>2 DEF Outstanding, Ours
      <4>4. c \in P
        BY <2>3, <4>1, <4>3 DEF Of
      <4>5. QED  BY <3>1, <4>4
    <3>3. ASSUME ~b.error  PROVE \A n \in 1..Parts[j] : Command(j, n) \in ran
      <4>1. b.issued = Parts[j]
        BY <2>5, <2>7, <2>8, <3>3 DEF Placed
      <4>2. QED  BY <2>5, <3>1, <3>3, <4>1 DEF CarriedOut
    <3>4. QED  BY <2>7, <2>8, <3>2, <3>3
  <2>9. QED  BY <2>2, <2>7, <2>8
<1>2. QED  BY <1>1 DEF AnsweredWhenDone

\* A job is answered once, when no command of it is queued, sent or being completed,
\* and without an error only if the server has carried out all of them: in any order of
\* commands, folders and answers, and when the connection is lost, but not with a SELECT
\* under way or while a job is still issuing its commands.
THEOREM EachAnswered ==
  "selectLost" \notin Faults /\ "earlyAnswer" \notin Faults => (Spec => []AnsweredWhenDone)
<1> SUFFICES ASSUME "selectLost" \notin Faults, "earlyAnswer" \notin Faults
             PROVE  Spec => []AnsweredWhenDone
  OBVIOUS
<1>1. Init => TypeOK /\ StreamInv /\ AnswerInv
  BY InitTypes, InitStream, InitAnswer
<1>2. TypeOK /\ StreamInv /\ AnswerInv /\ [Next]_vars => (TypeOK /\ StreamInv /\ AnswerInv)'
  BY NextTypes, NextStream, NextAnswer
<1>3. TypeOK /\ StreamInv /\ AnswerInv => AnsweredWhenDone
  BY AnswersRight
<1>4. QED  BY <1>1, <1>2, <1>3, PTL DEF Spec

-----------------------------------------------------------------------------
(* What becomes active is sent.                                            *)

\* What becomes active has been sent, and what has been sent is still on the stream.
Sends(s, t) ==
  /\ Range(s.stream) \subseteq Range(t.stream)
  /\ Range(t.active) \subseteq Range(s.active) \cup Range(t.stream)

\* Every active command is on the stream or waits for more.
AllSent(s, w) == Range(s.active) \subseteq Range(s.stream) \cup {w}

\* What is queued is preceded by something the server has to answer.
Moves(s) == s.queue # <<>> => s.stream # <<>>

\* One change after another sends what both send.
LEMMA SendsTransitive ==
  ASSUME NEW s, NEW t, NEW u, Sends(s, t), Sends(t, u)
  PROVE  Sends(s, u)
BY DEF Sends

\* Nothing is active that has not been sent, and the stream does not become empty.
LEMMA SendsKeeps ==
  ASSUME NEW s, NEW t, NEW w, Sends(s, t)
  PROVE  /\ AllSent(s, w) => AllSent(t, w)
         /\ s.stream # <<>> /\ s \in Servers => t.stream # <<>>
<1>1. AllSent(s, w) => AllSent(t, w)
  BY DEF Sends, AllSent
<1>2. ASSUME s.stream # <<>>, s \in Servers  PROVE t.stream # <<>>
  <2>1. s.stream \in Seq(Commands \cup {More})
    BY <1>2, SequencesOf
  <2>2. s.stream[1] \in Range(s.stream)
    BY <1>2, <2>1 DEF Range
  <2>3. Range(t.stream) # {}
    BY <2>2 DEF Sends
  <2>4. Range(<<>>) = {}
    BY DEF Range
  <2>5. QED  BY <2>3, <2>4
<1>3. QED  BY <1>1, <1>2

\* imapx_command_start for the commands at some positions,
LEMMA StartAllSends ==
  ASSUME NEW s \in Servers, NEW jb, NEW f, NEW pri, NEW strict,
         NEW S, S = Startable(s, jb, f, pri, strict)
  PROVE  /\ StartAll(s, S) \in Servers /\ Sends(s, StartAll(s, S))
         /\ S # {} => StartAll(s, S).stream # <<>>
<1>1. S \in SUBSET DOMAIN s.queue /\ \A i \in S : \A k \in S : k < i => ~Continues(s.queue[k])
  BY StartableIs
<1>2. PICK t : t = StartAll(s, S)
  OBVIOUS
<1>3. PICK go \in Seq(JobCommands) : Launches(s, t, go)
  BY <1>1, <1>2, StartAllIs
<1>4. SentOn(s, t, go)
  BY <1>3, LaunchServer
<1>5. /\ t \in Servers /\ t.active = s.active \o go /\ t.stream = s.stream \o go
  BY <1>4 DEF SentOn
<1>6. /\ go \in Seq(Commands) /\ go \in Seq(Commands \cup {More})
      /\ s.active \in Seq(Commands) /\ s.stream \in Seq(Commands \cup {More})
  BY JobsSent, SequencesOf
<1>7. Range(t.active) = Range(s.active) \cup Range(go)
  BY <1>5, <1>6, ConcatIs
<1>8. Range(t.stream) = Range(s.stream) \cup Range(go)
  BY <1>5, <1>6, ConcatIs
<1>9. Sends(s, t)
  BY <1>7, <1>8 DEF Sends
<1>10. ASSUME S # {}  PROVE t.stream # <<>>
  <2>1. PICK i \in S : i \in DOMAIN s.queue
    BY <1>1, <1>10
  <2>2. DOMAIN s.queue = 1..Len(s.queue) /\ Len(s.queue) \in Nat /\ s.queue \in Seq(JobCommands)
    BY DEF Servers
  <2>3. s.queue[i] \in Range(Keep(s.queue, S))
    BY <1>1, <2>2, KeepIs
  <2>4. t.active = s.active \o Keep(s.queue, S) /\ t.stream = s.stream \o Keep(s.queue, S)
    BY <1>2 DEF StartAll, Servers
  <2>5. Keep(s.queue, S) \in Seq(JobCommands)
    BY <1>1, <2>2, KeepIs
  <2>6. Keep(s.queue, S) \in Seq(Commands \cup {More})
    BY <2>5, JobsSent
  <2>7. Range(t.stream) = Range(s.stream) \cup Range(Keep(s.queue, S))
    BY <1>6, <2>4, <2>6, ConcatIs
  <2>8. Range(<<>>) = {}
    BY DEF Range
  <2>9. QED  BY <2>3, <2>7, <2>8
<1>11. QED  BY <1>2, <1>5, <1>9, <1>10

\* for one command,
LEMMA StartSends ==
  ASSUME NEW s \in Servers, NEW c \in Commands
  PROVE  Sends(s, CommandStart(s, c)) /\ CommandStart(s, c).stream # <<>>
<1>1. PICK t : t = CommandStart(s, c)
  OBVIOUS
<1>2. t.active = Append(s.active, c) /\ t.stream = Append(s.stream, c)
  BY <1>1, StartTypes
<1>3. s.active \in Seq(Commands) /\ s.stream \in Seq(Commands \cup {More}) /\ c \in Commands \cup {More}
  BY SequencesOf
<1>4. Range(t.active) = Range(s.active) \cup {c}
  BY <1>2, <1>3, AppendIs
<1>5. Range(t.stream) = Range(s.stream) \cup {c}
  BY <1>2, <1>3, AppendIs
<1>6. t.stream # <<>>
  BY <1>5 DEF Range
<1>7. QED  BY <1>1, <1>4, <1>5, <1>6 DEF Sends

\* imapx_stop_idle,
LEMMA StopIdleSends ==
  ASSUME NEW s \in Servers
  PROVE  /\ StopIdle(s) \in Servers /\ Sends(s, StopIdle(s))
         /\ StopIdle(s).queue = s.queue
         /\ s.idle = "STARTED" => StopIdle(s).stream # <<>>
<1>1. PICK t, st : t = StopIdle(s) /\ st = Append(s.stream, More)
  OBVIOUS
<1>2. st \in Seq(Commands \cup {More}) /\ Range(st) = Range(s.stream) \cup {More}
  <2>1. s.stream \in Seq(Commands \cup {More})
    BY SequencesOf
  <2>2. QED  BY <1>1, <2>1, AppendIs, AppendProperties
<1>3. t \in Servers
  BY <1>1, StopIdleTypes
<1>4. CASE s.idle = "STARTED"
  <2>1. t = [s EXCEPT !.idle = "OFF", !.stream = st]
    BY <1>1, <1>4 DEF StopIdle
  <2>2. t.queue = s.queue /\ t.active = s.active /\ t.stream = st
    BY <2>1 DEF Servers
  <2>3. st # <<>>
    BY <1>2 DEF Range
  <2>4. QED  BY <1>1, <1>2, <1>3, <2>2, <2>3 DEF Sends
<1>5. CASE s.idle # "STARTED"
  <2>1. t.queue = s.queue /\ t.active = s.active /\ t.stream = s.stream
    BY <1>1, <1>5 DEF StopIdle, Servers
  <2>2. QED  BY <1>1, <1>3, <1>5, <2>1 DEF Sends
<1>6. QED  BY <1>4, <1>5

\* imapx_select,
LEMMA SelectSends ==
  ASSUME NEW s \in Servers, NEW jb \in JobMaps, s.queue # <<>>,
         NEW g, g = SelectOf(s.queue[1], jb), g # NULL
  PROVE  /\ Sends(s, SelectFolder(s, g))
         /\ s.select_pending = NULL /\ s.select_folder # g /\ s.active = <<>>
              => SelectFolder(s, g).stream # <<>>
<1>1. s.queue[1] \in JobCommands
  BY SequencesOf
<1>2. g \in Folders
  BY <1>1, SelectOfIs DEF SomeFolder
<1>3. PICK v : v = [s EXCEPT !.select_pending = g,
                            !.select_folder = IF @ = NULL THEN g ELSE NULL,
                            !.state = "INITIALISED"]
  OBVIOUS
<1>4. v \in Servers /\ v.stream = s.stream /\ v.active = s.active
  BY <1>2, <1>3 DEF Servers, SomeFolder
<1>5. Select(g) \in Commands
  BY <1>2 DEF Select, Commands, Selects
<1>6. PICK t : t = CommandStart(v, Select(g))
  OBVIOUS
<1>7. Sends(v, t) /\ t.stream # <<>>
  BY <1>4, <1>5, <1>6, StartSends
<1>8. Sends(s, t)
  BY <1>4, <1>7 DEF Sends
<1>9. SelectFolder(s, g) = IF s.select_pending # NULL \/ s.select_folder = g \/ s.active # <<>>
                           THEN s ELSE t
  BY <1>3, <1>6 DEF SelectFolder
<1>10. Sends(s, s)
  BY DEF Sends
<1>11. QED  BY <1>7, <1>8, <1>9, <1>10

\* the commands of the queue,
LEMMA StartQueuedSends ==
  ASSUME NEW s \in Servers, NEW jb \in JobMaps
  PROVE  Sends(s, StartQueued(s, jb))
<1> DEFINE f   == s.select_folder
           now == IF f = NULL THEN {} ELSE Startable(s, jb, f, ActivePri(s), TRUE)
           g   == SelectOf(s.queue[1], jb)
           one == Startable(s, jb, f, PriOf(s.queue[1]), FALSE)
<1> SUFFICES ASSUME NEW t, t = StartQueued(s, jb)  PROVE Sends(s, t)
  OBVIOUS
<1>1. t = IF s.queue = <<>> \/ (f # NULL /\ Len(s.active) > MAX_COMMANDS)
          THEN s
          ELSE IF now # {}
          THEN StartAll(s, now)
          ELSE IF g # NULL
          THEN SelectFolder(s, g)
          ELSE StartAll(s, one)
  BY DEF StartQueued
<1>2. \/ t = s
      \/ t = StartAll(s, now) /\ now # {}
      \/ t = SelectFolder(s, g) /\ g # NULL /\ s.queue # <<>>
      \/ t = StartAll(s, one)
  <2> HIDE DEF now, g, one, f
  <2>1. QED  BY <1>1
<1>3. CASE t = s
  BY <1>3 DEF Sends
<1>4. CASE t = StartAll(s, now) /\ now # {}
  <2>1. now = Startable(s, jb, f, ActivePri(s), TRUE)
    BY <1>4
  <2> HIDE DEF now
  <2>2. QED  BY <1>4, <2>1, StartAllSends
<1>5. CASE t = StartAll(s, one)
  BY <1>5, StartAllSends
<1>6. CASE t = SelectFolder(s, g) /\ g # NULL /\ s.queue # <<>>
  BY <1>6, SelectSends
<1>7. QED  BY <1>2, <1>3, <1>4, <1>5, <1>6

\* imapx_command_start_next,
LEMMA StartNextSends ==
  ASSUME NEW s \in Servers, NEW jb \in JobMaps
  PROVE  Sends(s, CommandStartNext(s, jb))
<1>1. Sends(s, StartFolderless(s, jb))
  <2>1. PICK f, pri : f = NULL /\ pri = -128
    OBVIOUS
  <2>2. Sends(s, StartAll(s, Startable(s, jb, f, pri, FALSE)))
    BY StartAllSends
  <2>3. QED  BY <2>1, <2>2 DEF StartFolderless
<1>2. StopIdle(s) \in Servers /\ Sends(s, StopIdle(s))
  BY StopIdleSends
<1>3. Sends(s, StartIdle(s)) /\ Sends(s, s)
  BY DEF Servers, StartIdle, Sends
<1>4. Sends(s, StartQueued(s, jb))
  BY StartQueuedSends
<1>5. Sends(s, StartQueued(StopIdle(s), jb))
  <2>1. PICK v : v = StopIdle(s)
    OBVIOUS
  <2>2. Sends(v, StartQueued(v, jb))
    BY <1>2, <2>1, StartQueuedSends
  <2>3. QED  BY <1>2, <2>1, <2>2, SendsTransitive
<1>6. QED  BY <1>1, <1>2, <1>3, <1>4, <1>5 DEF CommandStartNext

\* imapx_command_queue,
LEMMA QueueSends ==
  ASSUME NEW s \in Servers, NEW jb \in JobMaps, NEW c \in JobCommands
  PROVE  Sends(s, CommandQueue(s, jb, c))
<1>1. PICK q : q = Enqueue(s.queue, c)
  OBVIOUS
<1>2. q \in Seq(JobCommands)
  BY <1>1, SequencesOf, EnqueueIs
<1>3. PICK v : v = [s EXCEPT !.queue = q]
  OBVIOUS
<1>4. v \in Servers /\ v.stream = s.stream /\ v.active = s.active
  BY <1>2, <1>3 DEF Servers
<1>5. Sends(v, CommandStartNext(v, jb))
  BY <1>4, StartNextSends
<1>6. CommandQueue(s, jb, c) = CommandStartNext(v, jb)
  BY <1>1, <1>3, QueueIs
<1>7. QED  BY <1>4, <1>5, <1>6 DEF Sends

-----------------------------------------------------------------------------
(* What is queued is sent in the end, or something before it is answered.  *)

\* The loop over the queue starts from -128, below every priority a job is given:
\* the least is IMAPX_PRIORITY_SYNC_MESSAGE, -120.
HighEnough == \A j \in Jobs : Pri[j] > -128

\* The priority of a queued command.
LEMMA PriorityIs ==
  ASSUME HighEnough, NEW c \in JobCommands
  PROVE  PriOf(c) \in Int /\ PriOf(c) >= -128
<1>1. c.op = "JOB" /\ c.job \in Jobs \cup Async
  BY CommandsDiffer
<1>2. CASE c.job \in Async
  BY <1>1, <1>2 DEF PriOf
<1>3. CASE c.job \notin Async
  <2>1. Pri[c.job] \in Int /\ Pri[c.job] > -128
    BY <1>1, <1>3, ImapxAssumption DEF HighEnough
  <2>2. QED  BY <1>1, <1>3, <2>1 DEF PriOf
<1>4. QED  BY <1>2, <1>3

\* The floor of the loop when no command is active.
LEMMA NoneActive ==
  ASSUME NEW s, s.active = <<>>
  PROVE  ActivePri(s) = -128
<1>1. Range(s.active) = {}
  BY DEF Range
<1>2. {-128} \cup {PriOf(c) : c \in {}} = {-128}
  OBVIOUS
<1>3. Max({-128}) = -128
  BY DEF Max
<1>4. QED  BY <1>1, <1>2, <1>3 DEF ActivePri

\* What the stream and the active commands say of one another while the
\* parser thread has no command in its hands.
OnLine(s, ok, w, sel) ==
  /\ Sent(s, w) /\ Wire(s, w) /\ Literal(s) /\ IdleState(s, NoCommand, w)
  /\ Selecting(s, NoCommand, ok, sel) /\ AllSent(s, w)

\* With nothing under way and no SELECT outstanding, something of the queue is
\* sent: its first command, or the SELECT for it.
LEMMA QueueStarts ==
  ASSUME NEW s \in Servers, NEW jb \in JobMaps, HighEnough,
         s.queue # <<>>, s.active = <<>>, s.select_pending = NULL
  PROVE  StartQueued(s, jb).stream # <<>>
<1> DEFINE f   == s.select_folder
           now == IF f = NULL THEN {} ELSE Startable(s, jb, f, ActivePri(s), TRUE)
           g   == SelectOf(s.queue[1], jb)
           one == Startable(s, jb, f, PriOf(s.queue[1]), FALSE)
<1> SUFFICES ASSUME NEW t, t = StartQueued(s, jb)  PROVE t.stream # <<>>
  OBVIOUS
<1>1. t = IF s.queue = <<>> \/ (f # NULL /\ Len(s.active) > MAX_COMMANDS)
          THEN s
          ELSE IF now # {}
          THEN StartAll(s, now)
          ELSE IF g # NULL
          THEN SelectFolder(s, g)
          ELSE StartAll(s, one)
  BY DEF StartQueued
<1>2. ~(Len(s.active) > MAX_COMMANDS)
  BY ImapxAssumption
<1>3. s.queue[1] \in JobCommands
  BY SequencesOf
<1>4. PriOf(s.queue[1]) \in Int /\ PriOf(s.queue[1]) >= -128
  BY <1>3, PriorityIs
<1>5. ActivePri(s) = -128
  BY NoneActive
<1>6. CASE now # {}
  <2>1. t = StartAll(s, now)
    <3> HIDE DEF now
    <3>1. QED  BY <1>1, <1>2, <1>6
  <2>2. now = Startable(s, jb, f, ActivePri(s), TRUE)
    BY <1>6
  <2> HIDE DEF now
  <2>3. QED  BY <1>6, <2>1, <2>2, StartAllSends
<1>7. ASSUME now = {}, f # NULL  PROVE g \notin {NULL, f}
  <2>1. PICK pri \in Int : pri = ActivePri(s)
    BY <1>5
  <2>2. ASSUME g \in {NULL, f}  PROVE 1 \in Startable(s, jb, f, pri, TRUE)
    BY <1>4, <1>5, <2>1, <2>2, FirstStarts
  <2>3. now = Startable(s, jb, f, pri, TRUE)
    BY <1>7, <2>1
  <2> HIDE DEF now
  <2>4. QED  BY <1>7, <2>2, <2>3
<1>8. CASE now = {} /\ g # NULL
  <2>1. t = SelectFolder(s, g)
    <3> HIDE DEF now, g, one
    <3>1. QED  BY <1>1, <1>2, <1>8
  <2>2. f # g
    <3> HIDE DEF now, g
    <3>1. QED  BY <1>7, <1>8
  <2>3. PICK h : h = g
    OBVIOUS
  <2>4. SelectFolder(s, h).stream # <<>>
    BY <1>8, <2>2, <2>3, SelectSends
  <2>5. QED  BY <2>1, <2>3, <2>4
<1>9. CASE now = {} /\ g = NULL
  <2>1. t = StartAll(s, one)
    <3> HIDE DEF now, g, one
    <3>1. QED  BY <1>1, <1>2, <1>9
  <2>2. PICK pri \in Int : pri = PriOf(s.queue[1])
    BY <1>4
  <2>3. 1 \in Startable(s, jb, f, pri, FALSE)
    <3>1. SelectOf(s.queue[1], jb) \in {NULL, f}
      BY <1>9
    <3>2. PriOf(s.queue[1]) \in Int /\ PriOf(s.queue[1]) >= pri
      BY <1>4, <2>2
    <3>3. QED  BY <3>1, <3>2, FirstStarts
  <2>4. PICK S : S = Startable(s, jb, f, pri, FALSE)
    OBVIOUS
  <2>5. StartAll(s, S).stream # <<>>
    BY <2>3, <2>4, StartAllSends
  <2>6. QED  BY <2>1, <2>2, <2>4, <2>5
<1>10. QED
  <2> HIDE DEF now, g
  <2>1. QED  BY <1>6, <1>8, <1>9

\* imapx_command_start_next leaves nothing queued behind an empty stream.
LEMMA StartNextMoves ==
  ASSUME NEW s \in Servers, NEW jb \in JobMaps, NEW ok, NEW w, NEW sel,
         OnLine(s, ok, w, sel), HighEnough, s.queue # <<>>
  PROVE  CommandStartNext(s, jb).stream # <<>>
<1>1. PICK t : t = CommandStartNext(s, jb)
  OBVIOUS
<1>2. Sends(s, t)
  BY <1>1, StartNextSends
<1>3. CASE s.stream # <<>>
  BY <1>1, <1>2, <1>3, SendsKeeps
<1>4. CASE s.stream = <<>>
  <2>1. /\ Sent(s, w) /\ Wire(s, w) /\ Literal(s) /\ IdleState(s, NoCommand, w)
        /\ Selecting(s, NoCommand, ok, sel) /\ AllSent(s, w)
    BY DEF OnLine
  <2>2. Range(s.stream) = {}
    BY <1>4 DEF Range
  <2>3. s.literal = NoCommand
    BY <2>1, <2>2 DEF Literal
  <2>4. NoCommand # Idle /\ \A f : NoCommand # Select(f)
    BY DEF NoCommand, Idle, Select
  <2>5. CASE w # NoCommand
    <3>1. s.idle = "STARTED"
      BY <1>4, <2>1, <2>5 DEF Wire
    <3>2. s.state = "SELECTED" /\ s.select_pending = NULL /\ IdleHasToStop(s)
      BY <2>1, <3>1 DEF IdleState, IdleHasToStop
    <3>3. t = StopIdle(s)
      BY <1>1, <2>3, <3>2 DEF CommandStartNext
    <3>4. QED  BY <1>1, <3>1, <3>3, StopIdleSends
  <2>6. CASE w = NoCommand
    <3>1. Range(s.active) = {}
      <4>1. NoCommand \notin Range(s.active)
        BY CommandsDiffer, SequencesOf
      <4>2. QED  BY <2>1, <2>2, <2>6, <4>1 DEF AllSent
    <3>2. s.active = <<>>
      <4>1. s.active \in Seq(Commands)
        BY SequencesOf
      <4>2. ASSUME s.active # <<>>  PROVE 1 \in DOMAIN s.active
        BY <4>1, <4>2
      <4>3. QED  BY <3>1, <4>2 DEF Range
    <3>3. s.select_pending = NULL
      BY <2>1, <2>4, <3>1 DEF Selecting
    <3>4. s.idle \in {"OFF", "PENDING"}
      <4>1. s.idle \in {"OFF", "PENDING", "ISSUED", "STARTED", "CANCEL"}
        BY DEF Servers
      <4>2. s.active # <<Idle>>
        BY <3>2
      <4>3. QED  BY <2>1, <2>4, <4>1, <4>2 DEF IdleState
    <3>5. ~IdleHasToStop(s)
      BY <3>4 DEF IdleHasToStop
    <3>6. PICK v : v = IF s.state = "SELECTED" /\ s.queue # <<>> THEN StopIdle(s) ELSE s
      OBVIOUS
    <3>7. t = StartQueued(v, jb)
      BY <1>1, <2>3, <3>3, <3>5, <3>6 DEF CommandStartNext
    <3>8. v = s \/ v = [s EXCEPT !.idle = "OFF"]
      BY <3>4, <3>6 DEF StopIdle
    <3>9. /\ v \in Servers /\ v.queue = s.queue /\ v.active = s.active
          /\ v.select_pending = s.select_pending
      BY <3>8 DEF Servers
    <3>10. StartQueued(v, jb).stream # <<>>
      BY <3>2, <3>3, <3>9, QueueStarts
    <3>11. QED  BY <1>1, <3>7, <3>10
  <2>7. QED  BY <2>5, <2>6
<1>5. QED  BY <1>3, <1>4

\* Nor does imapx_command_queue.
LEMMA QueueMoves ==
  ASSUME NEW s \in Servers, NEW jb \in JobMaps, NEW c \in JobCommands, NEW ok, NEW w, NEW sel,
         OnLine(s, ok, w, sel), HighEnough
  PROVE  CommandQueue(s, jb, c).stream # <<>>
<1>1. PICK q : q = Enqueue(s.queue, c)
  OBVIOUS
<1>2. q \in Seq(JobCommands) /\ c \in Range(q)
  BY <1>1, SequencesOf, EnqueueIs
<1>3. PICK v : v = [s EXCEPT !.queue = q]
  OBVIOUS
<1>4. /\ v \in Servers /\ v.queue = q /\ v.active = s.active /\ v.stream = s.stream /\ v.literal = s.literal
      /\ v.select_folder = s.select_folder /\ v.select_pending = s.select_pending /\ v.state = s.state
      /\ v.idle = s.idle
  BY <1>2, <1>3 DEF Servers
<1>5. q # <<>>
  BY <1>2 DEF Range
<1>6. Sent(v, w) /\ Wire(v, w) /\ Literal(v) /\ AllSent(v, w)
  BY <1>4 DEF OnLine, Sent, Wire, Literal, AllSent
<1>7. IdleState(v, NoCommand, w) /\ Selecting(v, NoCommand, ok, sel)
  BY <1>4 DEF OnLine, IdleState, Selecting
<1>8. OnLine(v, ok, w, sel)
  BY <1>6, <1>7 DEF OnLine
<1>9. CommandStartNext(v, jb).stream # <<>>
  BY <1>4, <1>5, <1>8, StartNextMoves
<1>10. QED  BY <1>1, <1>3, <1>9, QueueIs

-----------------------------------------------------------------------------
(* Nobody is forgotten.                                                    *)

\* While the parser thread reads, what is active has been sent or waits for more, and
\* nothing is queued behind an empty stream when it waits for an answer; when it has
\* cancelled what was active no job has a command there, and in the end none is queued.
MoveInv ==
  is.state # "CRASHED" =>
    /\ Reading => AllSent(is, server.waiting)
    /\ parser.at = "read" => Moves(is)
    /\ parser.at \in {"cancelQueue", "gone"} => Range(is.active) \cap JobCommands = {}
    /\ parser.at = "gone" => is.queue = <<>>

\* An empty queue stays empty when commands are started.
LEMMA EmptyStays ==
  ASSUME NEW s \in Servers, NEW jb \in JobMaps, s.queue = <<>>
  PROVE  CommandStartNext(s, jb).queue = <<>>
<1>1. StartFolderless(s, jb).queue = <<>>
  <2>1. PICK S : S = Startable(s, jb, NULL, -128, FALSE)
    OBVIOUS
  <2>2. S \in SUBSET DOMAIN s.queue /\ \A i \in S : \A k \in S : k < i => ~Continues(s.queue[k])
    <3>1. PICK f, pri : f = NULL /\ pri = -128
      OBVIOUS
    <3>2. S = Startable(s, jb, f, pri, FALSE)
      BY <2>1, <3>1
    <3>3. QED  BY <3>2, StartableIs
  <2>3. PICK t : t = StartAll(s, S)
    OBVIOUS
  <2>4. PICK go \in Seq(JobCommands) : Launches(s, t, go)
    BY <2>2, <2>3, StartAllIs
  <2>5. t.queue \in Seq(JobCommands) /\ Range(s.queue) = Range(go) \cup Range(t.queue)
    BY <2>4, LaunchServer DEF SentOn
  <2>6. Range(t.queue) = {}
    <3>1. Range(s.queue) = {}
      BY DEF Range
    <3>2. QED  BY <2>5, <3>1
  <2>7. t.queue = <<>>
    <3>1. ASSUME t.queue # <<>>  PROVE 1 \in DOMAIN t.queue
      BY <2>5, <3>1
    <3>2. QED  BY <2>6, <3>1 DEF Range
  <2>8. QED  BY <2>1, <2>3, <2>7 DEF StartFolderless
<1>2. StopIdle(s).queue = <<>>
  BY StopIdleSends
<1>3. StartIdle(s).queue = <<>>
  BY DEF StartIdle, Servers
<1>4. StartQueued(s, jb) = s
  BY DEF StartQueued
<1>5. QED  BY <1>1, <1>2, <1>3, <1>4 DEF CommandStartNext

\* With no command in its hands the parser thread leaves the stream in motion.
LEMMA NextMovesOn ==
  ASSUME NEW s \in Servers, NEW jb \in JobMaps, NEW ok, NEW w, NEW sel,
         Connected(s, jb, NoCommand, ok, w, sel), AllSent(s, w), HighEnough,
         NEW t, t = CommandStartNext(s, jb)
  PROVE  AllSent(t, w) /\ Moves(t)
<1>1. AllSent(t, w)
  <2>1. Sends(s, t)
    BY StartNextSends
  <2>2. QED  BY <2>1, SendsKeeps
<1>2. CASE s.queue = <<>>
  BY <1>1, <1>2, EmptyStays DEF Moves
<1>3. CASE s.queue # <<>>
  <2>1. OnLine(s, ok, w, sel)
    BY DEF Connected, OnLine
  <2>2. t.stream # <<>>
    BY <1>3, <2>1, StartNextMoves
  <2>3. QED  BY <1>1, <2>2 DEF Moves
<1>4. QED  BY <1>2, <1>3

\* What the parser thread's progress leaves to be shown while it reads ...
LEMMA ReadingMoves ==
  ASSUME Reading', AllSent(is', server'.waiting), parser'.at = "read" => Moves(is')
  PROVE  MoveInv'
<1>1. parser'.at \notin {"cancelQueue", "gone"}
  BY DEF Reading
<1>2. QED  BY <1>1 DEF MoveInv, Moves, AllSent

\* ... and when nothing changes that it is about.
LEMMA QuietMoves ==
  ASSUME MoveInv, is.state # "CRASHED", is'.queue = is.queue, is'.active = is.active,
         is'.stream = is.stream, parser' = parser, server'.waiting = server.waiting
  PROVE  MoveInv'
BY DEF MoveInv, Moves, AllSent, Reading

\* Commands are sent with the queue as it is.
LEMMA SentMoves ==
  ASSUME TypeOK, MoveInv, is.state # "CRASHED", Reading, Sends(is, is'), is'.queue = is.queue,
         parser' = parser, server' = server
  PROVE  MoveInv'
<1>1. Reading' /\ is \in Servers
  BY DEF Reading, TypeOK
<1>2. AllSent(is', server'.waiting)
  <2>1. AllSent(is, server.waiting)
    BY DEF MoveInv
  <2>2. QED  BY <2>1, SendsKeeps
<1>3. ASSUME parser'.at = "read"  PROVE Moves(is')
  <2>1. Moves(is)
    BY <1>3 DEF MoveInv
  <2>2. is.stream # <<>> => is'.stream # <<>>
    BY <1>1, SendsKeeps
  <2>3. QED  BY <2>1, <2>2 DEF Moves
<1>4. QED  BY <1>1, <1>2, <1>3, ReadingMoves

\* A command is queued.
LEMMA QueuedMoves ==
  ASSUME TypeOK, StreamInv, MoveInv, is.state # "CRASHED", HighEnough, Reading,
         NEW jb \in JobMaps, NEW c \in JobCommands, is' = CommandQueue(is, jb, c),
         parser' = parser, server' = server
  PROVE  MoveInv'
<1>1. Reading' /\ is \in Servers
  BY DEF Reading, TypeOK
<1>2. AllSent(is, server.waiting)
  BY DEF MoveInv
<1>3. AllSent(is', server'.waiting)
  <2>1. Sends(is, is')
    BY <1>1, QueueSends
  <2>2. QED  BY <1>2, <2>1, SendsKeeps
<1>4. ASSUME parser'.at = "read"  PROVE Moves(is')
  <2>1. Connected(is, job, NoCommand, parser.ok, server.waiting, server.selected)
    BY <1>4, WhileReading
  <2>2. PICK ok, w, sel : ok = parser.ok /\ w = server.waiting /\ sel = server.selected
    OBVIOUS
  <2>3. OnLine(is, ok, w, sel)
    BY <1>2, <2>1, <2>2 DEF Connected, OnLine
  <2>4. is'.stream # <<>>
    BY <1>1, <2>3, QueueMoves
  <2>5. QED  BY <2>4 DEF Moves
<1>5. QED  BY <1>1, <1>3, <1>4, ReadingMoves

\* A job queues its next command,
LEMMA StartJobMoves ==
  ASSUME TypeOK, StreamInv, MoveInv, is.state # "CRASHED", HighEnough, NEW j \in Jobs, StartJob(j)
  PROVE  MoveInv'
<1>1. is \in Servers /\ job \in JobMaps /\ j \in Jobs \cup Async
  BY DEF TypeOK
<1>2. PICK n, c, at : /\ n = job[j].issued + 1 /\ c = Command(j, n)
                      /\ at = IF c.part < Starts(j) THEN "start"
                              ELSE IF Kind[j] = "store" THEN "check" ELSE "wait"
  OBVIOUS
<1>3. PICK next : next = WithNext(job, j)
  OBVIOUS
<1>4. PICK jb : jb = [next EXCEPT ![j].at = at]
  OBVIOUS
<1>5. /\ is.state = "SHUTDOWN" => is' = is
      /\ is.state # "SHUTDOWN" => is' = CommandQueue(is, jb, c)
      /\ parser' = parser /\ server' = server
  BY <1>2, <1>3, <1>4 DEF StartJob
<1>6. c \in JobCommands
  BY <1>1, <1>2, NextCommandIs
<1>7. jb \in JobMaps
  <2>1. IssuesOne(job, next, j)
    BY <1>1, <1>3, WithNextIs
  <2>2. next \in JobMaps
    BY <2>1 DEF IssuesOne
  <2>3. at \in {"new", "refused", "start", "check", "wait", "returned"}
    BY <1>2
  <2>4. QED  BY <1>1, <1>4, <2>2, <2>3, MovesOn
<1>8. CASE is.state = "SHUTDOWN"
  BY <1>5, <1>8, QuietMoves
<1>9. CASE is.state # "SHUTDOWN"
  <2>1. Reading
    BY <1>9 DEF StreamInv, Steady, Disconnected
  <2>2. QED  BY <1>5, <1>6, <1>7, <1>9, <2>1, QueuedMoves
<1>10. QED  BY <1>8, <1>9

\* the server answers a command that it has read whole,
LEMMA ReadAnswerMoves ==
  ASSUME TypeOK, StreamInv, MoveInv, is.state # "CRASHED", NEW ok \in BOOLEAN, ReadAnswer(ok)
  PROVE  MoveInv'
<1>1. is \in Servers /\ AllSent(is, NoCommand) /\ server.waiting = NoCommand
  BY DEF ReadAnswer, MoveInv, Reading, TypeOK
<1>2. PICK i \in DOMAIN is.stream :
        LET c == is.stream[i]
        IN  /\ c # More
            /\ is' = Detached(c, RemoveAt(is.stream, i))
            /\ server' = IF c.op = "SELECT"
                         THEN [server EXCEPT !.selected = IF ok THEN c.folder ELSE NULL]
                         ELSE server
            /\ Answered(c, ok)
  BY DEF ReadAnswer
<1>3. PICK c \in Commands : c = is.stream[i]
  BY <1>1, <1>2, SequencesOf DEF Range
<1>4. PICK st : st = RemoveAt(is.stream, i)
  OBVIOUS
<1>5. st \in Seq(Commands \cup {More}) /\ \A x \in Range(is.stream) : x # c => x \in Range(st)
  <2>1. is.stream \in Seq(Commands \cup {More})
    BY <1>1, SequencesOf
  <2>2. QED  BY <1>3, <1>4, <2>1, RemoveIs
<1>6. is' = Detached(c, st) /\ Answered(c, ok) /\ server'.waiting = NoCommand
  BY <1>1, <1>2, <1>3, <1>4 DEF TypeOK
<1>7. PICK t : t = Detached(c, st)
  OBVIOUS
<1>8. t.stream = st /\ Range(t.active) = Range(is.active) \ {c}
  BY <1>1, <1>5, <1>7, DetachedIs
<1>9. AllSent(t, NoCommand)
  BY <1>1, <1>5, <1>8 DEF AllSent
<1>10. Reading' /\ parser'.at = "complete"
  BY <1>6 DEF Answered, Reading
<1>11. QED  BY <1>6, <1>7, <1>9, <1>10, ReadingMoves

\* or one with a continuation outstanding,
LEMMA ReadAnswerToMoreMoves ==
  ASSUME TypeOK, StreamInv, MoveInv, is.state # "CRASHED", NEW ok \in BOOLEAN, ReadAnswerToMore(ok)
  PROVE  MoveInv'
<1>1. is \in Servers /\ AllSent(is, server.waiting) /\ is.stream # <<>> /\ is.stream[1] = More
  BY DEF ReadAnswerToMore, MoveInv, Reading, TypeOK
<1>2. PICK w \in Commands : w = server.waiting
  BY DEF ReadAnswerToMore, TypeOK
<1>3. PICK st : st = Tail(is.stream)
  OBVIOUS
<1>4. st \in Seq(Commands \cup {More}) /\ Range(is.stream) = {More} \cup Range(st)
  <2>1. is.stream \in Seq(Commands \cup {More})
    BY <1>1, SequencesOf
  <2>2. QED  BY <1>1, <1>3, <2>1, TailIs
<1>5. is' = Detached(w, st) /\ Answered(w, ok) /\ server'.waiting = NoCommand
  BY <1>2, <1>3 DEF ReadAnswerToMore, TypeOK
<1>6. PICK t : t = Detached(w, st)
  OBVIOUS
<1>7. t.stream = st /\ Range(t.active) = Range(is.active) \ {w}
  BY <1>1, <1>4, <1>6, DetachedIs
<1>8. AllSent(t, NoCommand)
  <2>1. More \notin Range(is.active)
    BY <1>1, SequencesOf, CommandsDiffer
  <2>2. QED  BY <1>1, <1>2, <1>4, <1>7, <2>1 DEF AllSent
<1>9. Reading' /\ parser'.at = "complete"
  BY <1>5 DEF Answered, Reading
<1>10. QED  BY <1>5, <1>6, <1>8, <1>9, ReadingMoves

\* or asks for more.
LEMMA ContinuationMoves ==
  ASSUME TypeOK, StreamInv, MoveInv, is.state # "CRASHED", HighEnough, Continuation
  PROVE  MoveInv'
<1>1. PICK next \in Servers, w \in Commands :
        /\ Connected(next, job, NoCommand, parser.ok, w, server.selected)
        /\ next.queue = is.queue /\ next.active = is.active /\ Range(is.stream) = {w}
        /\ is' = CommandStartNext(next, job)
        /\ server.waiting = NoCommand /\ server'.waiting = w
  BY ContinuationIs
<1>2. /\ is \in Servers /\ job \in JobMaps /\ AllSent(is, NoCommand)
      /\ Reading' /\ parser' = parser
  BY <1>1 DEF Continuation, MoveInv, Reading, TypeOK
<1>3. AllSent(next, w)
  <2>1. NoCommand \notin Range(is.active)
    BY <1>2, SequencesOf, CommandsDiffer
  <2>2. QED  BY <1>1, <1>2, <2>1 DEF AllSent
<1>4. PICK t, ok, sel : t = CommandStartNext(next, job) /\ ok = parser.ok /\ sel = server.selected
  OBVIOUS
<1>5. AllSent(t, w) /\ Moves(t)
  BY <1>1, <1>2, <1>3, <1>4, NextMovesOn
<1>6. QED  BY <1>1, <1>2, <1>4, <1>5, ReadingMoves

\* Untagged CLOSED and EXISTS,
LEMMA UntaggedMoves ==
  ASSUME TypeOK, MoveInv, is.state # "CRASHED", UntaggedClosed \/ UntaggedExists
  PROVE  MoveInv'
<1>1. is \in Servers
  BY DEF TypeOK
<1>2. CASE UntaggedClosed
  <2>1. is'.queue = is.queue /\ is'.active = is.active /\ is'.stream = is.stream
    BY <1>1, <1>2 DEF UntaggedClosed, Servers
  <2>2. parser' = parser /\ server'.waiting = server.waiting
    BY <1>2 DEF UntaggedClosed, TypeOK
  <2>3. QED  BY <2>1, <2>2, QuietMoves
<1>3. CASE UntaggedExists
  <2>1. is' = StopIdle(is) /\ parser' = parser /\ server' = server /\ Reading
    BY <1>3 DEF UntaggedExists, Reading
  <2>2. Sends(is, is') /\ is'.queue = is.queue
    BY <1>1, <2>1, StopIdleSends
  <2>3. QED  BY <2>1, <2>2, SentMoves
<1>4. QED  BY <1>2, <1>3

\* The FETCH of new messages is queued or not.
LEMMA FetchSends ==
  ASSUME NEW s \in Servers, NEW jb \in JobMaps, NEW f \in SomeFolder
  PROVE  Sends(s, FetchNewMessages(s, jb, f).is)
<1>1. PICK r : /\ r = FetchNewMessages(s, jb, f)
               /\ \/ r.is = s /\ r.job = jb
                  \/ \E a \in Async : r.job \in JobMaps /\ r.is = CommandQueue(s, r.job, Command(a, 1))
  BY FetchIs
<1>2. \A a \in Async : Command(a, 1) \in JobCommands
  BY CommandIs
<1>3. Sends(s, s)
  BY DEF Sends
<1>4. QED  BY <1>1, <1>2, <1>3, QueueSends

\* The complete function of the command in hand sends what becomes active,
LEMMA CompleteMoves ==
  ASSUME TypeOK, StreamInv, MoveInv, is.state # "CRASHED", CompleteCommand
  PROVE  MoveInv'
<1>1. PICK c \in Commands : c = parser.ic
  <2>1. parser.ic # NoCommand
    BY DEF CompleteCommand, StreamInv, Completing
  <2>2. QED  BY <2>1 DEF TypeOK
<1>2. is \in Servers /\ job \in JobMaps /\ AllSent(is, server.waiting)
  BY DEF CompleteCommand, MoveInv, Reading, TypeOK
<1>3. Reading' /\ parser'.at = "next" /\ server' = server
  BY DEF CompleteCommand, Reading, TypeOK
<1>4. SUFFICES Sends(is, is')
  <2>1. ASSUME Sends(is, is')  PROVE AllSent(is', server'.waiting)
    BY <1>2, <1>3, <2>1, SendsKeeps
  <2>2. QED  BY <1>3, <2>1, ReadingMoves
<1>5. ASSUME c.op = "JOB", is' = JobComplete(is, job, c, parser.ok).is
      PROVE  Sends(is, is')
  <2>1. c \in JobCommands
    BY <1>5, CommandsDiffer
  <2>2. PICK ok \in BOOLEAN : ok = parser.ok
    BY DEF TypeOK
  <2>3. PICK r : r = JobComplete(is, job, c, ok)
    OBVIOUS
  <2>4. \/ r.is = is
        \/ r.job \in JobMaps /\ r.is = CommandQueue(is, r.job, Command(c.job, job[c.job].issued + 1))
    <3>1. \/ /\ JobKind(c.job) = "steps" /\ ok /\ job[c.job].issued < PartsOf(c.job)
             /\ is.state # "SHUTDOWN"
             /\ r.job \in JobMaps
             /\ \A k \in Jobs \cup Async : k # c.job => r.job[k] = job[k]
             /\ r.job[c.job] = [job[c.job] EXCEPT !.issued = @ + 1]
             /\ r.is = CommandQueue(is, r.job, Command(c.job, job[c.job].issued + 1))
          \/ \E failed \in BOOLEAN :
               /\ r.is = is /\ r.job = Finish(job, c.job, 1, failed)
               /\ ~ok => failed
               /\ ~failed => JobKind(c.job) # "steps" \/ ~(job[c.job].issued < PartsOf(c.job))
      BY <1>2, <2>1, <2>3, JobCompleteIs
    <3>2. QED  BY <3>1, Zenon
  <2>5. c.job \in Jobs \cup Async
    BY <2>1, CommandsDiffer
  <2>6. Command(c.job, job[c.job].issued + 1) \in JobCommands
    BY <1>2, <2>5, NextCommandIs
  <2>7. is' = r.is
    BY <1>5, <2>2, <2>3
  <2>8. CASE r.is = is
    BY <2>7, <2>8 DEF Sends
  <2>9. CASE r.is # is
    BY <1>2, <2>4, <2>6, <2>7, <2>9, QueueSends
  <2>10. QED  BY <2>8, <2>9
<1>6. ASSUME c.op = "SELECT", NEW grown, is' = SelectOk(is, job, grown).is
      PROVE  Sends(is, is')
  <2>1. PICK r, v : r = SelectOk(is, job, grown) /\ v = Opened(is)
    OBVIOUS
  <2>2. PICK q : q = FetchNewMessages(v, job, is.select_pending)
    OBVIOUS
  <2>3. \/ r.is = [v EXCEPT !.select_pending = NULL]
        \/ r.is = [q.is EXCEPT !.select_pending = NULL]
    BY <1>2, <2>1, <2>2, SelectOkIs
  <2>4. v \in Servers /\ v.stream = is.stream /\ v.active = is.active
    BY <1>2, <2>1 DEF Opened, Servers
  <2>5. q.is \in Servers /\ Sends(v, q.is)
    <3>1. PICK f \in SomeFolder : f = is.select_pending
      BY <1>2 DEF Servers
    <3>2. QED  BY <1>2, <2>2, <2>4, <3>1, FetchTypes, FetchSends
  <2>6. ASSUME NEW u \in Servers, Sends(v, u), r.is = [u EXCEPT !.select_pending = NULL]
        PROVE  Sends(is, r.is)
    <3>1. r.is.stream = u.stream /\ r.is.active = u.active
      BY <2>6 DEF Servers
    <3>2. QED  BY <2>4, <2>6, <3>1 DEF Sends
  <2>7. Sends(v, v)
    BY DEF Sends
  <2>8. Sends(is, r.is)
    BY <2>3, <2>4, <2>5, <2>6, <2>7
  <2>9. QED  BY <1>6, <2>1, <2>8
<1>7. ASSUME c.op = "SELECT", is' = SelectFailed(is, job, FALSE).is
      PROVE  Sends(is, is')
  <2>1. PICK byError : byError = FALSE
    OBVIOUS
  <2>2. PICK r : r = SelectFailed(is, job, byError)
    OBVIOUS
  <2>3. r.is.active = is.active /\ r.is.stream = is.stream
    <3>1. LeftOver(is, job, r)
      BY <1>2, <2>2, SelectFailedIs
    <3>2. QED  BY <3>1 DEF LeftOver
  <2>4. QED  BY <1>7, <2>1, <2>2, <2>3 DEF Sends
<1>8. ASSUME is' = [is EXCEPT !.idle = "OFF"]  PROVE Sends(is, is')
  <2>1. is'.active = is.active /\ is'.stream = is.stream
    BY <1>2, <1>8 DEF Servers
  <2>2. QED  BY <2>1 DEF Sends
<1>9. \/ /\ c.op = "JOB"
         /\ \E r \in {JobComplete(is, job, c, parser.ok)} : is' = r.is /\ job' = r.job
      \/ /\ c.op = "SELECT"
         /\ \E grown : \E r \in {IF parser.ok THEN SelectOk(is, job, grown)
                                 ELSE SelectFailed(is, job, FALSE)} : is' = r.is /\ job' = r.job
      \/ is' = [is EXCEPT !.idle = "OFF"]
  BY <1>1, Zenon DEF CompleteCommand
<1>10. CASE c.op = "JOB" /\ \E r \in {JobComplete(is, job, c, parser.ok)} : is' = r.is /\ job' = r.job
  BY <1>5, <1>10
<1>11. CASE /\ c.op = "SELECT"
            /\ \E grown : \E r \in {IF parser.ok THEN SelectOk(is, job, grown)
                                    ELSE SelectFailed(is, job, FALSE)} : is' = r.is /\ job' = r.job
  BY <1>6, <1>7, <1>11
<1>12. QED  BY <1>8, <1>9, <1>10, <1>11

\* and the next commands are started after it.
LEMMA StartNextStepMoves ==
  ASSUME TypeOK, StreamInv, MoveInv, is.state # "CRASHED", HighEnough, StartNextCommand
  PROVE  MoveInv'
<1>1. parser.at = "next" /\ parser' = [parser EXCEPT !.at = "read"] /\ server' = server
  BY DEF StartNextCommand
<1>2. Reading /\ parser.ic = NoCommand
  BY <1>1 DEF Reading, StreamInv, Completing
<1>3. /\ is \in Servers /\ job \in JobMaps /\ AllSent(is, server.waiting)
      /\ Connected(is, job, NoCommand, parser.ok, server.waiting, server.selected)
  BY <1>2 DEF StreamInv, Steady, MoveInv, TypeOK
<1>4. PICK t, ok, w, sel : /\ t = CommandStartNext(is, job)
                           /\ ok = parser.ok /\ w = server.waiting /\ sel = server.selected
  OBVIOUS
<1>5. Connected(is, job, NoCommand, ok, w, sel) /\ AllSent(is, w)
  BY <1>3, <1>4
<1>6. AllSent(t, w) /\ Moves(t)
  BY <1>3, <1>4, <1>5, NextMovesOn
<1>7. is' = t /\ Reading'
  BY <1>1, <1>4 DEF StartNextCommand, Reading, TypeOK
<1>8. QED  BY <1>1, <1>4, <1>6, <1>7, ReadingMoves

\* The connection is lost, and what is active or queued is cancelled.
LEMMA CancelMoves ==
  ASSUME TypeOK, MoveInv, is.state # "CRASHED", ConnectionLost \/ CancelActive \/ CancelQueue
  PROVE  MoveInv'
<1>1. is \in Servers
  BY DEF TypeOK
<1>2. ASSUME parser'.at = "cancelActive"  PROVE MoveInv'
  BY <1>2 DEF MoveInv, Reading
<1>3. CASE ConnectionLost
  <2>1. parser'.at = "cancelActive"
    BY <1>3 DEF ConnectionLost, TypeOK
  <2>2. QED  BY <1>2, <2>1
<1>4. CASE CancelActive
  <2>1. CASE is.active = <<>>
    <3>1. is' = is /\ parser' = [parser EXCEPT !.at = "cancelQueue"]
      BY <1>4, <2>1 DEF CancelActive
    <3>2. parser'.at = "cancelQueue"
      BY <3>1 DEF TypeOK
    <3>3. Range(is.active) \cap JobCommands = {}
      BY <2>1 DEF Range
    <3>4. QED  BY <3>1, <3>2, <3>3 DEF MoveInv, Reading
  <2>2. CASE is.active # <<>>
    <3>1. parser' = parser /\ parser.at = "cancelActive"
      BY <1>4, <2>2 DEF CancelActive
    <3>2. QED  BY <1>2, <3>1
  <2>3. QED  BY <2>1, <2>2
<1>5. CASE CancelQueue
  <2>1. parser.at = "cancelQueue" /\ Range(is.active) \cap JobCommands = {}
    BY <1>5 DEF CancelQueue, MoveInv
  <2>2. CASE is.queue = <<>>
    <3>1. is' = is /\ parser' = [parser EXCEPT !.at = "gone"]
      BY <1>5, <2>2 DEF CancelQueue
    <3>2. parser'.at = "gone"
      BY <3>1 DEF TypeOK
    <3>3. QED  BY <2>1, <2>2, <3>1, <3>2 DEF MoveInv, Reading
  <2>3. CASE is.queue # <<>>
    <3>1. is' = [is EXCEPT !.queue = Tail(@)] /\ parser' = parser
      BY <1>5, <2>3 DEF CancelQueue
    <3>2. is'.active = is.active
      BY <1>1, <3>1 DEF Servers
    <3>3. QED  BY <2>1, <3>1, <3>2 DEF MoveInv, Reading
  <2>4. QED  BY <2>2, <2>3
<1>6. QED  BY <1>3, <1>4, <1>5

\* The idle thread sends IDLE, which is nobody's job,
LEMMA IdleIssueMoves ==
  ASSUME TypeOK, StreamInv, MoveInv, is.state # "CRASHED", IdleIssue
  PROVE  MoveInv'
<1>1. is \in Servers /\ parser' = parser /\ server' = server
  BY DEF IdleIssue, TypeOK
<1>2. CASE is.idle # "PENDING"
  <2>1. is' = is
    BY <1>2 DEF IdleIssue
  <2>2. QED  BY <1>1, <2>1, QuietMoves
<1>3. CASE is.idle = "PENDING"
  <2>1. PICK v : v = [is EXCEPT !.idle = "ISSUED"]
    OBVIOUS
  <2>2. is' = CommandStart(v, Idle)
    BY <1>3, <2>1 DEF IdleIssue
  <2>3. v \in Servers /\ v.queue = is.queue /\ v.active = is.active /\ v.stream = is.stream
    BY <1>1, <2>1 DEF Servers
  <2>4. PICK e \in Commands : e = Idle /\ e \notin JobCommands
    BY CommandsDiffer DEF Commands
  <2>5. PICK t : t = CommandStart(v, e)
    OBVIOUS
  <2>6. Sends(v, t) /\ t.queue = v.queue /\ t.active = Append(v.active, e)
    BY <2>3, <2>5, StartSends, StartTypes
  <2>7. is' = t /\ Sends(is, is') /\ is'.queue = is.queue
    BY <2>2, <2>3, <2>4, <2>5, <2>6 DEF Sends
  <2>8. CASE Reading
    BY <1>1, <2>7, <2>8, SentMoves
  <2>9. CASE ~Reading
    <3>1. Range(t.active) = Range(is.active) \cup {e}
      <4>1. v.active \in Seq(Commands)
        BY <2>3, SequencesOf
      <4>2. QED  BY <2>3, <2>4, <2>6, <4>1, AppendIs
    <3>2. Range(is.active) \cap JobCommands = {} => Range(is'.active) \cap JobCommands = {}
      BY <2>4, <2>7, <3>1
    <3>3. QED  BY <1>1, <2>7, <2>9, <3>2 DEF MoveInv, Reading
  <2>10. QED  BY <2>8, <2>9
<1>4. QED  BY <1>2, <1>3

\* and fetches new mail.
LEMMA IdleFetchMoves ==
  ASSUME TypeOK, StreamInv, MoveInv, is.state # "CRASHED", HighEnough, IdleFetch
  PROVE  MoveInv'
<1>1. is \in Servers /\ job \in JobMaps /\ parser' = parser /\ server' = server
  BY DEF IdleFetch, TypeOK
<1>2. PICK r : /\ r = CASE is.select_folder = NULL -> [is |-> [is EXCEPT !.state = "CRASHED"], job |-> job]
                        [] is.select_folder # NULL /\ Registers ->
                             FetchNewMessages(is, job, is.select_folder)
                        [] OTHER -> [is |-> is, job |-> job]
               /\ is' = r.is
  BY DEF IdleFetch
<1>3. CASE is.select_folder = NULL
  <2>1. r = [is |-> [is EXCEPT !.state = "CRASHED"], job |-> job]
    BY <1>2, <1>3
  <2>2. is' = [is EXCEPT !.state = "CRASHED"]
    BY <1>2, <2>1
  <2>3. is'.state = "CRASHED"
    BY <1>1, <2>2 DEF Servers
  <2>4. QED  BY <2>3 DEF MoveInv
<1>4. CASE is.select_folder # NULL /\ Registers
  <2>1. r = FetchNewMessages(is, job, is.select_folder)
    BY <1>2, <1>4
  <2>2. Reading
    BY <1>4 DEF Registers, StreamInv, Steady, Disconnected
  <2>3. PICK f \in SomeFolder : f = is.select_folder
    BY <1>1 DEF Servers
  <2>4. r = FetchNewMessages(is, job, f)
    BY <2>1, <2>3
  <2>5. \/ r.is = is
        \/ \E a \in Async : r.job \in JobMaps /\ r.is = CommandQueue(is, r.job, Command(a, 1))
    BY <1>1, <2>4, FetchIs
  <2>6. \A a \in Async : Command(a, 1) \in JobCommands
    BY CommandIs
  <2>7. CASE r.is = is
    BY <1>1, <1>2, <2>7, QuietMoves
  <2>8. CASE r.is # is
    <3>1. PICK a \in Async : r.job \in JobMaps /\ r.is = CommandQueue(is, r.job, Command(a, 1))
      BY <2>5, <2>8
    <3>2. PICK jb \in JobMaps, c \in JobCommands : jb = r.job /\ c = Command(a, 1)
      BY <2>6, <3>1
    <3>3. is' = CommandQueue(is, jb, c)
      BY <1>2, <3>1, <3>2
    <3>4. QED  BY <1>1, <2>2, <3>3, QueuedMoves
  <2>9. QED  BY <2>7, <2>8
<1>5. CASE is.select_folder # NULL /\ ~Registers
  <2>1. r = [is |-> is, job |-> job]
    BY <1>2, <1>5
  <2>2. is' = is
    BY <1>2, <2>1
  <2>3. QED  BY <1>1, <2>2, QuietMoves
<1>6. QED  BY <1>3, <1>4, <1>5

\* Nothing is under way at first,
LEMMA InitMove == Init => MoveInv
<1> SUFFICES ASSUME Init  PROVE MoveInv
  OBVIOUS
<1>1. is.queue = <<>> /\ is.active = <<>> /\ parser.at = "read"
  BY DEF Init
<1>2. Range(is.active) = {}
  BY <1>1 DEF Range
<1>3. QED  BY <1>1, <1>2 DEF MoveInv, AllSent, Moves

\* and every step keeps in motion what has begun.
LEMMA NextMoves ==
  ASSUME TypeOK, StreamInv, MoveInv, HighEnough, [Next]_vars
  PROVE  MoveInv'
<1>1. CASE UNCHANGED vars
  <2>1. is' = is /\ parser' = parser /\ server' = server
    BY <1>1 DEF vars
  <2>2. QED  BY <2>1 DEF MoveInv, AllSent, Moves, Reading
<1>2. CASE Next
  <2>1. is.state # "CRASHED"
    BY <1>2 DEF Next
  <2>2. CASE \E j \in Jobs : Submit(j) \/ Caller(j)
    <3>1. PICK j \in Jobs : Submit(j) \/ CheckStored(j) \/ Return(j) \/ StartJob(j)
      BY <2>2 DEF Caller
    <3>2. CASE StartJob(j)
      BY <2>1, <3>2, StartJobMoves
    <3>3. CASE Submit(j) \/ CheckStored(j) \/ Return(j)
      <4>1. UNCHANGED <<is, parser, server>>
        BY <3>3 DEF Submit, CheckStored, Return
      <4>2. QED  BY <2>1, <4>1, QuietMoves
    <3>4. QED  BY <3>1, <3>2, <3>3
  <2>3. CASE ServerSpeaks
    BY <2>1, <2>3, ReadAnswerMoves, ReadAnswerToMoreMoves, ContinuationMoves DEF ServerSpeaks
  <2>4. CASE UntaggedClosed \/ UntaggedExists
    BY <2>1, <2>4, UntaggedMoves
  <2>5. CASE ConnectionLost
    BY <2>1, <2>5, CancelMoves
  <2>6. CASE Parser
    BY <2>1, <2>6, CompleteMoves, StartNextStepMoves, CancelMoves DEF Parser
  <2>7. CASE Idler
    <3>1. CASE IdleWake \/ IdleCheck \/ IdleReply
      <4>1. is \in Servers
        BY DEF TypeOK
      <4>2. is' = is \/ is' = [is EXCEPT !.watch = FALSE]
        BY <3>1 DEF IdleWake, IdleCheck, IdleReply
      <4>3. is'.queue = is.queue /\ is'.active = is.active /\ is'.stream = is.stream
        BY <4>1, <4>2 DEF Servers
      <4>4. parser' = parser /\ server' = server
        BY <3>1 DEF IdleWake, IdleCheck, IdleReply
      <4>5. QED  BY <2>1, <4>3, <4>4, QuietMoves
    <3>2. QED  BY <2>1, <2>7, <3>1, IdleIssueMoves, IdleFetchMoves DEF Idler
  <2>8. QED  BY <1>2, <2>2, <2>3, <2>4, <2>5, <2>6, <2>7 DEF Next
<1>3. QED  BY <1>1, <1>2

\* A job that is not answered has a command somewhere, which is not forgotten there.
LEMMA NobodyForgets == TypeOK /\ StreamInv /\ AnswerInv /\ MoveInv => NoneForgotten
<1> SUFFICES ASSUME TypeOK, StreamInv, AnswerInv, MoveInv, is.state # "CRASHED",
                    NEW j \in Jobs, job[j].at = "wait", job[j].replies = 0
             PROVE  \/ parser.at \in {"complete", "next", "cancelActive", "cancelQueue"}
                    \/ parser.at = "read" /\ is.stream # <<>>
  BY DEF NoneForgotten
<1>1. is \in Servers /\ job \in JobMaps
  BY DEF TypeOK
<1>2. PICK c : c \in Outstanding(is, parser.ic)
  <2>1. PICK b \in JobStates : b = job[j]
    BY <1>1, CallersJob
  <2>2. PICK P \in SUBSET JobCommands : P = Of(j, Outstanding(is, parser.ic))
    BY OutstandingIs, OfIs
  <2>3. Serving(j, b, P, ran)
    BY <2>1, <2>2 DEF AnswerInv, Served
  <2>4. b.commands # 0
    BY <2>1, <2>3 DEF Serving, Placed
  <2>5. P # {}
    BY <2>3, <2>4, FS_EmptySet DEF Serving, Counted
  <2>6. QED  BY <2>2, <2>5 DEF Of
<1>3. c \in JobCommands /\ c \in Range(is.queue) \cup Range(is.active) \cup {parser.ic}
  BY <1>2 DEF Outstanding, Ours
<1>4. parser.at # "complete" => c \in Range(is.queue) \cup Range(is.active)
  <2>1. NoCommand \notin JobCommands
    BY CommandsDiffer DEF Commands
  <2>2. QED  BY <1>3, <2>1 DEF StreamInv, Completing
<1>5. parser.at # "gone"
  <2>1. SUFFICES ASSUME parser.at = "gone"  PROVE FALSE
    OBVIOUS
  <2>2. Range(is.queue) = {}
    BY <2>1 DEF MoveInv, Range
  <2>3. Range(is.active) \cap JobCommands = {}
    BY <2>1 DEF MoveInv
  <2>4. QED  BY <1>3, <1>4, <2>1, <2>2, <2>3
<1>6. ASSUME parser.at = "read", is.stream = <<>>  PROVE FALSE
  <2>1. Connected(is, job, NoCommand, parser.ok, server.waiting, server.selected)
    BY <1>6, WhileReading
  <2>2. Moves(is) /\ AllSent(is, server.waiting)
    BY <1>6 DEF MoveInv, Reading
  <2>3. Range(is.queue) = {} /\ Range(is.stream) = {}
    BY <1>6, <2>2 DEF Moves, Range
  <2>4. c \in Range(is.active) /\ c = server.waiting
    BY <1>4, <1>6, <2>2, <2>3 DEF AllSent
  <2>5. server.waiting # NoCommand
    BY <1>3, <2>4, CommandsDiffer DEF Commands
  <2>6. is.idle = "STARTED"
    BY <1>6, <2>1, <2>5 DEF Connected, Wire
  <2>7. server.waiting = Idle
    BY <2>1, <2>6 DEF Connected, IdleState
  <2>8. QED  BY <1>3, <2>4, <2>7, CommandsDiffer
<1>7. QED  BY <1>5, <1>6 DEF TypeOK

\* Nobody waits for an answer that nothing leads to: while a job is waited for, the
\* parser thread has something to do or the server something to answer, in any order of
\* commands, folders and answers, and through IDLE.
THEOREM EachIsServed ==
  HighEnough /\ "selectLost" \notin Faults /\ "earlyAnswer" \notin Faults => (Spec => []NoneForgotten)
<1> SUFFICES ASSUME HighEnough, "selectLost" \notin Faults, "earlyAnswer" \notin Faults
             PROVE  Spec => []NoneForgotten
  OBVIOUS
<1>1. Init => TypeOK /\ StreamInv /\ AnswerInv /\ MoveInv
  BY InitTypes, InitStream, InitAnswer, InitMove
<1>2. TypeOK /\ StreamInv /\ AnswerInv /\ MoveInv /\ [Next]_vars
        => (TypeOK /\ StreamInv /\ AnswerInv /\ MoveInv)'
  BY NextTypes, NextStream, NextAnswer, NextMoves
<1>3. TypeOK /\ StreamInv /\ AnswerInv /\ MoveInv => NoneForgotten
  BY NobodyForgets
<1>4. QED  BY <1>1, <1>2, <1>3, PTL DEF Spec

==============================================================================
