----------------------------- MODULE Tables_proofs -----------------------------
(***************************************************************************)
(* For every set of links, users and server types and for every width of   *)
(* the ids: the six maps of RouteMgr agree, what they list is what they    *)
(* find, and no route is taken over.  For all names and data and all       *)
(* numbers of the digits: the lists of a LevelConnector are the sequences  *)
(* of ListStore, and a range of a list is what lies between its ends.      *)
(***************************************************************************)
EXTENDS Tables, FiniteSetTheorems, SequenceTheorems, WellFoundedInduction, TLAPS

-----------------------------------------------------------------------------
(* Numbers and finite orders.                                              *)

\* A set of numbers that is not empty has a least one.
LEMMA LeastExists ==
  ASSUME NEW S \in SUBSET Nat, S # {}
  PROVE  \E x \in S : \A y \in S : x <= y
<1>. DEFINE R0 == {ss \in Nat \X Nat : ss[1] < ss[2]}
<1>1. IsWellFoundedOn(R0, Nat)
  BY NatLessThanWellFounded DEF OpToRel
<1>2. PICK x \in S : \A y \in S : ~(<<y, x>> \in R0)
  <2>. HIDE DEF R0
  <2>. QED  BY <1>1, WFMin
<1>3. ASSUME NEW y \in S PROVE x <= y
  <2>1. x \in Nat /\ y \in Nat
    OBVIOUS
  <2>2. y < x => <<y, x>> \in R0
    <3>1. <<y, x>> \in Nat \X Nat /\ <<y, x>>[1] = y /\ <<y, x>>[2] = x
      BY <2>1
    <3>. QED  BY <3>1
  <2>. QED  BY <1>2, <2>1, <2>2
<1>. QED  BY <1>3

\* So many numbers there are from 1 to n.
LEMMA CountTo == ASSUME NEW n \in Nat PROVE IsFiniteSet(1..n) /\ Cardinality(1..n) = n
<1>1. 1 \in Int /\ n \in Int
  OBVIOUS
<1>2. IsFiniteSet(1..n) /\ Cardinality(1..n) = IF 1 > n THEN 0 ELSE n - 1 + 1
  BY <1>1, FS_Interval
<1>3. n = 0 \/ ~(1 > n)
  OBVIOUS
<1>4. (IF 1 > n THEN 0 ELSE n - 1 + 1) = n
  BY <1>3
<1>. QED  BY <1>2, <1>4

\* A set of pairs that orders S.
Orders(O, S) ==
  /\ \A a \in S : <<a, a>> \notin O
  /\ \A a, b \in S : a # b => <<a, b>> \in O \/ <<b, a>> \in O
  /\ \A a, b, c \in S : <<a, b>> \in O /\ <<b, c>> \in O => <<a, c>> \in O

\* seq has each member of S once, in order.
Sorts(seq, n, S, O) ==
  /\ seq \in [1..n -> S]
  /\ \A i, j \in 1..n : i < j => <<seq[i], seq[j]>> \in O
  /\ \A k \in S : \E i \in 1..n : seq[i] = k

\* A finite set can be sorted: the place of a member is the number of those before it.
LEMMA SortedExists ==
  ASSUME NEW S, IsFiniteSet(S), NEW O, Orders(O, S)
  PROVE  \E seq \in [1..Cardinality(S) -> S] : Sorts(seq, Cardinality(S), S, O)
<1>. DEFINE n == Cardinality(S)
            Preds(k) == {l \in S : <<l, k>> \in O}
            rank == [k \in S |-> Cardinality(Preds(k)) + 1]
<1>1. n \in Nat
  BY FS_CardinalityType
<1>2. ASSUME NEW k \in S PROVE IsFiniteSet(Preds(k)) /\ Cardinality(Preds(k)) \in 0..(n - 1)
  <2>1. Preds(k) \in SUBSET S /\ k \notin Preds(k)
    BY DEF Orders
  <2>2. IsFiniteSet(Preds(k)) /\ Cardinality(Preds(k)) <= n /\ (n = Cardinality(Preds(k)) => S = Preds(k))
    BY <2>1, FS_Subset
  <2>3. Cardinality(Preds(k)) \in Nat
    BY <2>2, FS_CardinalityType
  <2>4. Cardinality(Preds(k)) # n
    BY <2>1, <2>2
  <2>. HIDE DEF Preds, n
  <2>. QED  BY <1>1, <2>2, <2>3, <2>4
<1>3. rank \in [S -> 1..n]
  <2>. HIDE DEF Preds, n
  <2>. QED  BY <1>1, <1>2
<1>4. ASSUME NEW a \in S, NEW b \in S, <<a, b>> \in O PROVE rank[a] < rank[b]
  <2>1. Preds(a) \in SUBSET Preds(b) /\ a \in Preds(b) /\ a \notin Preds(a)
    BY <1>4 DEF Orders
  <2>2. /\ Cardinality(Preds(a)) <= Cardinality(Preds(b))
        /\ Cardinality(Preds(b)) = Cardinality(Preds(a)) => Preds(b) = Preds(a)
    <3>. HIDE DEF Preds
    <3>. QED  BY <1>2, <2>1, FS_Subset
  <2>3. Cardinality(Preds(a)) # Cardinality(Preds(b))
    BY <2>1, <2>2
  <2>. HIDE DEF Preds, n
  <2>. QED  BY <1>1, <1>2, <2>2, <2>3
<1>5. \A a, b \in S : rank[a] = rank[b] => a = b
  <2>. HIDE DEF rank
  <2>. SUFFICES ASSUME NEW a \in S, NEW b \in S, rank[a] = rank[b], a # b PROVE FALSE
    OBVIOUS
  <2>1. rank[a] \in 1..n /\ rank[b] \in 1..n
    BY <1>3
  <2>2. rank[a] < rank[b] \/ rank[b] < rank[a]
    BY <1>4 DEF Orders
  <2>. QED  BY <1>1, <2>1, <2>2
<1>6. \A i \in 1..n : \E k \in S : rank[k] = i
  <2>. HIDE DEF rank
  <2>1. rank \in Injection(S, 1..n)
    BY <1>3, <1>5 DEF Injection, IsInjective
  <2>2. IsFiniteSet(1..n) /\ Cardinality(1..n) = n
    BY <1>1, CountTo
  <2>3. rank \in Surjection(S, 1..n)
    BY <2>1, <2>2, FS_Injection
  <2>. QED  BY <2>3 DEF Surjection
<1>. DEFINE seq == [i \in 1..n |-> CHOOSE k \in S : rank[k] = i]
<1>7. \A i \in 1..n : seq[i] \in S /\ rank[seq[i]] = i
  <2>. HIDE DEF rank, n
  <2>. QED  BY <1>6
<1>8. seq \in [1..n -> S]
  <2>. HIDE DEF rank, n
  <2>. QED  BY <1>7
<1>9. ASSUME NEW i \in 1..n, NEW j \in 1..n, i < j PROVE <<seq[i], seq[j]>> \in O
  <2>. HIDE DEF seq, rank
  <2>1. rank[seq[i]] = i /\ rank[seq[j]] = j /\ seq[i] \in S /\ seq[j] \in S /\ i \in Int /\ j \in Int
    BY <1>7
  <2>2. seq[i] # seq[j] /\ ~(rank[seq[j]] < rank[seq[i]])
    BY <1>9, <2>1
  <2>. QED  BY <1>4, <2>1, <2>2 DEF Orders
<1>10. \A k \in S : rank[k] \in 1..n /\ seq[rank[k]] = k
  <2>. HIDE DEF seq, rank, n
  <2>. QED  BY <1>3, <1>5, <1>7
<1>. HIDE DEF seq, rank, n
<1>. QED  BY <1>8, <1>9, <1>10 DEF Sorts, n

\* ... in one way.
LEMMA SortedOnce ==
  ASSUME NEW S, NEW O, Orders(O, S), NEW n \in Nat, NEW m \in Nat, NEW p, NEW q,
         Sorts(p, n, S, O), Sorts(q, m, S, O)
  PROVE  IsFiniteSet(S) /\ Cardinality(S) = n /\ n = m /\ p = q
<1>1. ASSUME NEW k \in Nat, NEW s, Sorts(s, k, S, O) PROVE IsFiniteSet(S) /\ Cardinality(S) = k
  <2>1. s \in Bijection(1..k, S)
    <3>1. \A i, j \in 1..k : s[i] = s[j] => i = j
      <4>. SUFFICES ASSUME NEW i \in 1..k, NEW j \in 1..k, s[i] = s[j], i < j PROVE FALSE
        <5>1. \A i, j \in 1..k : i = j \/ i < j \/ j < i
          OBVIOUS
        <5>. QED  BY <5>1
      <4>1. <<s[i], s[j]>> \in O /\ s[i] \in S
        BY <1>1 DEF Sorts
      <4>. QED  BY <4>1 DEF Orders
    <3>. QED  BY <1>1, <3>1 DEF Sorts, Bijection, Injection, Surjection, IsInjective
  <2>2. ExistsBijection(1..k, S)
    BY <2>1 DEF ExistsBijection
  <2>. QED  BY <2>2, CountTo, FS_Bijection
<1>2. IsFiniteSet(S) /\ Cardinality(S) = n /\ n = m
  BY <1>1
<1>3. p \in [1..n -> S] /\ q \in [1..n -> S]
  BY <1>2 DEF Sorts
<1>4. ASSUME p # q PROVE FALSE
  <2>. DEFINE D == {i \in 1..n : p[i] # q[i]}
  <2>1. D # {} /\ D \in SUBSET Nat
    BY <1>3, <1>4
  <2>2. PICK x \in D : \A y \in D : x <= y
    <3>. HIDE DEF D
    <3>. QED  BY <2>1, LeastExists
  <2>3. x \in 1..n /\ p[x] # q[x] /\ \A i \in 1..n : i < x => p[i] = q[i]
    BY <2>2
  <2>4. PICK a \in 1..n : p[a] = q[x]
    BY <1>3, <2>3 DEF Sorts
  <2>5. PICK b \in 1..n : q[b] = p[x]
    BY <1>2, <1>3, <2>3 DEF Sorts
  <2>6. x \in Int /\ a \in Int /\ b \in Int
    OBVIOUS
  <2>7. ~(a < x) /\ a # x
    <3>1. ASSUME a < x PROVE FALSE
      <4>1. q[a] = q[x]
        BY <2>3, <2>4, <3>1
      <4>2. <<q[a], q[x]>> \in O
        BY <1>2, <2>3, <3>1 DEF Sorts
      <4>. QED  BY <1>3, <2>3, <4>1, <4>2 DEF Orders
    <3>. QED  BY <2>3, <2>4, <3>1
  <2>8. ~(b < x) /\ b # x
    <3>1. ASSUME b < x PROVE FALSE
      <4>1. p[b] = p[x]
        BY <2>3, <2>5, <3>1
      <4>2. <<p[b], p[x]>> \in O
        BY <2>3, <3>1 DEF Sorts
      <4>. QED  BY <1>3, <2>3, <4>1, <4>2 DEF Orders
    <3>. QED  BY <2>3, <2>5, <3>1
  <2>9. <<p[x], q[x]>> \in O
    BY <2>3, <2>4, <2>6, <2>7 DEF Sorts
  <2>10. <<q[x], p[x]>> \in O
    BY <1>2, <2>3, <2>5, <2>6, <2>8 DEF Sorts
  <2>. QED  BY <1>3, <2>3, <2>9, <2>10 DEF Orders
<1>. QED  BY <1>2, <1>4

-----------------------------------------------------------------------------
(* The order of the keys.                                                  *)

\* The instance counts as this module does.
LEMMA SameCount == \A S : L!Cardinality(S) = Cardinality(S)
BY DEF L!Cardinality, Cardinality

Bytes == Seq(Int)

LEMMA BeforeIrreflexive == \A a \in Bytes : ~L!Before(a, a)
BY DEF L!Before, Bytes

LEMMA BeforeTransitive ==
  ASSUME NEW a \in Bytes, NEW b \in Bytes, NEW c \in Bytes, L!Before(a, b), L!Before(b, c)
  PROVE  L!Before(a, c)
<1>1. PICK i \in 1..Len(b) : /\ i <= Len(a) + 1 /\ \A h \in 1..(i - 1) : a[h] = b[h]
                             /\ i \in DOMAIN a => a[i] < b[i]
  BY DEF L!Before
<1>2. PICK j \in 1..Len(c) : /\ j <= Len(b) + 1 /\ \A h \in 1..(j - 1) : b[h] = c[h]
                             /\ j \in DOMAIN b => b[j] < c[j]
  BY DEF L!Before
<1>3. /\ Len(a) \in Nat /\ Len(b) \in Nat /\ Len(c) \in Nat
      /\ DOMAIN a = 1..Len(a) /\ DOMAIN b = 1..Len(b) /\ DOMAIN c = 1..Len(c)
      /\ \A h \in 1..Len(a) : a[h] \in Int
      /\ \A h \in 1..Len(b) : b[h] \in Int
      /\ \A h \in 1..Len(c) : c[h] \in Int
  BY LenProperties, ElementOfSeq DEF Bytes
<1>4. CASE i < j
  <2>1. i \in 1..Len(c) /\ i \in 1..(j - 1) /\ c[i] = b[i]
    BY <1>2, <1>3, <1>4
  <2>2. \A h \in 1..(i - 1) : a[h] = c[h]
    BY <1>1, <1>2, <1>4
  <2>. QED  BY <1>1, <2>1, <2>2 DEF L!Before
<1>5. CASE j < i
  <2>1. j \in DOMAIN b /\ j \in 1..(i - 1) /\ a[j] = b[j]
    BY <1>1, <1>3, <1>5
  <2>2. j <= Len(a) + 1
    BY <1>1, <1>3, <1>5
  <2>3. \A h \in 1..(j - 1) : a[h] = c[h]
    BY <1>1, <1>2, <1>5
  <2>. QED  BY <1>2, <2>1, <2>2, <2>3 DEF L!Before
<1>6. CASE i = j
  <2>1. i \in DOMAIN a => a[i] < c[i]
    BY <1>1, <1>2, <1>3, <1>6
  <2>2. \A h \in 1..(i - 1) : a[h] = c[h]
    BY <1>1, <1>2, <1>6
  <2>. QED  BY <1>1, <1>2, <1>6, <2>1, <2>2 DEF L!Before
<1>. QED  BY <1>4, <1>5, <1>6

LEMMA BeforeTotal ==
  ASSUME NEW a \in Bytes, NEW b \in Bytes, a # b
  PROVE  L!Before(a, b) \/ L!Before(b, a)
<1>3. /\ Len(a) \in Nat /\ Len(b) \in Nat
      /\ DOMAIN a = 1..Len(a) /\ DOMAIN b = 1..Len(b)
      /\ \A h \in 1..Len(a) : a[h] \in Int
      /\ \A h \in 1..Len(b) : b[h] \in Int
  BY LenProperties, ElementOfSeq DEF Bytes
<1>. DEFINE Differ(i) == i > Len(a) \/ i > Len(b) \/ a[i] # b[i]
            D == {i \in Nat \ {0} : i <= Len(a) + 1 /\ i <= Len(b) + 1 /\ Differ(i)}
<1>4. D # {}
  <2>1. CASE Len(a) # Len(b)
    <3>1. Len(a) < Len(b) => Len(a) + 1 \in D
      BY <1>3
    <3>2. Len(b) < Len(a) => Len(b) + 1 \in D
      BY <1>3
    <3>3. Len(a) < Len(b) \/ Len(b) < Len(a)
      <4>1. Len(a) \in Nat /\ Len(b) \in Nat
        BY <1>3
      <4>. QED  BY <2>1, <4>1
    <3>. HIDE DEF D
    <3>. QED  BY <3>1, <3>2, <3>3
  <2>2. CASE Len(a) = Len(b)
    <3>1. Len(a) + 1 \in D
      BY <1>3, <2>2
    <3>. QED  BY <3>1
  <2>. QED  BY <2>1, <2>2
<1>5. PICK x \in D : \A y \in D : x <= y
  <2>. HIDE DEF D
  <2>1. D \in SUBSET Nat
    BY DEF D
  <2>. QED  BY <1>4, <2>1, LeastExists
<1>6. \A h \in 1..(x - 1) : h <= Len(a) /\ h <= Len(b) /\ a[h] = b[h]
  <2>1. ASSUME NEW h \in 1..(x - 1) PROVE h \in Nat \ {0} /\ h < x /\ h \notin D
    BY <1>5
  <2>. QED  BY <1>3, <2>1
<1>7. x \in Nat /\ x # 0 /\ x <= Len(a) + 1 /\ x <= Len(b) + 1
  OBVIOUS
<1>8. CASE x > Len(a) /\ x > Len(b)
  <2>1. Len(a) = x - 1 /\ Len(b) = x - 1
    BY <1>3, <1>7, <1>8
  <2>2. a = b
    BY <1>3, <1>6, <2>1, SeqEqual DEF Bytes
  <2>. QED  BY <2>2
<1>9. CASE x > Len(a) /\ x <= Len(b)
  BY <1>3, <1>6, <1>7, <1>9 DEF L!Before
<1>10. CASE x <= Len(a) /\ x > Len(b)
  BY <1>3, <1>6, <1>7, <1>10 DEF L!Before
<1>11. CASE x <= Len(a) /\ x <= Len(b)
  <2>1. x \in 1..Len(a) /\ x \in 1..Len(b) /\ a[x] \in Int /\ b[x] \in Int /\ a[x] # b[x]
    BY <1>3, <1>7, <1>11
  <2>2. a[x] < b[x] => L!Before(a, b)
    BY <1>3, <1>6, <1>7, <2>1 DEF L!Before
  <2>3. b[x] < a[x] => L!Before(b, a)
    BY <1>3, <1>6, <1>7, <2>1 DEF L!Before
  <2>. QED  BY <2>1, <2>2, <2>3
<1>. QED  BY <1>3, <1>7, <1>8, <1>9, <1>10, <1>11

\* The order of the keys as a set of pairs.
KeyOrder(S) == {p \in S \X S : L!Before(p[1], p[2])}

LEMMA KeysOrdered ==
  ASSUME NEW S \in SUBSET Bytes
  PROVE  /\ \A a, b \in S : <<a, b>> \in KeyOrder(S) <=> L!Before(a, b)
         /\ Orders(KeyOrder(S), S)
<1>1. \A a, b \in S : <<a, b>> \in KeyOrder(S) <=> L!Before(a, b)
  BY DEF KeyOrder
<1>. QED  BY <1>1, BeforeIrreflexive, BeforeTransitive, BeforeTotal DEF Orders

\* seq has each key of S once, in their order.
InKeyOrder(seq, n, S) ==
  /\ seq \in [1..n -> S]
  /\ \A i, j \in 1..n : i < j => L!Before(seq[i], seq[j])
  /\ \A k \in S : \E i \in 1..n : seq[i] = k

\* InOrder sorts a finite set of keys.
LEMMA InOrderSorts ==
  ASSUME NEW S \in SUBSET Bytes, IsFiniteSet(S)
  PROVE  Cardinality(S) \in Nat /\ InKeyOrder(L!InOrder(S), Cardinality(S), S)
<1>. DEFINE n == Cardinality(S)
            Good(seq) == \A j \in DOMAIN seq : \A i \in 1..(j - 1) : L!Before(seq[i], seq[j])
<1>1. n \in Nat
  BY FS_CardinalityType
<1>2. PICK q \in [1..n -> S] : Sorts(q, n, S, KeyOrder(S))
  BY KeysOrdered, SortedExists
<1>3. Good(q)
  <2>1. \A i, j \in 1..n : i < j => L!Before(q[i], q[j])
    BY <1>2, KeysOrdered DEF Sorts
  <2>2. \A j \in 1..n : \A i \in 1..(j - 1) : i \in 1..n /\ i < j
    BY <1>1
  <2>. QED  BY <2>1, <2>2
<1>4. L!InOrder(S) = CHOOSE seq \in [1..n -> S] : Good(seq)
  BY SameCount DEF L!InOrder
<1>. DEFINE p == L!InOrder(S)
<1>5. p \in [1..n -> S] /\ \A i, j \in 1..n : i < j => L!Before(p[i], p[j])
  <2>1. p \in [1..n -> S] /\ Good(p)
    <3>. HIDE DEF Good, n
    <3>. QED  BY <1>2, <1>3, <1>4
  <2>2. \A i, j \in 1..n : i < j => i \in 1..(j - 1)
    BY <1>1
  <2>. HIDE DEF p
  <2>. QED  BY <2>1, <2>2
<1>6. p \in Injection(1..n, S)
  <2>1. \A i, j \in 1..n : p[i] = p[j] => i = j
    <3>1. \A i \in 1..n : p[i] \in Bytes /\ i \in Int
      BY <1>5
    <3>. HIDE DEF p
    <3>. QED  BY <1>5, <3>1, BeforeIrreflexive
  <2>. QED  BY <1>5, <2>1 DEF Injection, IsInjective
<1>7. p \in Surjection(1..n, S)
  <2>. HIDE DEF p
  <2>. QED  BY <1>1, <1>6, CountTo, FS_Injection
<1>. HIDE DEF p, n
<1>8. InKeyOrder(p, n, S)
  BY <1>5, <1>7 DEF InKeyOrder, Surjection
<1>. QED  BY <1>1, <1>8 DEF n, p

\* ... and nothing else does.
LEMMA InOrderIs ==
  ASSUME NEW S \in SUBSET Bytes, NEW n \in Nat, NEW q, InKeyOrder(q, n, S)
  PROVE  IsFiniteSet(S) /\ Cardinality(S) = n /\ L!InOrder(S) = q
<1>1. Sorts(q, n, S, KeyOrder(S))
  BY KeysOrdered DEF Sorts, InKeyOrder
<1>2. IsFiniteSet(S) /\ Cardinality(S) = n
  BY <1>1, KeysOrdered, SortedOnce
<1>3. Sorts(L!InOrder(S), Cardinality(S), S, KeyOrder(S))
  BY <1>2, InOrderSorts, KeysOrdered DEF Sorts, InKeyOrder
<1>. QED  BY <1>1, <1>2, <1>3, KeysOrdered, SortedOnce

-----------------------------------------------------------------------------
(* The numbers of a list.                                                  *)

Digits == [1..Width -> Int]

\* What a key of a list is numbered with: neither the middle nor the last number.
Numbers == {ds \in [1..Width -> 1..(Top - 1)] : ds # L!LastDigits /\ \E i \in 1..Width : ds[i] # Mid}

Less(ds, es) == \E i \in 1..Width : ds[i] < es[i] /\ \A j \in 1..(i - 1) : ds[j] = es[j]

LEMMA NumbersAreDigits == ASSUME NEW ds \in Numbers PROVE ds \in Digits
BY StoreConstants DEF Numbers, Digits

\* The digit that counts is the last one that neither comes up to Top nor down to 0.
Countable(ds, forward) == {i \in 1..Width : IF forward THEN ds[i] + 1 < Top ELSE ds[i] - 1 > 0}

LEMMA CountsIs ==
  ASSUME NEW ds \in Digits, NEW forward \in BOOLEAN
  PROVE  /\ Countable(ds, forward) = {} => L!Counts(ds, forward) = 0
         /\ Countable(ds, forward) # {} =>
              /\ L!Counts(ds, forward) \in Countable(ds, forward)
              /\ \A i \in Countable(ds, forward) : i <= L!Counts(ds, forward)
<1>. DEFINE P == Countable(ds, forward)
<1>1. Len(ds) = Width
  BY StoreConstants, LenProperties DEF Digits
<1>2. L!Counts(ds, forward) = IF P # {} THEN L!Max(P) ELSE 0
  BY <1>1 DEF L!Counts, L!SelectLastInSeq, Countable
<1>3. P \subseteq 1..Width
  BY DEF Countable
<1>. HIDE DEF P
<1>4. ASSUME P # {} PROVE \E x \in P : \A y \in P : x >= y
  <2>. DEFINE S == {Width - i : i \in P}
  <2>1. S \in SUBSET Nat /\ S # {}
    <3>1. \A i \in P : Width - i \in Nat
      BY <1>3, StoreConstants
    <3>. QED  BY <1>4, <3>1
  <2>2. PICK z \in S : \A y \in S : z <= y
    <3>. HIDE DEF S
    <3>. QED  BY <2>1, LeastExists
  <2>3. PICK x \in P : z = Width - x
    OBVIOUS
  <2>4. ASSUME NEW y \in P PROVE x >= y
    <3>1. Width - y \in S
      OBVIOUS
    <3>2. Width - x <= Width - y
      BY <2>2, <2>3, <3>1
    <3>. QED  BY <1>3, <3>2, StoreConstants
  <2>. QED  BY <2>4
<1>5. ASSUME P # {} PROVE L!Max(P) \in P /\ \A y \in P : L!Max(P) >= y
  BY <1>4, <1>5 DEF L!Max
<1>6. P # {} => L!Counts(ds, forward) \in P /\ \A i \in P : i <= L!Counts(ds, forward)
  BY <1>2, <1>3, <1>5, StoreConstants
<1>. QED  BY <1>2, <1>6 DEF P

\* What Carried makes of the digits.
LEMMA CarriedIs ==
  ASSUME NEW ds \in Digits, NEW forward \in BOOLEAN, NEW fill \in Int,
         NEW c, c = L!Counts(ds, forward), c # 0
  PROVE  /\ c \in 1..Width
         /\ IF forward THEN ds[c] + 1 < Top ELSE ds[c] - 1 > 0
         /\ \A i \in 1..Width : i > c => IF forward THEN ds[i] + 1 >= Top ELSE ds[i] - 1 <= 0
         /\ L!Carried(ds, forward, fill) \in Digits
         /\ \A i \in 1..Width : i < c => L!Carried(ds, forward, fill)[i] = ds[i]
         /\ \A i \in 1..Width : i > c => L!Carried(ds, forward, fill)[i] = fill
         /\ L!Carried(ds, forward, fill)[c] = IF forward THEN ds[c] + 1 ELSE ds[c] - 1
<1>1. c \in Countable(ds, forward) /\ \A i \in Countable(ds, forward) : i <= c
  BY CountsIs
<1>2. c \in 1..Width /\ Width \in Nat
  BY <1>1, StoreConstants DEF Countable
<1>3. \A i \in 1..Width : ds[i] \in Int
  BY DEF Digits
<1>4. L!Carried(ds, forward, fill) =
        [i \in 1..Width |-> IF i < c THEN ds[i] ELSE IF i > c THEN fill
                            ELSE IF forward THEN ds[i] + 1 ELSE ds[i] - 1]
  BY DEF L!Carried
<1>5. L!Carried(ds, forward, fill) \in Digits
  BY <1>3, <1>4 DEF Digits
<1>6. \A i \in 1..Width : i > c => IF forward THEN ds[i] + 1 >= Top ELSE ds[i] - 1 <= 0
  <2>. SUFFICES ASSUME NEW i \in 1..Width, i > c
                PROVE  IF forward THEN ds[i] + 1 >= Top ELSE ds[i] - 1 <= 0
    OBVIOUS
  <2>1. i \notin Countable(ds, forward)
    BY <1>1, <1>2
  <2>. QED  BY <1>3, <2>1, StoreConstants DEF Countable
<1>7. IF forward THEN ds[c] + 1 < Top ELSE ds[c] - 1 > 0
  BY <1>1 DEF Countable
<1>. QED  BY <1>2, <1>4, <1>5, <1>6, <1>7

\* cs is ds counted up at c.
CountedUp(ds, c, cs) ==
  /\ c \in 1..Width /\ ds[c] + 1 < Top
  /\ \A i \in 1..Width : i > c => ds[i] + 1 >= Top
  /\ cs \in Digits
  /\ \A i \in 1..Width : i < c => cs[i] = ds[i]
  /\ \A i \in 1..Width : i > c => cs[i] = 0
  /\ cs[c] = ds[c] + 1

\* What counting up makes of a number that is not the last one.
LEMMA CarriedUp ==
  ASSUME NEW ds \in Numbers
  PROVE  CountedUp(ds, L!Counts(ds, TRUE), L!Carried(ds, TRUE, 0))
<1>. DEFINE c == L!Counts(ds, TRUE)
            cs == L!Carried(ds, TRUE, 0)
            up == {i \in 1..Width : ds[i] + 1 < Top}
<1>0. ds \in [1..Width -> 1..(Top - 1)] /\ ds # L!LastDigits
  BY DEF Numbers
<1>1. /\ ds \in [1..Width -> 1..(Top - 1)] /\ ds # L!LastDigits /\ ds \in Digits
      /\ \A i \in 1..Width : ds[i] \in 1..(Top - 1) /\ ds[i] \in Int
  <2>1. \A i \in 1..Width : ds[i] \in 1..(Top - 1) /\ ds[i] \in Int
    BY <1>0, StoreConstants
  <2>. QED  BY <1>0, <2>1, NumbersAreDigits
<1>2. PICK i \in 1..Width : ds[i] # Top - 1
  BY <1>1 DEF L!LastDigits
<1>3. i \in up
  BY <1>1, <1>2, StoreConstants
<1>4. Countable(ds, TRUE) = up
  BY DEF Countable
<1>5. c \in up /\ \A j \in up : j <= c
  <2>. HIDE DEF up
  <2>1. \A forward \in BOOLEAN : Countable(ds, forward) # {} =>
          /\ L!Counts(ds, forward) \in Countable(ds, forward)
          /\ \A j \in Countable(ds, forward) : j <= L!Counts(ds, forward)
    BY <1>1, CountsIs
  <2>2. TRUE \in BOOLEAN
    OBVIOUS
  <2>3. Countable(ds, TRUE) # {} =>
          /\ L!Counts(ds, TRUE) \in Countable(ds, TRUE)
          /\ \A j \in Countable(ds, TRUE) : j <= L!Counts(ds, TRUE)
    BY <2>1, <2>2, Zenon
  <2>4. up # {}
    BY <1>3
  <2>. QED  BY <1>4, <2>3, <2>4, Zenon
<1>6. cs = [j \in 1..Width |-> IF j < c THEN ds[j] ELSE IF j > c THEN 0 ELSE ds[j] + 1]
  BY DEF L!Carried
<1>. HIDE DEF c, cs
<1>7. c \in 1..Width /\ ds[c] + 1 < Top /\ c \in Int
  BY <1>5, StoreConstants
<1>8. \A j \in 1..Width : j > c => ds[j] + 1 >= Top
  <2>. SUFFICES ASSUME NEW j \in 1..Width, j > c PROVE ds[j] + 1 >= Top
    OBVIOUS
  <2>0. j > c
    OBVIOUS
  <2>1. j \notin up
    <3>1. j \in Int
      BY StoreConstants
    <3>. HIDE DEF up
    <3>. QED  BY <1>5, <1>7, <2>0, <3>1
  <2>. QED  BY <1>1, <2>1, StoreConstants
<1>9. cs \in Digits
  <2>1. \A j \in 1..Width : (IF j < c THEN ds[j] ELSE IF j > c THEN 0 ELSE ds[j] + 1) \in Int
    BY <1>1, <1>7
  <2>. QED  BY <1>6, <2>1 DEF Digits
<1>10. CountedUp(ds, c, cs)
  <2>. HIDE DEF up
  <2>. QED  BY <1>6, <1>7, <1>8, <1>9 DEF CountedUp
<1>. QED  BY <1>10, Zenon DEF c, cs

\* Behind a number, and before or at every greater one.
LEMMA CarriedIsNext ==
  ASSUME NEW ds \in Numbers, NEW es \in Numbers
  PROVE  /\ L!Carried(ds, TRUE, 0) \in Digits
         /\ Less(ds, L!Carried(ds, TRUE, 0))
         /\ Less(ds, es) => ~Less(es, L!Carried(ds, TRUE, 0))
<1>. DEFINE c == L!Counts(ds, TRUE)
            cs == L!Carried(ds, TRUE, 0)
<1>1. /\ c \in 1..Width /\ ds[c] + 1 < Top
      /\ \A i \in 1..Width : i > c => ds[i] + 1 >= Top
      /\ cs \in Digits
      /\ \A i \in 1..Width : i < c => cs[i] = ds[i]
      /\ \A i \in 1..Width : i > c => cs[i] = 0
      /\ cs[c] = ds[c] + 1
  <2>1. CountedUp(ds, c, cs)
    BY CarriedUp, Zenon
  <2>. HIDE DEF c, cs
  <2>. QED  BY <2>1 DEF CountedUp
<1>2. \A i \in 1..Width : ds[i] \in 1..(Top - 1) /\ es[i] \in 1..(Top - 1)
  BY DEF Numbers
<1>. HIDE DEF c, cs
<1>3. Less(ds, cs)
  <2>1. ds[c] < cs[c] /\ \A j \in 1..(c - 1) : ds[j] = cs[j]
    BY <1>1, <1>2, StoreConstants
  <2>. QED  BY <1>1, <2>1 DEF Less
<1>4. ASSUME Less(ds, es), Less(es, cs) PROVE FALSE
  <2>1. PICK i \in 1..Width : ds[i] < es[i] /\ \A j \in 1..(i - 1) : ds[j] = es[j]
    BY <1>4 DEF Less
  <2>2. PICK h \in 1..Width : es[h] < cs[h] /\ \A j \in 1..(h - 1) : es[j] = cs[j]
    BY <1>4 DEF Less
  <2>3. i <= c
    BY <1>1, <1>2, <2>1, StoreConstants
  <2>4. CASE h < i
    <3>1. h \in 1..(i - 1) /\ h < c
      BY <1>1, <2>3, <2>4
    <3>2. es[h] = ds[h] /\ cs[h] = ds[h]
      BY <1>1, <2>1, <3>1
    <3>. QED  BY <1>2, <2>2, <3>2
  <2>5. CASE h = i
    BY <1>1, <1>2, <2>1, <2>2, <2>3, <2>5
  <2>6. CASE h > i
    <3>1. i \in 1..(h - 1) /\ es[i] = cs[i]
      BY <2>2, <2>6
    <3>2. i = c
      BY <1>1, <1>2, <2>1, <2>3, <3>1
    <3>3. cs[h] = 0
      BY <1>1, <2>6, <3>2
    <3>. QED  BY <1>2, <2>2, <3>3
  <2>. QED  BY <2>4, <2>5, <2>6
<1>5. cs \in Digits /\ Less(ds, cs) /\ (Less(ds, es) => ~Less(es, cs))
  BY <1>1, <1>3, <1>4
<1>. QED  BY <1>5, Zenon DEF cs

LEMMA FirstIs ==
  ASSUME NEW forward \in BOOLEAN
  PROVE  /\ L!FirstDigits(forward) \in [1..Width -> 1..(Top - 1)]
         /\ \A i \in 1..Width : i < Width => L!FirstDigits(forward)[i] = Mid
         /\ L!FirstDigits(forward)[Width] = IF forward THEN Mid + 1 ELSE Mid - 1
BY StoreConstants DEF L!FirstDigits

\* The number to push at an end is on that side of the one there.
LEMMA NextIsBeyond ==
  ASSUME NEW ds \in Numbers, NEW forward \in BOOLEAN,
         NEW es, es = L!NextDigits(ds, forward), es \notin {<<>>, L!LastDigits}
  PROVE  es \in Numbers /\ (IF forward THEN Less(ds, es) ELSE Less(es, ds))
<1>1. /\ Width \in Nat \ {0} /\ Mid \in Nat /\ Top \in Nat /\ 1 < Mid /\ Mid + 1 < Top
      /\ \A i \in 1..Width : ds[i] \in 1..(Top - 1) /\ ds[i] \in Int
      /\ ds \in Digits
  BY StoreConstants, NumbersAreDigits DEF Numbers
<1>2. CASE L!IsForward(ds) # forward
  <2>1. es = L!FirstDigits(forward)
    BY <1>2 DEF L!NextDigits
  <2>2. /\ es \in [1..Width -> 1..(Top - 1)]
        /\ \A i \in 1..Width : i < Width => es[i] = Mid
        /\ es[Width] = IF forward THEN Mid + 1 ELSE Mid - 1
    BY <2>1, FirstIs
  <2>3. es \in Numbers
    <3>1. Width \in 1..Width /\ es[Width] # Mid
      BY <1>1, <2>2
    <3>. QED  BY <2>2, <3>1 DEF Numbers
  <2>4. CASE ~forward
    <3>1. PICK i \in 1..Width : ds[i] > Mid /\ \A j \in 1..(i - 1) : ds[j] = Mid
      BY <1>2, <2>4 DEF L!IsForward
    <3>2. es[i] < ds[i] /\ \A j \in 1..(i - 1) : es[j] = ds[j]
      BY <1>1, <2>2, <2>4, <3>1
    <3>. QED  BY <2>3, <2>4, <3>2 DEF Less
  <2>5. CASE forward
    <3>. DEFINE D == {i \in 1..Width : ds[i] # Mid}
    <3>1. D # {} /\ D \in SUBSET Nat
      BY <1>1 DEF Numbers
    <3>2. PICK i \in D : \A j \in D : i <= j
      <4>. HIDE DEF D
      <4>. QED  BY <3>1, LeastExists
    <3>3. \A j \in 1..(i - 1) : ds[j] = Mid
      <4>. SUFFICES ASSUME NEW j \in 1..(i - 1) PROVE j \notin D /\ j \in 1..Width
        OBVIOUS
      <4>. QED  BY <1>1, <3>2
    <3>4. ds[i] < Mid
      BY <1>1, <1>2, <2>5, <3>3 DEF L!IsForward
    <3>5. ds[i] < es[i] /\ \A j \in 1..(i - 1) : ds[j] = es[j]
      <4>1. i \in 1..Width /\ \A j \in 1..(i - 1) : j \in 1..Width /\ j < Width /\ es[j] = Mid
        BY <1>1, <2>2
      <4>2. ds[i] < es[i]
        <5>1. CASE i = Width
          <6>1. es[i] = Mid + 1 /\ ds[i] \in Int
            BY <1>1, <2>2, <2>5, <4>1, <5>1
          <6>. QED  BY <1>1, <3>4, <6>1
        <5>2. CASE i < Width
          BY <1>1, <2>2, <3>4, <4>1, <5>2
        <5>. QED  BY <1>1, <4>1, <5>1, <5>2
      <4>. QED  BY <3>3, <4>1, <4>2
    <3>. QED  BY <2>3, <2>5, <3>5 DEF Less
  <2>. QED  BY <2>4, <2>5
<1>3. CASE L!IsForward(ds) = forward
  <2>. DEFINE c == L!Counts(ds, forward)
  <2>1. c # 0 /\ es = L!Carried(ds, forward, Mid)
    BY <1>3 DEF L!NextDigits
  <2>2. /\ c \in 1..Width
        /\ IF forward THEN ds[c] + 1 < Top ELSE ds[c] - 1 > 0
        /\ es \in Digits
        /\ \A i \in 1..Width : i < c => es[i] = ds[i]
        /\ \A i \in 1..Width : i > c => es[i] = Mid
        /\ es[c] = IF forward THEN ds[c] + 1 ELSE ds[c] - 1
    BY <1>1, <2>1, CarriedIs
  <2>. HIDE DEF c
  <2>3. IF forward THEN Less(ds, es) ELSE Less(es, ds)
    <3>1. \A j \in 1..(c - 1) : es[j] = ds[j]
      BY <1>1, <2>2
    <3>. QED  BY <1>1, <2>2, <3>1 DEF Less
  <2>4. \A i \in 1..Width : es[i] \in 1..(Top - 1)
    BY <1>1, <2>2
  <2>5. es \in [1..Width -> 1..(Top - 1)]
    BY <2>2, <2>4 DEF Digits
  <2>6. ASSUME \A i \in 1..Width : es[i] = Mid PROVE FALSE
    <3>1. \A j \in 1..Width : j < c => ds[j] = Mid
      BY <2>2, <2>6
    <3>2. ds[c] = IF forward THEN Mid - 1 ELSE Mid + 1
      BY <1>1, <2>2, <2>6
    <3>3. CASE forward
      <4>1. PICK i \in 1..Width : ds[i] > Mid /\ \A j \in 1..(i - 1) : ds[j] = Mid
        BY <1>3, <3>3 DEF L!IsForward
      <4>2. i # c /\ ~(i < c)
        BY <1>1, <3>1, <3>2, <3>3, <4>1
      <4>3. c \in 1..(i - 1)
        BY <1>1, <2>2, <4>2
      <4>. QED  BY <1>1, <3>2, <3>3, <4>1, <4>3
    <3>4. CASE ~forward
      <4>1. ds[c] > Mid /\ \A j \in 1..(c - 1) : ds[j] = Mid
        BY <1>1, <2>2, <3>1, <3>2, <3>4
      <4>. QED  BY <1>3, <2>2, <3>4, <4>1 DEF L!IsForward
    <3>. QED  BY <3>3, <3>4
  <2>7. es \in Numbers
    BY <2>5, <2>6 DEF Numbers
  <2>. QED  BY <2>3, <2>7
<1>4. L!IsForward(ds) \in BOOLEAN
  BY DEF L!IsForward
<1>. QED  BY <1>2, <1>3

-----------------------------------------------------------------------------
(* The keys in the store.                                                  *)

LEMMA ListKeyIs ==
  ASSUME NEW n \in Int, NEW ds \in Digits
  PROVE  /\ L!ListKey(n, ds) \in Bytes
         /\ Len(L!ListKey(n, ds)) = Width + 3
         /\ L!ListKey(n, ds)[1] = 3 /\ L!ListKey(n, ds)[2] = n /\ L!ListKey(n, ds)[3] = 0
         /\ \A i \in 1..Width : L!ListKey(n, ds)[i + 3] = ds[i]
<1>1. <<3, n, 0>> \in Seq(Int) /\ Len(<<3, n, 0>>) = 3
  OBVIOUS
<1>2. ds \in Seq(Int) /\ Len(ds) = Width
  BY StoreConstants, IsASeq, LenProperties DEF Digits
<1>. DEFINE h == <<3, n, 0>>
<1>3. L!ListKey(n, ds) = h \o ds
  BY DEF L!ListKey, L!ELevelList
<1>4. h[1] = 3 /\ h[2] = n /\ h[3] = 0
  OBVIOUS
<1>. HIDE DEF h
<1>5. /\ h \o ds \in Seq(Int) /\ Len(h \o ds) = 3 + Width
      /\ \A i \in 1..(3 + Width) : (h \o ds)[i] = IF i <= 3 THEN h[i] ELSE ds[i - 3]
  BY <1>1, <1>2, ConcatProperties DEF h
<1>6. \A i \in 1..Width : (h \o ds)[i + 3] = ds[i]
  <2>1. \A i \in 1..Width : i + 3 \in 1..(3 + Width) /\ ~(i + 3 <= 3) /\ i + 3 - 3 = i
    BY StoreConstants
  <2>. QED  BY <1>5, <2>1
<1>7. \A i \in 1..3 : (h \o ds)[i] = h[i]
  <2>1. \A i \in 1..3 : i \in 1..(3 + Width) /\ i <= 3
    BY StoreConstants
  <2>. QED  BY <1>5, <2>1
<1>8. (h \o ds)[1] = 3 /\ (h \o ds)[2] = n /\ (h \o ds)[3] = 0
  <2>1. 1 \in 1..3 /\ 2 \in 1..3 /\ 3 \in 1..3
    OBVIOUS
  <2>. QED  BY <1>4, <1>7, <2>1
<1>9. 3 + Width = Width + 3
  BY StoreConstants
<1>. QED  BY <1>3, <1>5, <1>6, <1>8, <1>9 DEF Bytes

\* A key tells its name and its number.
LEMMA ListKeyTells ==
  ASSUME NEW n \in Int, NEW ds \in Digits, NEW m \in Int, NEW es \in Digits,
         L!ListKey(n, ds) = L!ListKey(m, es)
  PROVE  n = m /\ ds = es
<1>. DEFINE a == L!ListKey(n, ds)
            b == L!ListKey(m, es)
<1>1. a[2] = n /\ \A i \in 1..Width : a[i + 3] = ds[i]
  BY ListKeyIs
<1>2. b[2] = m /\ \A i \in 1..Width : b[i + 3] = es[i]
  BY ListKeyIs
<1>3. a = b
  OBVIOUS
<1>. HIDE DEF a, b
<1>4. n = m /\ \A i \in 1..Width : ds[i] = es[i]
  BY <1>1, <1>2, <1>3
<1>5. ds = es
  <2>1. ds \in [1..Width -> Int] /\ es \in [1..Width -> Int]
    BY DEF Digits
  <2>2. ds = [i \in 1..Width |-> ds[i]] /\ es = [i \in 1..Width |-> es[i]]
    BY <2>1
  <2>3. [i \in 1..Width |-> ds[i]] = [i \in 1..Width |-> es[i]]
    BY <1>4
  <2>. QED  BY <2>2, <2>3
<1>. QED  BY <1>4, <1>5

LEMMA DigitsOfKey ==
  ASSUME NEW n \in Int, NEW ds \in Digits
  PROVE  L!Rest(L!ListKey(n, ds)) = ds /\ SubSeq(L!ListKey(n, ds), 1, 3) = <<3, n, 0>>
<1>. DEFINE key == L!ListKey(n, ds)
<1>1. /\ key \in Seq(Int) /\ Len(key) = Width + 3
      /\ key[1] = 3 /\ key[2] = n /\ key[3] = 0
      /\ \A i \in 1..Width : key[i + 3] = ds[i]
  BY ListKeyIs DEF Bytes
<1>. HIDE DEF key
<1>2. L!Rest(key) = SubSeq(key, 4, Width + 3)
  BY <1>1 DEF L!Rest
<1>3. Width \in Nat \ {0} /\ \A i \in 1..Width : ds[i] \in Int
  BY StoreConstants DEF Digits
<1>4. SubSeq(key, 4, Width + 3) = [i \in 1..Width |-> key[i + 3]]
  <2>1. /\ SubSeq(key, 4, Width + 3) \in Seq(Int)
        /\ Len(SubSeq(key, 4, Width + 3)) = Width
        /\ \A i \in 1..Width : SubSeq(key, 4, Width + 3)[i] = key[i + 3]
    <3>1. \A i \in 4..(Width + 3) : key[i] \in Int
      BY <1>1, <1>3, ElementOfSeq
    <3>2. /\ SubSeq(key, 4, Width + 3) \in Seq(Int)
          /\ Len(SubSeq(key, 4, Width + 3)) = IF 4 <= Width + 3 THEN Width + 3 - 4 + 1 ELSE 0
          /\ \A i \in 1..(Width + 3 - 4 + 1) : SubSeq(key, 4, Width + 3)[i] = key[4 + i - 1]
      BY <1>1, <1>3, <3>1, SubSeqProperties
    <3>3. Width + 3 - 4 + 1 = Width /\ 4 <= Width + 3 /\ \A i \in 1..Width : 4 + i - 1 = i + 3
      BY <1>3
    <3>. QED  BY <3>2, <3>3
  <2>2. SubSeq(key, 4, Width + 3) \in [1..Width -> Int]
    BY <2>1, LenProperties
  <2>. QED  BY <2>1, <2>2
<1>5. SubSeq(key, 4, Width + 3) = ds
  BY <1>1, <1>4 DEF Digits
<1>6. SubSeq(key, 1, 3) = <<3, n, 0>>
  <2>1. \A i \in 1..3 : key[i] \in Int
    BY <1>1
  <2>2. /\ SubSeq(key, 1, 3) \in Seq(Int)
        /\ Len(SubSeq(key, 1, 3)) = 3
        /\ \A i \in 1..3 : SubSeq(key, 1, 3)[i] = key[i]
    <3>1. /\ SubSeq(key, 1, 3) \in Seq(Int)
          /\ Len(SubSeq(key, 1, 3)) = IF 1 <= 3 THEN 3 - 1 + 1 ELSE 0
          /\ \A i \in 1..(3 - 1 + 1) : SubSeq(key, 1, 3)[i] = key[1 + i - 1]
      BY <1>1, <2>1, SubSeqProperties
    <3>2. 3 - 1 + 1 = 3 /\ \A i \in 1..3 : 1 + i - 1 = i
      OBVIOUS
    <3>. QED  BY <3>1, <3>2
  <2>3. <<3, n, 0>> \in Seq(Int) /\ Len(<<3, n, 0>>) = 3
    OBVIOUS
  <2>4. \A i \in 1..3 : SubSeq(key, 1, 3)[i] = <<3, n, 0>>[i]
    <3>1. SubSeq(key, 1, 3)[1] = 3 /\ SubSeq(key, 1, 3)[2] = n /\ SubSeq(key, 1, 3)[3] = 0
      BY <1>1, <2>2
    <3>. QED  BY <3>1
  <2>. QED  BY <2>2, <2>3, <2>4, SeqEqual
<1>. QED  BY <1>2, <1>5, <1>6 DEF key

\* The keys of one list have the order of their numbers.
LEMMA ListKeysOrdered ==
  ASSUME NEW n \in Int, NEW ds \in Digits, NEW es \in Digits
  PROVE  L!Before(L!ListKey(n, ds), L!ListKey(n, es)) <=> Less(ds, es)
<1>. DEFINE a == L!ListKey(n, ds)
            b == L!ListKey(n, es)
<1>1. /\ a \in Seq(Int) /\ b \in Seq(Int) /\ Len(a) = Width + 3 /\ Len(b) = Width + 3
      /\ a[1] = 3 /\ a[2] = n /\ a[3] = 0 /\ b[1] = 3 /\ b[2] = n /\ b[3] = 0
      /\ \A i \in 1..Width : a[i + 3] = ds[i] /\ b[i + 3] = es[i]
  BY ListKeyIs DEF Bytes
<1>. HIDE DEF a, b
<1>2. Width \in Nat /\ DOMAIN a = 1..(Width + 3)
  BY <1>1, StoreConstants, LenProperties
<1>3. \A i \in 1..3 : a[i] = b[i] /\ ~(a[i] < b[i])
  BY <1>1
<1>4. ASSUME L!Before(a, b) PROVE Less(ds, es)
  <2>1. PICK i \in 1..(Width + 3) : /\ \A j \in 1..(i - 1) : a[j] = b[j]
                                    /\ i \in DOMAIN a => a[i] < b[i]
    BY <1>1, <1>4 DEF L!Before
  <2>2. a[i] < b[i] /\ ~(i <= 3)
    BY <1>2, <1>3, <2>1
  <2>3. i - 3 \in 1..Width /\ i - 3 + 3 = i
    BY <1>2, <2>2
  <2>4. ds[i - 3] < es[i - 3]
    BY <1>1, <2>2, <2>3
  <2>5. ASSUME NEW j \in 1..(i - 3 - 1) PROVE ds[j] = es[j]
    <3>1. j + 3 \in 1..(i - 1) /\ j \in 1..Width
      BY <1>2, <2>3
    <3>. QED  BY <1>1, <2>1, <3>1
  <2>. QED  BY <2>3, <2>4, <2>5 DEF Less
<1>5. ASSUME Less(ds, es) PROVE L!Before(a, b)
  <2>1. PICK i \in 1..Width : ds[i] < es[i] /\ \A j \in 1..(i - 1) : ds[j] = es[j]
    BY <1>5 DEF Less
  <2>2. i + 3 \in 1..Len(b) /\ i + 3 <= Len(a) + 1 /\ a[i + 3] < b[i + 3]
    BY <1>1, <1>2, <2>1
  <2>3. ASSUME NEW j \in 1..(i + 3 - 1) PROVE a[j] = b[j]
    <3>1. CASE j <= 3
      BY <1>3, <3>1
    <3>2. CASE j > 3
      <4>1. j - 3 \in 1..(i - 1) /\ j - 3 \in 1..Width /\ j - 3 + 3 = j
        BY <1>2, <3>2
      <4>2. ds[j - 3] = es[j - 3] /\ a[j - 3 + 3] = ds[j - 3] /\ b[j - 3 + 3] = es[j - 3]
        BY <1>1, <2>1, <4>1
      <4>. QED  BY <4>1, <4>2
    <3>. QED  BY <3>1, <3>2
  <2>. QED  BY <2>2, <2>3 DEF L!Before
<1>. QED  BY <1>4, <1>5 DEF a, b

LEMMA HashKeyIs ==
  ASSUME NEW n \in Int, NEW f \in Seq(Int)
  PROVE  L!HashKey(n, f) \in Bytes /\ Len(L!HashKey(n, f)) >= 3 /\ L!HashKey(n, f)[1] = 2
<1>. DEFINE h == <<2, n, 0>>
<1>1. h \in Seq(Int) /\ Len(h) = 3 /\ h[1] = 2
  OBVIOUS
<1>2. L!HashKey(n, f) = h \o f
  BY DEF L!HashKey, L!ELevelHash
<1>. HIDE DEF h
<1>3. Len(f) \in Nat
  BY LenProperties
<1>. DEFINE c == Len(f)
            k == h \o f
<1>4. /\ k \in Seq(Int) /\ Len(k) = 3 + c
      /\ \A i \in 1..(3 + c) : k[i] = IF i <= 3 THEN h[i] ELSE f[i - 3]
  <2>1. /\ k \in Seq(Int) /\ Len(k) = Len(h) + c
        /\ \A i \in 1..(Len(h) + c) : k[i] = IF i <= Len(h) THEN h[i] ELSE f[i - Len(h)]
    BY <1>1, ConcatProperties
  <2>. HIDE DEF c, k
  <2>. QED  BY <1>1, <2>1
<1>5. 1 \in 1..(3 + Len(f)) /\ 3 + Len(f) >= 3
  BY <1>3
<1>6. (h \o f)[1] = 2
  BY <1>1, <1>4, <1>5
<1>. QED  BY <1>2, <1>4, <1>5, <1>6 DEF Bytes

KeysOf(n) == {L!ListKey(n, ds) : ds \in Numbers}
StoreKeys ==
  {L!ValueKey(n) : n \in Names} \cup {L!HashKey(n, f) : n \in Names, f \in Fields}
  \cup UNION {KeysOf(n) : n \in Names}

\* The byte strings that begin like the keys of a list and those around them.
Around(n) == {k \in Bytes : Len(k) >= 3 /\ k[1] = 3 /\ k[2] = n}

LEMMA AroundList ==
  ASSUME NEW n \in Names
  PROVE  /\ KeysOf(n) \subseteq Around(n) /\ L!StartKey(n) \in Around(n) /\ L!EndKey(n) \in Around(n)
         /\ \A ds \in Digits : L!ListKey(n, ds) \in Around(n)
<1>1. n \in Int /\ Width \in Nat
  BY StoreConstants
<1>2. \A ds \in Digits : L!ListKey(n, ds) \in Around(n)
  BY <1>1, ListKeyIs DEF Around
<1>3. KeysOf(n) \subseteq Around(n)
  BY <1>2, NumbersAreDigits DEF KeysOf
<1>4. L!StartKey(n) \in Around(n)
  BY <1>1 DEF L!StartKey, L!ELevelList, Around, Bytes
<1>5. L!EndKey(n) \in Around(n)
  BY <1>1 DEF L!EndKey, L!ELevelList, Around, Bytes
<1>. QED  BY <1>2, <1>3, <1>4, <1>5

LEMMA NamesAndFields == Names \subseteq Int /\ Fields \subseteq Seq(Int)
<1>1. \A f \in Fields : f \in Seq(Nat)
  BY StoreConstants
<1>2. \A f \in Seq(Nat) : f \in Seq(Int)
  OBVIOUS
<1>. QED  BY <1>1, <1>2, StoreConstants

LEMMA KeysAreBytes == StoreKeys \subseteq Bytes /\ \A n \in Names : KeysOf(n) \subseteq StoreKeys
<1>1. \A n \in Names : KeysOf(n) \subseteq Bytes
  BY AroundList DEF Around
<1>2. \A n \in Names : L!ValueKey(n) \in Bytes
  BY StoreConstants DEF L!ValueKey, L!ELevelValue, Bytes
<1>3. \A n \in Names, f \in Fields : L!HashKey(n, f) \in Bytes
  BY NamesAndFields, HashKeyIs
<1>. QED  BY <1>1, <1>2, <1>3 DEF StoreKeys

\* A key that is none of the list is before all of them or behind all of them.
LEMMA Outside ==
  ASSUME NEW n \in Names, NEW k \in StoreKeys, k \notin KeysOf(n)
  PROVE  \/ \A x \in Around(n) : L!Before(k, x)
         \/ \A x \in Around(n) : L!Before(x, k)
<1>0. n \in Int
  BY StoreConstants
<1>1. ASSUME NEW m \in Names, k = L!ValueKey(m) PROVE \A x \in Around(n) : L!Before(k, x)
  <2>1. Len(k) >= 1 /\ 1 \in DOMAIN k /\ k[1] = 1
    BY <1>1 DEF L!ValueKey, L!ELevelValue
  <2>. QED  BY <2>1 DEF L!Before, Around
<1>2. ASSUME NEW m \in Names, NEW f \in Fields, k = L!HashKey(m, f)
      PROVE  \A x \in Around(n) : L!Before(k, x)
  <2>1. k \in Bytes /\ Len(k) >= 3 /\ k[1] = 2
    BY <1>2, NamesAndFields, HashKeyIs
  <2>2. Len(k) >= 1 /\ 1 \in DOMAIN k
    BY <2>1, LenProperties DEF Bytes
  <2>. QED  BY <2>1, <2>2 DEF L!Before, Around
<1>3. ASSUME NEW m \in Names, NEW ds \in Numbers, k = L!ListKey(m, ds)
      PROVE  \/ \A x \in Around(n) : L!Before(k, x)
             \/ \A x \in Around(n) : L!Before(x, k)
  <2>1. m \in Int /\ m # n /\ k \in Seq(Int) /\ Len(k) = Width + 3 /\ k[1] = 3 /\ k[2] = m
    <3>1. m \in Int /\ m # n /\ ds \in Digits
      BY <1>3, StoreConstants, NumbersAreDigits DEF KeysOf
    <3>. QED  BY <1>3, <3>1, ListKeyIs DEF Bytes
  <2>2. Len(k) >= 3 /\ DOMAIN k = 1..Len(k)
    BY <2>1, StoreConstants, LenProperties
  <2>3. ASSUME m < n, NEW x \in Around(n) PROVE L!Before(k, x)
    <3>1. x \in Seq(Int) /\ Len(x) \in Nat /\ Len(x) >= 3 /\ x[1] = 3 /\ x[2] = n
      BY LenProperties DEF Around, Bytes
    <3>2. 2 \in 1..Len(x) /\ 2 <= Len(k) + 1 /\ \A j \in 1..(2 - 1) : k[j] = x[j]
      BY <2>1, <2>2, <3>1
    <3>. QED  BY <2>1, <2>3, <3>1, <3>2 DEF L!Before
  <2>4. ASSUME n < m, NEW x \in Around(n) PROVE L!Before(x, k)
    <3>1. x \in Seq(Int) /\ Len(x) \in Nat /\ Len(x) >= 3 /\ x[1] = 3 /\ x[2] = n
      BY LenProperties DEF Around, Bytes
    <3>2. 2 \in 1..Len(k) /\ 2 <= Len(x) + 1 /\ \A j \in 1..(2 - 1) : k[j] = x[j]
      BY <2>1, <2>2, <3>1
    <3>. QED  BY <2>1, <2>4, <3>1, <3>2 DEF L!Before
  <2>. QED  BY <1>0, <2>1, <2>3, <2>4
<1>. QED  BY <1>1, <1>2, <1>3 DEF StoreKeys, KeysOf

-----------------------------------------------------------------------------
(* The store.  Its keys are those the operations make, and the ones of a   *)
(* list lie together, in the order of their numbers.                       *)

StoreInv == IsFiniteSet(DOMAIN db) /\ DOMAIN db \subseteq StoreKeys /\ db \in [DOMAIN db -> Datas]

\* The keys of list n.
Mine(n) == DOMAIN db \cap KeysOf(n)

LEMMA BeforeAsymmetric ==
  ASSUME NEW a \in Bytes, NEW b \in Bytes, L!Before(a, b)
  PROVE  ~L!Before(b, a)
BY BeforeIrreflexive, BeforeTransitive

LEMMA MineIs ==
  ASSUME StoreInv, NEW n \in Names
  PROVE  /\ L!Between(L!StartKey(n), L!EndKey(n)) = Mine(n)
         /\ Mine(n) \in SUBSET Bytes /\ IsFiniteSet(Mine(n))
<1>1. Mine(n) \in SUBSET Bytes /\ IsFiniteSet(Mine(n))
  <2>1. Mine(n) \in SUBSET DOMAIN db
    BY DEF Mine
  <2>2. IsFiniteSet(Mine(n))
    BY <2>1, FS_Subset DEF StoreInv
  <2>. QED  BY <2>1, <2>2, KeysAreBytes DEF StoreInv
<1>2. ASSUME NEW k \in Mine(n) PROVE ~L!Before(k, L!StartKey(n)) /\ L!Before(k, L!EndKey(n))
  <2>1. PICK ds \in Numbers : k = L!ListKey(n, ds)
    BY DEF Mine, KeysOf
  <2>2. /\ k \in Bytes /\ Len(k) = Width + 3 /\ k[1] = 3 /\ k[2] = n /\ k[3] = 0
        /\ n \in Int /\ Width \in Nat \ {0}
    BY <2>1, ListKeyIs, NumbersAreDigits, StoreConstants
  <2>3. L!Before(L!StartKey(n), k)
    <3>. DEFINE a == <<3, n, 0>>
    <3>1. a[1] = 3 /\ a[2] = n /\ a[3] = 0 /\ Len(a) = 3 /\ DOMAIN a = 1..3
      OBVIOUS
    <3>2. L!StartKey(n) = a
      BY DEF L!StartKey, L!ELevelList
    <3>. HIDE DEF a
    <3>3. 4 \in 1..Len(k) /\ 4 <= Len(a) + 1 /\ 4 \notin DOMAIN a
      BY <2>2, <3>1
    <3>4. \A j \in 1..(4 - 1) : a[j] = k[j]
      <4>1. \A j \in 1..(4 - 1) : j = 1 \/ j = 2 \/ j = 3
        OBVIOUS
      <4>. QED  BY <2>2, <3>1, <4>1
    <3>. QED  BY <3>2, <3>3, <3>4 DEF L!Before
  <2>4. L!Before(k, L!EndKey(n))
    <3>. DEFINE a == <<3, n, 1>>
    <3>1. a[1] = 3 /\ a[2] = n /\ a[3] = 1 /\ Len(a) = 3
      OBVIOUS
    <3>2. L!EndKey(n) = a
      BY DEF L!EndKey, L!ELevelList
    <3>. HIDE DEF a
    <3>3. 3 \in 1..Len(a) /\ 3 <= Len(k) + 1 /\ k[3] < a[3]
      BY <2>2, <3>1
    <3>4. \A j \in 1..(3 - 1) : k[j] = a[j]
      <4>1. \A j \in 1..(3 - 1) : j = 1 \/ j = 2
        OBVIOUS
      <4>. QED  BY <2>2, <3>1, <4>1
    <3>. QED  BY <3>2, <3>3, <3>4 DEF L!Before
  <2>5. L!StartKey(n) \in Bytes
    BY AroundList DEF Around
  <2>. QED  BY <2>2, <2>3, <2>4, <2>5, BeforeAsymmetric
<1>3. ASSUME NEW k \in DOMAIN db, k \notin KeysOf(n)
      PROVE  ~(~L!Before(k, L!StartKey(n)) /\ L!Before(k, L!EndKey(n)))
  <2>1. k \in StoreKeys /\ k \in Bytes
    BY KeysAreBytes DEF StoreInv
  <2>2. L!StartKey(n) \in Around(n) /\ L!EndKey(n) \in Around(n) /\ L!EndKey(n) \in Bytes
    BY AroundList DEF Around
  <2>3. L!Before(k, L!StartKey(n)) \/ L!Before(L!EndKey(n), k)
    BY <1>3, <2>1, <2>2, Outside
  <2>. QED  BY <2>1, <2>2, <2>3, BeforeAsymmetric
<1>. QED  BY <1>1, <1>2, <1>3 DEF L!Between, Mine

\* The keys of a list in their order.
LEMMA ListKeysAre ==
  ASSUME StoreInv, NEW n \in Names
  PROVE  /\ Cardinality(Mine(n)) \in Nat
         /\ InKeyOrder(L!ListKeys(n), Cardinality(Mine(n)), Mine(n))
         /\ DOMAIN L!ListKeys(n) = 1..Cardinality(Mine(n))
         /\ Len(L!ListKeys(n)) = Cardinality(Mine(n))
<1>1. L!ListKeys(n) = L!InOrder(Mine(n))
  BY MineIs DEF L!ListKeys
<1>2. /\ Cardinality(Mine(n)) \in Nat
      /\ InKeyOrder(L!ListKeys(n), Cardinality(Mine(n)), Mine(n))
  BY <1>1, MineIs, InOrderSorts
<1>3. L!ListKeys(n) \in [1..Cardinality(Mine(n)) -> Mine(n)]
  BY <1>2 DEF InKeyOrder
<1>. QED  BY <1>2, <1>3, LenProperties

LEMMA AfterKeyIs ==
  ASSUME NEW n \in Int, NEW ds \in Digits
  PROVE  L!AfterKey(L!ListKey(n, ds)) = L!ListKey(n, L!Carried(ds, TRUE, 0))
<1>1. L!AfterKey(L!ListKey(n, ds)) = <<3, n, 0>> \o L!Carried(ds, TRUE, 0)
  BY DigitsOfKey, Zenon DEF L!AfterKey
<1>. QED  BY <1>1, Zenon DEF L!ListKey, L!ELevelList

\* What lrange and ltrim take for the end of a list's range: behind the key, before the next.
LEMMA AfterTells ==
  ASSUME StoreInv, NEW n \in Names, NEW j \in DOMAIN L!ListKeys(n)
  PROVE  /\ L!AfterKey(L!ListKeys(n)[j]) \in Around(n) /\ L!AfterKey(L!ListKeys(n)[j]) \in Bytes
         /\ \A h \in DOMAIN L!ListKeys(n) :
              L!Before(L!ListKeys(n)[h], L!AfterKey(L!ListKeys(n)[j])) <=> h <= j
<1>. DEFINE ks == L!ListKeys(n)
            N == Cardinality(Mine(n))
            a == L!AfterKey(ks[j])
<1>1. N \in Nat /\ InKeyOrder(ks, N, Mine(n)) /\ DOMAIN ks = 1..N
  BY ListKeysAre
<1>. HIDE DEF ks, N
<1>2. /\ j \in 1..N
      /\ \A h \in 1..N : ks[h] \in Mine(n) /\ ks[h] \in KeysOf(n) /\ ks[h] \in Bytes
      /\ \A h, m \in 1..N : h < m => L!Before(ks[h], ks[m])
      /\ \A k \in Mine(n) : \E h \in 1..N : ks[h] = k
  BY <1>1, MineIs DEF InKeyOrder, Mine, ks
<1>3. PICK ds \in Numbers : ks[j] = L!ListKey(n, ds)
  BY <1>2 DEF KeysOf
<1>4. PICK cs \in Digits : /\ a = L!ListKey(n, cs) /\ Less(ds, cs)
                           /\ \A es \in Numbers : Less(ds, es) => ~Less(es, cs)
  <2>1. a = L!ListKey(n, L!Carried(ds, TRUE, 0))
    <3>1. n \in Int /\ ds \in Digits
      BY StoreConstants, NumbersAreDigits
    <3>2. a = L!AfterKey(L!ListKey(n, ds))
      BY <1>3
    <3>. QED  BY <3>1, <3>2, AfterKeyIs, Zenon
  <2>2. /\ L!Carried(ds, TRUE, 0) \in Digits /\ Less(ds, L!Carried(ds, TRUE, 0))
        /\ \A es \in Numbers : Less(ds, es) => ~Less(es, L!Carried(ds, TRUE, 0))
    BY CarriedIsNext, Zenon
  <2>. QED  BY <2>1, <2>2, Zenon
<1>. HIDE DEF a
<1>5. n \in Int /\ ds \in Digits /\ a \in Around(n) /\ a \in Bytes
  BY <1>4, StoreConstants, NumbersAreDigits, AroundList DEF Around
<1>6. L!Before(ks[j], a)
  BY <1>3, <1>4, <1>5, ListKeysOrdered
<1>7. ASSUME NEW h \in 1..N PROVE L!Before(ks[h], a) <=> h <= j
  <2>0. h \in Int /\ j \in Int /\ ks[h] \in Bytes /\ ks[j] \in Bytes
    BY <1>1, <1>2
  <2>1. CASE h = j
    BY <1>6, <2>0, <2>1
  <2>2. CASE h < j
    BY <1>2, <1>5, <1>6, <2>0, <2>2, BeforeTransitive
  <2>3. CASE h > j
    <3>1. PICK es \in Numbers : ks[h] = L!ListKey(n, es)
      BY <1>2 DEF KeysOf
    <3>2. es \in Digits
      BY NumbersAreDigits
    <3>3. Less(ds, es)
      BY <1>2, <1>3, <1>5, <2>0, <2>3, <3>1, <3>2, ListKeysOrdered
    <3>4. ~L!Before(ks[h], a)
      BY <1>4, <1>5, <3>1, <3>2, <3>3, ListKeysOrdered
    <3>. QED  BY <2>0, <2>3, <3>4
  <2>. QED  BY <2>0, <2>1, <2>2, <2>3
<1>. QED  BY <1>1, <1>5, <1>7 DEF ks, a

\* From a key of a list to behind another one: the keys between the two.
LEMMA RangeIs ==
  ASSUME StoreInv, NEW n \in Names, NEW i \in DOMAIN L!ListKeys(n), NEW j \in DOMAIN L!ListKeys(n)
  PROVE  /\ L!Between(L!ListKeys(n)[i], L!AfterKey(L!ListKeys(n)[j])) = {L!ListKeys(n)[h] : h \in i..j}
         /\ L!ListKeys(n)[i] # <<>>
<1>. DEFINE ks == L!ListKeys(n)
            N == Cardinality(Mine(n))
            a == L!AfterKey(ks[j])
<1>1. N \in Nat /\ InKeyOrder(ks, N, Mine(n)) /\ DOMAIN ks = 1..N
  BY ListKeysAre
<1>2. a \in Around(n) /\ a \in Bytes
  BY AfterTells
<1>3. \A h \in 1..N : L!Before(ks[h], a) <=> h <= j
  BY <1>1, AfterTells
<1>. HIDE DEF ks, N, a
<1>4. /\ i \in 1..N /\ j \in 1..N
      /\ \A h \in 1..N : ks[h] \in Mine(n) /\ ks[h] \in KeysOf(n) /\ ks[h] \in Bytes
      /\ \A h, m \in 1..N : h < m => L!Before(ks[h], ks[m])
      /\ \A k \in Mine(n) : \E h \in 1..N : ks[h] = k
  BY <1>1, MineIs DEF InKeyOrder, Mine, ks
<1>5. ASSUME NEW h \in 1..N PROVE ~L!Before(ks[h], ks[i]) <=> i <= h
  <2>0. h \in Int /\ i \in Int /\ ks[h] \in Bytes /\ ks[i] \in Bytes
    BY <1>1, <1>4
  <2>1. h < i => L!Before(ks[h], ks[i])
    BY <1>4
  <2>2. i < h => ~L!Before(ks[h], ks[i])
    BY <1>4, <2>0, BeforeAsymmetric
  <2>3. h = i => ~L!Before(ks[h], ks[i])
    BY <2>0, BeforeIrreflexive
  <2>. QED  BY <2>0, <2>1, <2>2, <2>3
<1>6. ASSUME NEW k \in DOMAIN db, ~L!Before(k, ks[i]), L!Before(k, a)
      PROVE  k \in Mine(n)
  <2>1. k \in StoreKeys /\ k \in Bytes /\ ks[i] \in Around(n)
    BY <1>4, KeysAreBytes, AroundList DEF StoreInv
  <2>2. k \in KeysOf(n)
    BY <1>2, <1>6, <2>1, Outside, BeforeAsymmetric
  <2>. QED  BY <2>2 DEF Mine
<1>7. L!Between(ks[i], a) = {ks[h] : h \in i..j}
  <2>1. ASSUME NEW k \in L!Between(ks[i], a) PROVE k \in {ks[h] : h \in i..j}
    <3>1. k \in DOMAIN db /\ ~L!Before(k, ks[i]) /\ L!Before(k, a)
      BY DEF L!Between
    <3>2. PICK h \in 1..N : ks[h] = k
      BY <1>4, <1>6, <3>1
    <3>3. h \in i..j
      BY <1>1, <1>4, <1>3, <1>5, <3>1, <3>2
    <3>. QED  BY <3>2, <3>3
  <2>2. ASSUME NEW h \in i..j PROVE ks[h] \in L!Between(ks[i], a)
    <3>1. h \in 1..N /\ i <= h /\ h <= j
      BY <1>1, <1>4
    <3>2. ks[h] \in DOMAIN db
      BY <1>4, <3>1 DEF Mine
    <3>. QED  BY <1>3, <1>5, <3>1, <3>2 DEF L!Between
  <2>. QED  BY <2>1, <2>2
<1>8. ks[i] # <<>>
  <2>1. Len(ks[i]) # 0
    BY <1>4, AroundList DEF Around
  <2>. QED  BY <2>1
<1>. QED  BY <1>7, <1>8 DEF ks, a

\* The members from i to j of a sequence, and their sequence.
Members(ks, i, j) == {ks[h] : h \in i..j}
Part(ks, i, j) == [h \in 1..(IF i <= j THEN j - i + 1 ELSE 0) |-> ks[h + i - 1]]

\* Some keys of a list that follow each other are in their order already.
LEMMA PartInOrder ==
  ASSUME NEW S \in SUBSET Bytes, NEW N \in Nat, NEW ks, InKeyOrder(ks, N, S),
         NEW i \in 1..N, NEW j \in 1..N
  PROVE  L!InOrder(Members(ks, i, j)) = Part(ks, i, j)
<1>. DEFINE n == IF i <= j THEN j - i + 1 ELSE 0
            q == [h \in 1..n |-> ks[h + i - 1]]
            T == {ks[h] : h \in i..j}
<1>1. n \in Nat
  OBVIOUS
<1>2. \A h \in 1..N : ks[h] \in S
  BY DEF InKeyOrder
<1>3. \A h \in 1..n : h + i - 1 \in i..j /\ h + i - 1 \in 1..N
  OBVIOUS
<1>4. T \in SUBSET Bytes
  <2>1. \A h \in i..j : h \in 1..N
    OBVIOUS
  <2>. QED  BY <1>2, <2>1
<1>5. InKeyOrder(q, n, T)
  <2>1. q \in [1..n -> T]
    BY <1>3
  <2>2. ASSUME NEW h \in 1..n, NEW m \in 1..n, h < m PROVE L!Before(q[h], q[m])
    <3>1. h + i - 1 < m + i - 1
      BY <2>2
    <3>2. L!Before(ks[h + i - 1], ks[m + i - 1])
      BY <1>3, <3>1 DEF InKeyOrder
    <3>. QED  BY <3>2
  <2>3. ASSUME NEW k \in T PROVE \E h \in 1..n : q[h] = k
    <3>1. PICK m \in i..j : k = ks[m]
      OBVIOUS
    <3>2. m - i + 1 \in 1..n /\ m - i + 1 + i - 1 = m
      OBVIOUS
    <3>3. q[m - i + 1] = k
      BY <3>1, <3>2
    <3>. QED  BY <3>2, <3>3
  <2>. HIDE DEF q, n, T
  <2>. QED  BY <2>1, <2>2, <2>3 DEF InKeyOrder
<1>. HIDE DEF q, n, T
<1>6. L!InOrder(T) = q
  BY <1>1, <1>4, <1>5, InOrderIs
<1>. QED  BY <1>6 DEF T, q, n, Members, Part

LEMMA RangesFollow == ASSUME StoreInv PROVE L!RangesAgree
<1>. SUFFICES ASSUME NEW n \in Names, NEW i \in DOMAIN L!ListOf(n), NEW j \in DOMAIN L!ListOf(n)
              PROVE  L!LRange(n, i - 1, j - 1) = SubSeq(L!ListOf(n), i, j)
  BY DEF L!RangesAgree
<1>. DEFINE ks == L!ListKeys(n)
            N == Cardinality(Mine(n))
            w == L!ListOf(n)
            m == IF i <= j THEN j - i + 1 ELSE 0
            q == [h \in 1..m |-> ks[h + i - 1]]
<1>1. N \in Nat /\ InKeyOrder(ks, N, Mine(n)) /\ DOMAIN ks = 1..N /\ Len(ks) = N
  BY ListKeysAre
<1>2. w = [h \in 1..N |-> db[ks[h]]]
  BY <1>1 DEF L!ListOf, L!DataOf
<1>3. i \in 1..N /\ j \in 1..N
  BY <1>2
<1>4. L!KeyAt(n, i - 1) = ks[i] /\ L!KeyAt(n, j - 1) = ks[j]
  <2>1. i - 1 >= 0 /\ i - 1 + 1 = i /\ j - 1 >= 0 /\ j - 1 + 1 = j
    BY <1>3
  <2>2. i \in DOMAIN ks /\ j \in DOMAIN ks
    BY <1>1, <1>3
  <2>. HIDE DEF ks
  <2>. QED  BY <2>1, <2>2 DEF L!KeyAt, ks
<1>5. /\ L!Between(ks[i], L!AfterKey(ks[j])) = {ks[h] : h \in i..j}
      /\ ks[i] # <<>> /\ ks[j] # <<>>
  BY <1>1, <1>3, RangeIs
<1>. HIDE DEF ks, N
<1>6. L!InOrder({ks[h] : h \in i..j}) = q
  <2>1. Mine(n) \in SUBSET Bytes
    BY MineIs
  <2>2. L!InOrder(Members(ks, i, j)) = Part(ks, i, j)
    BY <1>1, <1>3, <2>1, PartInOrder
  <2>. QED  BY <2>2, Zenon DEF Members, Part
<1>7. L!LRange(n, i - 1, j - 1) = L!DataOf(q)
  BY <1>4, <1>5, <1>6 DEF L!LRange
<1>8. m \in Nat /\ \A h \in 1..m : h + i - 1 \in 1..N
  BY <1>1, <1>3
<1>9. L!DataOf(q) = [h \in 1..m |-> db[ks[h + i - 1]]]
  <2>. HIDE DEF m
  <2>1. DOMAIN q = 1..m /\ \A h \in 1..m : q[h] = ks[h + i - 1]
    OBVIOUS
  <2>. HIDE DEF q
  <2>. QED  BY <2>1 DEF L!DataOf
<1>10. SubSeq(w, i, j) = [h \in 1..m |-> w[h + i - 1]]
  <2>1. w \in Seq(Datas)
    <3>1. \A h \in 1..N : db[ks[h]] \in Datas
      BY <1>1 DEF InKeyOrder, Mine, StoreInv
    <3>. HIDE DEF w
    <3>. QED  BY <1>1, <1>2, <3>1, IsASeq
  <2>2. \A h \in i..j : w[h] \in Datas
    <3>1. Len(w) = N
      BY <1>1, <1>2, LenProperties, <2>1
    <3>. HIDE DEF w
    <3>2. \A h \in i..j : h \in 1..Len(w)
      BY <1>1, <1>3, <3>1
    <3>. QED  BY <2>1, <3>2, ElementOfSeq
  <2>. HIDE DEF w
  <2>3. /\ SubSeq(w, i, j) \in Seq(Datas)
        /\ Len(SubSeq(w, i, j)) = IF i <= j THEN j - i + 1 ELSE 0
        /\ \A h \in 1..(j - i + 1) : SubSeq(w, i, j)[h] = w[i + h - 1]
    BY <1>3, <2>2, SubSeqProperties
  <2>4. \A h \in 1..m : h \in 1..(j - i + 1) /\ i + h - 1 = h + i - 1
    BY <1>3
  <2>5. Len(SubSeq(w, i, j)) = m /\ \A h \in 1..m : SubSeq(w, i, j)[h] = w[h + i - 1]
    BY <2>3, <2>4
  <2>. HIDE DEF m
  <2>. QED  BY <2>3, <2>5, LenProperties
<1>11. \A h \in 1..m : w[h + i - 1] = db[ks[h + i - 1]]
  <2>. HIDE DEF w, m
  <2>. QED  BY <1>2, <1>8
<1>12. [h \in 1..m |-> w[h + i - 1]] = [h \in 1..m |-> db[ks[h + i - 1]]]
  <2>. HIDE DEF w, m
  <2>. QED  BY <1>11
<1>13. SubSeq(w, i, j) = L!LRange(n, i - 1, j - 1)
  <2>. HIDE DEF w, m, q
  <2>. QED  BY <1>7, <1>9, <1>10, <1>12
<1>. QED  BY <1>13

-----------------------------------------------------------------------------
(* The operations keep the store what it is.                               *)

LEMMA InitStoreInv == ASSUME L!Init PROVE StoreInv
<1>1. db = <<>> /\ DOMAIN db = {}
  BY DEF L!Init
<1>2. db \in [DOMAIN db -> Datas]
  BY <1>1
<1>. QED  BY <1>1, <1>2, FS_EmptySet DEF StoreInv

LEMMA PutStoreInv ==
  ASSUME StoreInv, NEW k \in StoreKeys, NEW d \in Datas, L!Put({k}, d)
  PROVE  StoreInv' /\ DOMAIN db' = DOMAIN db \cup {k}
<1>1. db' = [l \in DOMAIN db \cup {k} |-> IF l \in {k} THEN d ELSE db[l]]
  BY DEF L!Put
<1>2. DOMAIN db' = DOMAIN db \cup {k}
  BY <1>1
<1>3. db' \in [DOMAIN db' -> Datas]
  BY <1>1, <1>2 DEF StoreInv
<1>4. IsFiniteSet(DOMAIN db')
  BY <1>2, FS_AddElement DEF StoreInv
<1>. QED  BY <1>2, <1>3, <1>4 DEF StoreInv

LEMMA DeleteStoreInv ==
  ASSUME StoreInv, NEW D, L!Delete(D)
  PROVE  StoreInv' /\ DOMAIN db' = DOMAIN db \ D /\ \A k \in DOMAIN db' : db'[k] = db[k]
<1>1. db' = [l \in DOMAIN db \ D |-> db[l]]
  BY DEF L!Delete
<1>2. DOMAIN db' = DOMAIN db \ D
  BY <1>1
<1>3. db' \in [DOMAIN db' -> Datas]
  BY <1>1, <1>2 DEF StoreInv
<1>4. IsFiniteSet(DOMAIN db')
  BY <1>2, FS_Subset DEF StoreInv
<1>. QED  BY <1>1, <1>2, <1>3, <1>4 DEF StoreInv

\* The key at an index is one of the list.
LEMMA KeyAtIs ==
  ASSUME StoreInv, NEW n \in Names, NEW idx \in Int, L!KeyAt(n, idx) # <<>>
  PROVE  \E i \in DOMAIN L!ListKeys(n) :
           /\ L!KeyAt(n, idx) = L!ListKeys(n)[i]
           /\ i = IF idx >= 0 THEN idx + 1 ELSE Len(L!ListKeys(n)) + 1 + idx
BY DEF L!KeyAt

LEMMA KeyOfListIs ==
  ASSUME StoreInv, NEW n \in Names, NEW i \in DOMAIN L!ListKeys(n)
  PROVE  L!ListKeys(n)[i] \in Mine(n) /\ L!ListKeys(n)[i] \in KeysOf(n) /\ L!ListKeys(n)[i] \in StoreKeys
<1>1. L!ListKeys(n) \in [DOMAIN L!ListKeys(n) -> Mine(n)]
  BY ListKeysAre DEF InKeyOrder
<1>2. L!ListKeys(n)[i] \in Mine(n)
  BY <1>1
<1>. QED  BY <1>2, KeysAreBytes DEF Mine

\* What lpush writes: a key of the list, before all that are there or behind them.
LEMMA LPushIs ==
  ASSUME StoreInv, NEW n \in Names, NEW d \in Datas, NEW left \in BOOLEAN, L!LPush(n, d, left)
  PROVE  \E k \in KeysOf(n) :
           /\ L!Put({k}, d)
           /\ \A l \in Mine(n) : IF left THEN L!Before(k, l) ELSE L!Before(l, k)
<1>. DEFINE ks == L!ListKeys(n)
            N == Cardinality(Mine(n))
            end == L!KeyAt(n, IF left THEN 0 ELSE -1)
            ds == IF end = <<>> THEN L!FirstDigits(~left) ELSE L!NextDigits(L!Rest(end), ~left)
<1>1. ds \notin {<<>>, L!LastDigits} /\ L!Put({L!ListKey(n, ds)}, d)
  BY DEF L!LPush
<1>2. N \in Nat /\ InKeyOrder(ks, N, Mine(n)) /\ DOMAIN ks = 1..N /\ Len(ks) = N
  BY ListKeysAre
<1>3. (IF left THEN 0 ELSE -1) \in Int /\ (~left) \in BOOLEAN
  OBVIOUS
<1>. HIDE DEF end, ds, N, ks
<1>4. CASE end = <<>>
  <2>1. N = 0
    <3>1. ASSUME N # 0 PROVE FALSE
      <4>. DEFINE e == IF left THEN 1 ELSE N
      <4>1. e \in DOMAIN ks
        BY <1>2, <3>1
      <4>2. end = ks[e]
        <5>1. CASE left
          BY <4>1, <5>1 DEF end, L!KeyAt, ks
        <5>2. CASE ~left
          <6>1. end = L!KeyAt(n, -1)
            BY <5>2 DEF end
          <6>2. ~(-1 >= 0) /\ Len(ks) + 1 + (-1) = N
            BY <1>2
          <6>. QED  BY <4>1, <5>2, <6>1, <6>2 DEF L!KeyAt, ks
        <5>. QED  BY <5>1, <5>2
      <4>3. ks[e] # <<>>
        BY <4>1, RangeIs DEF ks
      <4>. QED  BY <1>4, <4>2, <4>3
    <3>. QED  BY <3>1
  <2>2. Mine(n) = {}
    BY <1>2, <2>1 DEF InKeyOrder
  <2>3. ds = L!FirstDigits(~left)
    BY <1>4 DEF ds
  <2>4. ds \in Numbers
    <3>1. /\ ds \in [1..Width -> 1..(Top - 1)]
          /\ ds[Width] = IF ~left THEN Mid + 1 ELSE Mid - 1
      BY <1>3, <2>3, FirstIs
    <3>2. Width \in 1..Width /\ ds[Width] # Mid
      BY <3>1, StoreConstants
    <3>. QED  BY <1>1, <3>1, <3>2 DEF Numbers
  <2>. QED  BY <1>1, <2>2, <2>4 DEF KeysOf
<1>5. CASE end # <<>>
  <2>1. PICK i \in DOMAIN ks : end = ks[i] /\ i = IF left THEN 1 ELSE N
    <3>1. PICK i \in DOMAIN ks : /\ end = ks[i]
                                 /\ i = IF (IF left THEN 0 ELSE -1) >= 0 THEN (IF left THEN 0 ELSE -1) + 1
                                        ELSE Len(ks) + 1 + (IF left THEN 0 ELSE -1)
      BY <1>3, <1>5, KeyAtIs DEF end, ks
    <3>2. i = IF left THEN 1 ELSE N
      BY <1>2, <3>1
    <3>. QED  BY <3>1, <3>2
  <2>2. PICK es \in Numbers : end = L!ListKey(n, es)
    BY <2>1, KeyOfListIs DEF KeysOf, ks
  <2>3. n \in Int /\ es \in Digits
    BY StoreConstants, NumbersAreDigits
  <2>4. ds = L!NextDigits(es, ~left)
    <3>1. L!Rest(end) = es
      BY <2>2, <2>3, DigitsOfKey
    <3>. QED  BY <1>5, <3>1 DEF ds
  <2>5. ds \in Numbers /\ (IF ~left THEN Less(es, ds) ELSE Less(ds, es))
    BY <1>1, <1>3, <2>4, NextIsBeyond
  <2>6. IF left THEN L!Before(L!ListKey(n, ds), end) ELSE L!Before(end, L!ListKey(n, ds))
    BY <2>2, <2>3, <2>5, NumbersAreDigits, ListKeysOrdered
  <2>. DEFINE k == L!ListKey(n, ds)
  <2>7. k \in KeysOf(n) /\ k \in Bytes
    BY <2>5, KeysAreBytes DEF KeysOf
  <2>. HIDE DEF k
  <2>8. ASSUME NEW l \in Mine(n) PROVE IF left THEN L!Before(k, l) ELSE L!Before(l, k)
    <3>1. PICK h \in 1..N : ks[h] = l
      BY <1>2 DEF InKeyOrder
    <3>2. l \in Bytes /\ end \in Bytes /\ h \in Int /\ i \in 1..N
      BY <1>2, <2>1, MineIs, KeyOfListIs, KeysAreBytes DEF ks
    <3>3. h = i \/ (IF left THEN L!Before(end, l) ELSE L!Before(l, end))
      BY <1>2, <2>1, <3>1, <3>2 DEF InKeyOrder
    <3>. QED  BY <2>1, <2>6, <2>7, <3>1, <3>2, <3>3, BeforeTransitive DEF k
  <2>. QED  BY <1>1, <2>7, <2>8 DEF k
<1>. QED  BY <1>4, <1>5

\* Every operation keeps StoreInv.
LEMMA NextStoreInv == ASSUME StoreInv, L!Next PROVE StoreInv'
<1>1. PICK n \in Names :
        \/ L!HDrop(n) \/ L!LDrop(n)
        \/ \E left \in BOOLEAN : L!LPop(n, left) \/ \E d \in Datas : L!LPush(n, d, left)
        \/ \E i, j \in Indices : L!LTrim(n, i, j)
        \/ \E d \in Datas : (\E i \in Indices : L!LSet(n, i, d)) \/ \E c \in 1..2 : L!LDel(n, c, d)
        \/ \E d \in Datas : L!VSet(n, d) \/ \E f \in Fields : L!HSet(n, f, d)
        \/ \E fs \in (SUBSET Fields) \ {{}} : L!HDel(n, fs)
        \/ \E ns \in (SUBSET Names) \ {{}} : L!VDel(ns)
  BY Zenon DEF L!Next
<1>2. ASSUME NEW D, L!Delete(D) PROVE StoreInv'
  BY <1>2, DeleteStoreInv
<1>3. ASSUME NEW seq, L!DeleteEach(seq) PROVE StoreInv'
  BY <1>2, <1>3 DEF L!DeleteEach
<1>4. CASE L!HDrop(n) \/ L!LDrop(n)
  BY <1>3, <1>4 DEF L!HDrop, L!LDrop
<1>5. ASSUME NEW left \in BOOLEAN, L!LPop(n, left) PROVE StoreInv'
  BY <1>2, <1>5 DEF L!LPop
<1>6. ASSUME NEW left \in BOOLEAN, NEW d \in Datas, L!LPush(n, d, left) PROVE StoreInv'
  BY <1>6, LPushIs, KeysAreBytes, PutStoreInv
<1>7. ASSUME NEW i \in Indices, NEW j \in Indices, L!LTrim(n, i, j) PROVE StoreInv'
  BY <1>3, <1>7 DEF L!LTrim
<1>8. ASSUME NEW d \in Datas, NEW i \in Indices, L!LSet(n, i, d) PROVE StoreInv'
  <2>1. i \in Int
    BY StoreConstants
  <2>2. L!KeyAt(n, i) \in StoreKeys
    BY <1>8, <2>1, KeyAtIs, KeyOfListIs DEF L!LSet
  <2>. QED  BY <1>8, <2>2, PutStoreInv DEF L!LSet
<1>9. ASSUME NEW d \in Datas, NEW c, L!LDel(n, c, d) PROVE StoreInv'
  BY <1>3, <1>9 DEF L!LDel
<1>10. ASSUME NEW d \in Datas, L!VSet(n, d) PROVE StoreInv'
  <2>1. L!ValueKey(n) \in StoreKeys
    BY DEF StoreKeys
  <2>. QED  BY <1>10, <2>1, PutStoreInv DEF L!VSet
<1>11. ASSUME NEW d \in Datas, NEW f \in Fields, L!HSet(n, f, d) PROVE StoreInv'
  <2>1. L!HashKey(n, f) \in StoreKeys
    BY DEF StoreKeys
  <2>. QED  BY <1>11, <2>1, PutStoreInv DEF L!HSet
<1>12. ASSUME NEW fs, L!HDel(n, fs) PROVE StoreInv'
  BY <1>2, <1>12 DEF L!HDel
<1>13. ASSUME NEW ns, L!VDel(ns) PROVE StoreInv'
  BY <1>2, <1>13 DEF L!VDel
<1>. QED  BY <1>1, <1>4, <1>5, <1>6, <1>7, <1>8, <1>9, <1>10, <1>11, <1>12, <1>13, Zenon

LEMMA AlwaysStoreInv == L!Spec => []StoreInv
<1>1. L!Init => StoreInv
  BY InitStoreInv
<1>2. StoreInv /\ [L!Next]_db => StoreInv'
  <2>1. ASSUME StoreInv, UNCHANGED db PROVE StoreInv'
    BY <2>1 DEF StoreInv
  <2>. QED  BY <2>1, NextStoreInv
<1>. QED  BY <1>1, <1>2, PTL DEF L!Spec

\* However the digits of the keys carry and whatever else is in the store: lrange returns the
\* elements between its two indices.
THEOREM RangesAlwaysAgree == L!Spec => []RangesAgree
<1>1. StoreInv => RangesAgree
  BY RangesFollow DEF RangesAgree
<1>. QED  BY <1>1, AlwaysStoreInv, PTL

-----------------------------------------------------------------------------
(* What is left of a sequence when only some of its elements stay.         *)

NatOrder(K) == {p \in K \X K : p[1] < p[2]}

LEMMA NatsOrdered ==
  ASSUME NEW K \in SUBSET Int
  PROVE  /\ \A a, b \in K : <<a, b>> \in NatOrder(K) <=> a < b
         /\ Orders(NatOrder(K), K)
<1>1. \A a, b \in K : <<a, b>> \in NatOrder(K) <=> a < b
  BY DEF NatOrder
<1>2. \A a \in K : a \in Int
  OBVIOUS
<1>3. \A a, b \in K : a # b => <<a, b>> \in NatOrder(K) \/ <<b, a>> \in NatOrder(K)
  BY <1>1, <1>2
<1>4. \A a, b, c \in K : <<a, b>> \in NatOrder(K) /\ <<b, c>> \in NatOrder(K) => <<a, c>> \in NatOrder(K)
  BY <1>1, <1>2
<1>5. \A a \in K : <<a, a>> \notin NatOrder(K)
  BY <1>1, <1>2
<1>. QED  BY <1>1, <1>3, <1>4, <1>5 DEF Orders

\* q has the indices of K once each, upwards.
Ascends(q, c, K) ==
  /\ q \in [1..c -> K]
  /\ \A i, j \in 1..c : i < j => q[i] < q[j]
  /\ \A k \in K : \E i \in 1..c : q[i] = k

LEMMA AscendingSorts ==
  ASSUME NEW K \in SUBSET Int, NEW c \in Nat, NEW q
  PROVE  Ascends(q, c, K) <=> Sorts(q, c, K, NatOrder(K))
<1>1. ASSUME q \in [1..c -> K], NEW i \in 1..c, NEW j \in 1..c
      PROVE  q[i] < q[j] <=> <<q[i], q[j]>> \in NatOrder(K)
  BY <1>1, NatsOrdered
<1>. QED  BY <1>1 DEF Ascends, Sorts

Below(K, x) == {k \in K : k < x}

\* In an ascending sequence of the indices the i-th has i - 1 before it.
LEMMA AscendingCount ==
  ASSUME NEW K \in SUBSET Int, NEW c \in Nat, NEW q, Ascends(q, c, K), NEW i \in 1..c
  PROVE  Cardinality(Below(K, q[i])) = i - 1
<1>. DEFINE T == Below(K, q[i])
            r == [h \in 1..(i - 1) |-> q[h]]
<1>0. i - 1 \in Nat /\ T \in SUBSET Int /\ i \in Int
  <2>1. i - 1 \in Nat /\ i \in Int
    OBVIOUS
  <2>2. T \in SUBSET Int
    BY DEF Below
  <2>. QED  BY <2>1, <2>2
<1>1. \A h \in 1..(i - 1) : h \in 1..c /\ h < i
  OBVIOUS
<1>2. \A h \in 1..(i - 1) : q[h] \in T
  BY <1>1 DEF Ascends, Below
<1>3. r \in [1..(i - 1) -> T]
  BY <1>2
<1>4. \A h, m \in 1..(i - 1) : h < m => r[h] < r[m]
  BY <1>1 DEF Ascends
<1>5. ASSUME NEW k \in T PROVE \E h \in 1..(i - 1) : r[h] = k
  <2>1. PICK h \in 1..c : q[h] = k
    BY DEF Ascends, Below
  <2>2. h \in Int /\ k < q[i] /\ k \in Int /\ q[i] \in Int
    <3>1. k \in K /\ k < q[i] /\ q[i] \in K
      BY DEF Ascends, Below
    <3>2. \A a \in K : a \in Int
      OBVIOUS
    <3>3. k \in Int /\ q[i] \in Int
      BY <3>1, <3>2
    <3>. QED  BY <2>1, <3>1, <3>3
  <2>3. h < i
    BY <1>0, <2>1, <2>2 DEF Ascends
  <2>4. h \in 1..(i - 1)
    BY <1>0, <2>2, <2>3
  <2>. QED  BY <2>1, <2>4
<1>. HIDE DEF T, r
<1>6. Ascends(r, i - 1, T)
  BY <1>3, <1>4, <1>5 DEF Ascends
<1>7. Sorts(r, i - 1, T, NatOrder(T)) /\ Orders(NatOrder(T), T)
  BY <1>0, <1>6, AscendingSorts, NatsOrdered
<1>8. Cardinality(T) = i - 1
  BY <1>0, <1>7, SortedOnce
<1>. QED  BY <1>8 DEF T

\* Kept takes the elements at the ascending indices.
LEMMA KeptIs ==
  ASSUME NEW K \in SUBSET Int, NEW c \in Nat, NEW q, Ascends(q, c, K), NEW s
  PROVE  L!Lists!Kept(s, K) = [j \in 1..c |-> s[q[j]]]
<1>1. Cardinality(K) = c
  BY AscendingSorts, NatsOrdered, SortedOnce
<1>2. ASSUME NEW j \in 1..c
      PROVE  (CHOOSE i \in K : Cardinality(Below(K, i)) = j - 1) = q[j]
  <2>1. q[j] \in K /\ Cardinality(Below(K, q[j])) = j - 1
    BY AscendingCount DEF Ascends
  <2>2. ASSUME NEW i \in K, Cardinality(Below(K, i)) = j - 1 PROVE i = q[j]
    <3>1. PICK h \in 1..c : q[h] = i
      BY DEF Ascends
    <3>2. Cardinality(Below(K, q[h])) = h - 1
      BY AscendingCount
    <3>3. h - 1 = j - 1
      BY <2>2, <3>1, <3>2
    <3>4. h = j
      BY <3>3
    <3>. QED  BY <3>1, <3>4
  <2>. QED  BY <2>1, <2>2
<1>3. L!Lists!Kept(s, K) =
        [j \in 1..Cardinality(K) |-> s[CHOOSE i \in K : Cardinality(Below(K, i)) = j - 1]]
  BY Zenon DEF L!Lists!Kept, L!Lists!Cardinality, Cardinality, Below
<1>. QED  BY <1>1, <1>2, <1>3

\* Indices can be counted upwards.
LEMMA AscendingExists ==
  ASSUME NEW N \in Nat, NEW K \in SUBSET (1..N)
  PROVE  \E c \in Nat : \E q : Ascends(q, c, K)
<1>1. IsFiniteSet(K) /\ K \in SUBSET Int
  <2>1. IsFiniteSet(K)
    BY CountTo, FS_Subset
  <2>. QED  BY <2>1
<1>2. PICK q \in [1..Cardinality(K) -> K] : Sorts(q, Cardinality(K), K, NatOrder(K))
  BY <1>1, NatsOrdered, SortedExists
<1>. QED  BY <1>1, <1>2, AscendingSorts, FS_CardinalityType

LEMMA SubSeqIs ==
  ASSUME NEW E, NEW s \in Seq(E), NEW i \in Int, NEW j \in Int, i >= 1, j <= Len(s)
  PROVE  /\ SubSeq(s, i, j) = Part(s, i, j) /\ SubSeq(s, i, j) \in Seq(E)
         /\ Len(SubSeq(s, i, j)) = IF i <= j THEN j - i + 1 ELSE 0
<1>. DEFINE m == IF i <= j THEN j - i + 1 ELSE 0
<1>1. Len(s) \in Nat /\ m \in Nat
  BY LenProperties
<1>2. \A h \in i..j : s[h] \in E
  <2>1. \A h \in i..j : h \in 1..Len(s)
    BY <1>1
  <2>. QED  BY <2>1, ElementOfSeq
<1>3. /\ SubSeq(s, i, j) \in Seq(E)
      /\ Len(SubSeq(s, i, j)) = m
      /\ \A h \in 1..(j - i + 1) : SubSeq(s, i, j)[h] = s[i + h - 1]
  BY <1>2, SubSeqProperties
<1>4. \A h \in 1..m : h \in 1..(j - i + 1) /\ i + h - 1 = h + i - 1
  OBVIOUS
<1>5. \A h \in 1..m : SubSeq(s, i, j)[h] = s[h + i - 1]
  BY <1>3, <1>4
<1>6. SubSeq(s, i, j) = [h \in 1..m |-> s[h + i - 1]]
  <2>. HIDE DEF m
  <2>. QED  BY <1>3, <1>5, LenProperties
<1>. QED  BY <1>3, <1>6 DEF Part

\* An interval of the indices.
LEMMA KeptInterval ==
  ASSUME NEW E, NEW s \in Seq(E), NEW i \in Int, NEW j \in Int, i >= 1, j <= Len(s)
  PROVE  L!Lists!Kept(s, i..j) = SubSeq(s, i, j)
<1>. DEFINE m == IF i <= j THEN j - i + 1 ELSE 0
            q == [h \in 1..m |-> h + i - 1]
            K == i..j
<1>1. m \in Nat
  OBVIOUS
<1>2. Ascends(q, m, K)
  <2>1. q \in [1..m -> K]
    OBVIOUS
  <2>2. \A h, k \in 1..m : h < k => q[h] < q[k]
    OBVIOUS
  <2>3. ASSUME NEW k \in K PROVE \E h \in 1..m : q[h] = k
    <3>1. k - i + 1 \in 1..m /\ q[k - i + 1] = k
      OBVIOUS
    <3>. QED  BY <3>1
  <2>. HIDE DEF q, m
  <2>. QED  BY <2>1, <2>2, <2>3 DEF Ascends
<1>3. \A h \in 1..m : q[h] = h + i - 1
  OBVIOUS
<1>. HIDE DEF q, m
<1>4. L!Lists!Kept(s, i..j) = [h \in 1..m |-> s[q[h]]]
  <2>1. K \in SUBSET Int
    OBVIOUS
  <2>. HIDE DEF K
  <2>2. L!Lists!Kept(s, K) = [h \in 1..m |-> s[q[h]]]
    BY <1>1, <1>2, <2>1, KeptIs
  <2>. QED  BY <2>2 DEF K
<1>5. L!Lists!Kept(s, i..j) = [h \in 1..m |-> s[h + i - 1]]
  BY <1>3, <1>4
<1>. QED  BY <1>5, SubSeqIs DEF Part, m

-----------------------------------------------------------------------------
(* What some keys of a map hold, in the order of the keys.                 *)

Reads(m, S) == [i \in 1..Cardinality(S) |-> m[L!InOrder(S)[i]]]

Along(m, n, q) == [i \in 1..n |-> m[q[i]]]

LEMMA ReadsAre ==
  ASSUME NEW S \in SUBSET Bytes, NEW n \in Nat, NEW q, InKeyOrder(q, n, S), NEW m
  PROVE  Reads(m, S) = Along(m, n, q)
BY InOrderIs, Zenon DEF Reads, Along

LEMMA ReadsSame ==
  ASSUME NEW S \in SUBSET Bytes, IsFiniteSet(S), NEW m, NEW w, \A k \in S : w[k] = m[k]
  PROVE  Reads(w, S) = Reads(m, S)
<1>1. Cardinality(S) \in Nat /\ InKeyOrder(L!InOrder(S), Cardinality(S), S)
  BY InOrderSorts
<1>2. \A i \in 1..Cardinality(S) : L!InOrder(S)[i] \in S
  BY <1>1 DEF InKeyOrder
<1>3. \A i \in 1..Cardinality(S) : w[L!InOrder(S)[i]] = m[L!InOrder(S)[i]]
  BY <1>2
<1>. QED  BY <1>3, Zenon DEF Reads

LEMMA ReadsType ==
  ASSUME NEW S \in SUBSET Bytes, IsFiniteSet(S), NEW m, NEW E, \A k \in S : m[k] \in E
  PROVE  /\ Reads(m, S) \in Seq(E) /\ Len(Reads(m, S)) = Cardinality(S)
         /\ DOMAIN Reads(m, S) = 1..Cardinality(S)
<1>. DEFINE c == Cardinality(S)
            q == L!InOrder(S)
<1>1. c \in Nat /\ InKeyOrder(q, c, S)
  BY InOrderSorts
<1>. HIDE DEF c, q
<1>2. \A i \in 1..c : m[q[i]] \in E
  BY <1>1 DEF InKeyOrder
<1>3. Reads(m, S) = [i \in 1..c |-> m[q[i]]]
  BY DEF Reads, c, q
<1>4. [i \in 1..c |-> m[q[i]]] \in Seq(E)
  BY <1>1, <1>2, IsASeq
<1>. QED  BY <1>1, <1>3, <1>4, LenProperties DEF c

\* A new last key.
Longer(s, d) == Append(s, d)

LEMMA ReadsAppended ==
  ASSUME NEW S \in SUBSET Bytes, IsFiniteSet(S), NEW m, NEW w, NEW E, \A l \in S : m[l] \in E,
         NEW k \in Bytes, \A l \in S : L!Before(l, k) /\ w[l] = m[l], w[k] \in E
  PROVE  Reads(w, S \cup {k}) = Longer(Reads(m, S), w[k])
<1>. DEFINE c == Cardinality(S)
            ks == L!InOrder(S)
            q == [i \in 1..(c + 1) |-> IF i <= c THEN ks[i] ELSE k]
<1>1. c \in Nat /\ InKeyOrder(ks, c, S)
  BY InOrderSorts
<1>. HIDE DEF c, ks
<1>2. S \cup {k} \in SUBSET Bytes /\ c + 1 \in Nat /\ \A i \in 1..c : ks[i] \in S
  BY <1>1 DEF InKeyOrder
<1>3. InKeyOrder(q, c + 1, S \cup {k})
  <2>1. q \in [1..(c + 1) -> S \cup {k}]
    <3>1. ASSUME NEW i \in 1..(c + 1) PROVE (IF i <= c THEN ks[i] ELSE k) \in S \cup {k}
      BY <1>1, <1>2
    <3>. QED  BY <3>1
  <2>2. ASSUME NEW i \in 1..(c + 1), NEW j \in 1..(c + 1), i < j PROVE L!Before(q[i], q[j])
    <3>1. i \in 1..c /\ q[i] = ks[i]
      BY <1>1, <2>2
    <3>2. CASE j <= c
      <4>1. j \in 1..c /\ q[j] = ks[j]
        BY <1>1, <3>2
      <4>. QED  BY <1>1, <2>2, <3>1, <4>1 DEF InKeyOrder
    <3>3. CASE ~(j <= c)
      <4>1. q[j] = k
        BY <3>3
      <4>. QED  BY <1>2, <3>1, <4>1
    <3>. QED  BY <3>2, <3>3
  <2>3. ASSUME NEW l \in S \cup {k} PROVE \E i \in 1..(c + 1) : q[i] = l
    <3>1. CASE l \in S
      <4>1. PICK i \in 1..c : ks[i] = l
        BY <1>1, <3>1 DEF InKeyOrder
      <4>2. i \in 1..(c + 1) /\ q[i] = l
        BY <1>1, <4>1
      <4>. QED  BY <4>2
    <3>2. CASE l = k
      <4>1. c + 1 \in 1..(c + 1) /\ q[c + 1] = k
        BY <1>1
      <4>. QED  BY <3>2, <4>1
    <3>. QED  BY <3>1, <3>2
  <2>. HIDE DEF q
  <2>. QED  BY <2>1, <2>2, <2>3 DEF InKeyOrder
<1>4. \A i \in 1..(c + 1) : q[i] = IF i <= c THEN ks[i] ELSE k
  OBVIOUS
<1>. HIDE DEF q
<1>5. Reads(w, S \cup {k}) = [i \in 1..(c + 1) |-> w[q[i]]]
  <2>. DEFINE T == S \cup {k}
              n == c + 1
  <2>1. T \in SUBSET Bytes /\ n \in Nat /\ InKeyOrder(q, n, T)
    BY <1>2, <1>3
  <2>. HIDE DEF T, n
  <2>2. Reads(w, T) = Along(w, n, q)
    BY <2>1, ReadsAre
  <2>. QED  BY <2>2 DEF T, n, Along
<1>6. Reads(m, S) = [i \in 1..c |-> m[ks[i]]]
  BY <1>1, ReadsAre DEF Along
<1>7. Reads(m, S) \in Seq(E) /\ Len(Reads(m, S)) = c
  BY ReadsType DEF c
<1>8. /\ Append(Reads(m, S), w[k]) \in Seq(E)
      /\ Len(Append(Reads(m, S), w[k])) = c + 1
      /\ \A i \in 1..c : Append(Reads(m, S), w[k])[i] = Reads(m, S)[i]
      /\ Append(Reads(m, S), w[k])[c + 1] = w[k]
  BY <1>7, AppendProperties
<1>9. ASSUME NEW i \in 1..(c + 1) PROVE Append(Reads(m, S), w[k])[i] = w[q[i]]
  <2>1. CASE i <= c
    <3>1. i \in 1..c /\ q[i] = ks[i] /\ ks[i] \in S
      BY <1>1, <1>2, <1>4, <2>1
    <3>. QED  BY <1>6, <1>8, <3>1
  <2>2. CASE ~(i <= c)
    <3>1. i = c + 1 /\ q[i] = k
      BY <1>1, <1>4, <2>2
    <3>. QED  BY <1>8, <3>1
  <2>. QED  BY <2>1, <2>2
<1>10. Append(Reads(m, S), w[k]) = [i \in 1..(c + 1) |-> w[q[i]]]
  BY <1>8, <1>9, LenProperties
<1>. QED  BY <1>5, <1>10 DEF Longer

\* A new first key.
LEMMA ReadsPrepended ==
  ASSUME NEW S \in SUBSET Bytes, IsFiniteSet(S), NEW m, NEW w, NEW E, \A l \in S : m[l] \in E,
         NEW k \in Bytes, \A l \in S : L!Before(k, l) /\ w[l] = m[l], w[k] \in E
  PROVE  Reads(w, S \cup {k}) = <<w[k]>> \o Reads(m, S)
<1>. DEFINE c == Cardinality(S)
            ks == L!InOrder(S)
            q == [i \in 1..(c + 1) |-> IF i = 1 THEN k ELSE ks[i - 1]]
<1>1. c \in Nat /\ InKeyOrder(ks, c, S)
  BY InOrderSorts
<1>. HIDE DEF c, ks
<1>2. S \cup {k} \in SUBSET Bytes /\ c + 1 \in Nat /\ \A i \in 1..c : ks[i] \in S
  BY <1>1 DEF InKeyOrder
<1>3. \A i \in 1..(c + 1) : i = 1 \/ i - 1 \in 1..c
  BY <1>1
<1>4. InKeyOrder(q, c + 1, S \cup {k})
  <2>1. q \in [1..(c + 1) -> S \cup {k}]
    <3>1. ASSUME NEW i \in 1..(c + 1) PROVE (IF i = 1 THEN k ELSE ks[i - 1]) \in S \cup {k}
      BY <1>2, <1>3
    <3>. QED  BY <3>1
  <2>2. ASSUME NEW i \in 1..(c + 1), NEW j \in 1..(c + 1), i < j PROVE L!Before(q[i], q[j])
    <3>1. j - 1 \in 1..c /\ q[j] = ks[j - 1]
      BY <1>1, <2>2
    <3>2. CASE i = 1
      BY <1>2, <3>1, <3>2
    <3>3. CASE i # 1
      <4>1. i - 1 \in 1..c /\ q[i] = ks[i - 1] /\ i - 1 < j - 1
        BY <1>1, <2>2, <3>3
      <4>. QED  BY <1>1, <3>1, <4>1 DEF InKeyOrder
    <3>. QED  BY <3>2, <3>3
  <2>3. ASSUME NEW l \in S \cup {k} PROVE \E i \in 1..(c + 1) : q[i] = l
    <3>1. CASE l \in S
      <4>1. PICK i \in 1..c : ks[i] = l
        BY <1>1, <3>1 DEF InKeyOrder
      <4>2. i + 1 \in 1..(c + 1) /\ i + 1 # 1 /\ i + 1 - 1 = i
        BY <1>1
      <4>3. q[i + 1] = l
        BY <4>1, <4>2
      <4>. QED  BY <4>2, <4>3
    <3>2. CASE l = k
      <4>1. 1 \in 1..(c + 1) /\ q[1] = k
        BY <1>1
      <4>. QED  BY <3>2, <4>1
    <3>. QED  BY <3>1, <3>2
  <2>. HIDE DEF q
  <2>. QED  BY <2>1, <2>2, <2>3 DEF InKeyOrder
<1>5. \A i \in 1..(c + 1) : q[i] = IF i = 1 THEN k ELSE ks[i - 1]
  OBVIOUS
<1>. HIDE DEF q
<1>6. Reads(w, S \cup {k}) = [i \in 1..(c + 1) |-> w[q[i]]]
  <2>. DEFINE T == S \cup {k}
              n == c + 1
  <2>1. T \in SUBSET Bytes /\ n \in Nat /\ InKeyOrder(q, n, T)
    BY <1>2, <1>4
  <2>. HIDE DEF T, n
  <2>2. Reads(w, T) = Along(w, n, q)
    BY <2>1, ReadsAre
  <2>. QED  BY <2>2 DEF T, n, Along
<1>7. Reads(m, S) = [i \in 1..c |-> m[ks[i]]]
  BY <1>1, ReadsAre DEF Along
<1>8. Reads(m, S) \in Seq(E) /\ Len(Reads(m, S)) = c
  BY ReadsType DEF c
<1>. DEFINE t == <<w[k]>> \o Reads(m, S)
<1>9. <<w[k]>> \in Seq(E) /\ Len(<<w[k]>>) = 1 /\ <<w[k]>>[1] = w[k]
  OBVIOUS
<1>10. /\ t \in Seq(E) /\ Len(t) = 1 + c
       /\ \A i \in 1..(1 + c) : t[i] = IF i <= 1 THEN <<w[k]>>[i] ELSE Reads(m, S)[i - 1]
  BY <1>8, <1>9, ConcatProperties
<1>. HIDE DEF t
<1>11. ASSUME NEW i \in 1..(c + 1) PROVE t[i] = w[q[i]]
  <2>1. CASE i = 1
    <3>1. t[1] = w[k]
      BY <1>1, <1>9, <1>10
    <3>. QED  BY <1>5, <2>1, <3>1
  <2>2. CASE i # 1
    <3>1. i - 1 \in 1..c /\ ~(i <= 1) /\ i \in 1..(1 + c)
      BY <1>1, <2>2
    <3>2. q[i] = ks[i - 1] /\ ks[i - 1] \in S
      BY <1>2, <1>5, <2>2, <3>1
    <3>3. t[i] = Reads(m, S)[i - 1]
      BY <1>10, <3>1
    <3>4. Reads(m, S)[i - 1] = m[ks[i - 1]]
      BY <1>7, <3>1
    <3>. QED  BY <3>2, <3>3, <3>4
  <2>. QED  BY <2>1, <2>2
<1>12. Len(t) = c + 1
  BY <1>1, <1>10
<1>13. t = [i \in 1..(c + 1) |-> w[q[i]]]
  BY <1>1, <1>10, <1>11, <1>12, LenProperties
<1>. QED  BY <1>6, <1>13 DEF t

\* A new value of one key.
LEMMA ReadsReplaced ==
  ASSUME NEW S \in SUBSET Bytes, IsFiniteSet(S), NEW m, NEW w, NEW i \in 1..Cardinality(S),
         \A l \in S : l # L!InOrder(S)[i] => w[l] = m[l]
  PROVE  Reads(w, S) = L!Lists!ReplaceAt(Reads(m, S), i, w[L!InOrder(S)[i]])
<1>. DEFINE c == Cardinality(S)
            ks == L!InOrder(S)
<1>1. c \in Nat /\ InKeyOrder(ks, c, S)
  BY InOrderSorts
<1>. HIDE DEF c, ks
<1>2. i \in 1..c /\ \A h \in 1..c : ks[h] \in S /\ ks[h] \in Bytes
  BY <1>1 DEF InKeyOrder, c
<1>3. ASSUME NEW h \in 1..c, h # i PROVE w[ks[h]] = m[ks[h]]
  <2>1. L!Before(ks[h], ks[i]) \/ L!Before(ks[i], ks[h])
    <3>1. h < i \/ i < h
      BY <1>2, <1>3
    <3>. QED  BY <1>1, <1>2, <3>1 DEF InKeyOrder
  <2>2. ks[h] # ks[i]
    BY <1>2, <2>1, BeforeIrreflexive
  <2>. QED  BY <1>2, <2>2 DEF ks
<1>4. Reads(w, S) = [h \in 1..c |-> w[ks[h]]] /\ Reads(m, S) = [h \in 1..c |-> m[ks[h]]]
  BY DEF Reads, c, ks
<1>5. [h \in 1..c |-> w[ks[h]]] = [[h \in 1..c |-> m[ks[h]]] EXCEPT ![i] = w[ks[i]]]
  BY <1>2, <1>3
<1>. QED  BY <1>4, <1>5 DEF ks, L!Lists!ReplaceAt

\* The places of the keys that are not in D.
Stays(S, D) == {i \in 1..Cardinality(S) : L!InOrder(S)[i] \notin D}

\* Some keys less.
LEMMA ReadsKept ==
  ASSUME NEW S \in SUBSET Bytes, IsFiniteSet(S), NEW m, NEW w, NEW D,
         \A l \in S \ D : w[l] = m[l]
  PROVE  Reads(w, S \ D) = L!Lists!Kept(Reads(m, S), Stays(S, D))
<1>. DEFINE c == Cardinality(S)
            ks == L!InOrder(S)
            K == Stays(S, D)
<1>1. c \in Nat /\ InKeyOrder(ks, c, S)
  BY InOrderSorts
<1>2. K \in SUBSET (1..c) /\ K \in SUBSET Int
  BY DEF Stays
<1>. HIDE DEF c, ks, K
<1>3. PICK b \in Nat : \E q0 : Ascends(q0, b, K)
  BY <1>1, <1>2, AscendingExists
<1>4. PICK q : Ascends(q, b, K)
  BY <1>3
<1>. DEFINE p == [h \in 1..b |-> ks[q[h]]]
<1>5. \A h \in 1..b : q[h] \in K /\ q[h] \in 1..c /\ ks[q[h]] \in S /\ ks[q[h]] \notin D
  <2>1. \A h \in 1..b : q[h] \in K
    BY <1>4 DEF Ascends
  <2>2. \A i \in K : i \in 1..c /\ ks[i] \notin D
    BY DEF Stays, K, c, ks
  <2>. QED  BY <1>1, <2>1, <2>2 DEF InKeyOrder
<1>6. InKeyOrder(p, b, S \ D)
  <2>1. p \in [1..b -> S \ D]
    BY <1>5
  <2>2. ASSUME NEW h \in 1..b, NEW j \in 1..b, h < j PROVE L!Before(p[h], p[j])
    <3>1. q[h] < q[j]
      BY <1>4, <2>2 DEF Ascends
    <3>2. L!Before(ks[q[h]], ks[q[j]])
      BY <1>1, <1>5, <3>1 DEF InKeyOrder
    <3>. QED  BY <3>2
  <2>3. ASSUME NEW l \in S \ D PROVE \E h \in 1..b : p[h] = l
    <3>1. PICK i \in 1..c : ks[i] = l
      BY <1>1 DEF InKeyOrder
    <3>2. i \in K
      BY <3>1 DEF Stays, K, c, ks
    <3>3. PICK h \in 1..b : q[h] = i
      BY <1>4, <3>2 DEF Ascends
    <3>. QED  BY <3>1, <3>3
  <2>. HIDE DEF p
  <2>. QED  BY <2>1, <2>2, <2>3 DEF InKeyOrder
<1>7. \A h \in 1..b : p[h] = ks[q[h]]
  OBVIOUS
<1>. HIDE DEF p
<1>8. Reads(w, S \ D) = [h \in 1..b |-> w[p[h]]]
  <2>. DEFINE T == S \ D
              n == b
  <2>1. T \in SUBSET Bytes /\ n \in Nat /\ InKeyOrder(p, n, T)
    BY <1>4, <1>6
  <2>. HIDE DEF T, n
  <2>2. Reads(w, T) = Along(w, n, p)
    BY <2>1, ReadsAre
  <2>. QED  BY <2>2 DEF T, n, Along
<1>9. L!Lists!Kept(Reads(m, S), K) = [h \in 1..b |-> Reads(m, S)[q[h]]]
  BY <1>2, <1>4, KeptIs
<1>10. Reads(m, S) = [h \in 1..c |-> m[ks[h]]]
  BY DEF Reads, c, ks
<1>11. \A h \in 1..b : Reads(m, S)[q[h]] = w[p[h]]
  BY <1>5, <1>7, <1>10
<1>12. [h \in 1..b |-> Reads(m, S)[q[h]]] = [h \in 1..b |-> w[p[h]]]
  BY <1>11
<1>. QED  BY <1>8, <1>9, <1>12 DEF K

-----------------------------------------------------------------------------
(* What an operation makes of the lists.                                   *)

LEMMA ListOfIs ==
  ASSUME StoreInv, NEW n \in Names
  PROVE  /\ L!ListKeys(n) = L!InOrder(Mine(n))
         /\ L!ListOf(n) = Reads(db, Mine(n))
         /\ L!ListOf(n) \in Seq(Datas) /\ Len(L!ListOf(n)) = Cardinality(Mine(n))
         /\ DOMAIN L!ListOf(n) = 1..Cardinality(Mine(n))
<1>1. L!ListKeys(n) = L!InOrder(Mine(n)) /\ Mine(n) \in SUBSET Bytes /\ IsFiniteSet(Mine(n))
  BY MineIs DEF L!ListKeys
<1>2. DOMAIN L!ListKeys(n) = 1..Cardinality(Mine(n))
  BY ListKeysAre
<1>3. L!ListOf(n) = Reads(db, Mine(n))
  BY <1>1, <1>2, Zenon DEF L!ListOf, L!DataOf, Reads
<1>4. \A k \in Mine(n) : db[k] \in Datas
  BY DEF Mine, StoreInv
<1>. QED  BY <1>1, <1>3, <1>4, ReadsType

\* The lists as the instance of ListStore sees them.
AllRead == \A n \in Names : L!ListOf(n) = Reads(db, Mine(n))

LEMMA AllAreRead == StoreInv => AllRead
BY ListOfIs DEF AllRead

\* Keys in order are as their indices.
LEMMA OrderTells ==
  ASSUME NEW S \in SUBSET Bytes, NEW n \in Nat, NEW q, InKeyOrder(q, n, S),
         NEW i \in 1..n, NEW j \in 1..n
  PROVE  /\ q[i] \in S /\ q[i] \in Bytes
         /\ L!Before(q[i], q[j]) <=> i < j
         /\ q[i] = q[j] <=> i = j
<1>1. q[i] \in S /\ q[j] \in S /\ q[i] \in Bytes /\ q[j] \in Bytes
  BY DEF InKeyOrder
<1>2. i < j => L!Before(q[i], q[j])
  BY DEF InKeyOrder
<1>3. j < i => L!Before(q[j], q[i])
  BY DEF InKeyOrder
<1>4. i < j \/ i = j \/ j < i
  OBVIOUS
<1>5. i \in Int /\ j \in Int
  OBVIOUS
<1>. QED  BY <1>1, <1>2, <1>3, <1>4, <1>5, BeforeIrreflexive, BeforeAsymmetric

LEMMA OrderOnce ==
  ASSUME NEW S \in SUBSET Bytes, NEW n \in Nat, NEW q, InKeyOrder(q, n, S)
  PROVE  /\ \A i, j \in 1..n : q[i] = q[j] => i = j
         /\ \A i, j \in 1..n : L!Before(q[i], q[j]) <=> i < j
BY OrderTells

\* The keys of one list are none of another, and none of a value or a hash.
LEMMA KeysApart ==
  ASSUME NEW m \in Names, NEW n \in Names
  PROVE  /\ n # m => \A k \in KeysOf(n) : k \notin KeysOf(m)
         /\ L!ValueKey(n) \notin KeysOf(m)
         /\ \A f \in Fields : L!HashKey(n, f) \notin KeysOf(m)
<1>1. n \in Int /\ m \in Int
  BY StoreConstants
<1>2. ASSUME n # m, NEW k \in KeysOf(n), k \in KeysOf(m) PROVE FALSE
  <2>1. PICK ds \in Numbers : k = L!ListKey(n, ds)
    BY DEF KeysOf
  <2>2. PICK es \in Numbers : k = L!ListKey(m, es)
    BY <1>2 DEF KeysOf
  <2>. QED  BY <1>1, <1>2, <2>1, <2>2, NumbersAreDigits, ListKeyTells
<1>3. \A k \in KeysOf(m) : k[1] = 3
  BY <1>1, ListKeyIs, NumbersAreDigits DEF KeysOf
<1>4. L!ValueKey(n)[1] = 1
  BY DEF L!ValueKey, L!ELevelValue
<1>5. \A f \in Fields : L!HashKey(n, f)[1] = 2
  BY <1>1, NamesAndFields, HashKeyIs
<1>6. L!ValueKey(n) \notin KeysOf(m)
  BY <1>3, <1>4
<1>7. \A f \in Fields : L!HashKey(n, f) \notin KeysOf(m)
  BY <1>3, <1>5
<1>. QED  BY <1>2, <1>6, <1>7, Zenon

\* Deleting some keys.
LEMMA DeletedFrom ==
  ASSUME StoreInv, NEW D, L!Delete(D), NEW m \in Names
  PROVE  /\ Reads(db', Mine(m)') = L!Lists!Kept(Reads(db, Mine(m)), Stays(Mine(m), D))
         /\ (\A k \in D : k \notin KeysOf(m)) => Reads(db', Mine(m)') = Reads(db, Mine(m))
<1>1. DOMAIN db' = DOMAIN db \ D /\ \A k \in DOMAIN db' : db'[k] = db[k]
  BY DeleteStoreInv
<1>2. Mine(m)' = Mine(m) \ D /\ \A k \in Mine(m) \ D : db'[k] = db[k]
  BY <1>1 DEF Mine, KeysOf
<1>3. Mine(m) \in SUBSET Bytes /\ IsFiniteSet(Mine(m))
  BY MineIs
<1>4. Reads(db', Mine(m) \ D) = L!Lists!Kept(Reads(db, Mine(m)), Stays(Mine(m), D))
  BY <1>2, <1>3, ReadsKept
<1>5. ASSUME \A k \in D : k \notin KeysOf(m) PROVE Reads(db', Mine(m)') = Reads(db, Mine(m))
  <2>1. Mine(m)' = Mine(m) /\ \A k \in Mine(m) : db'[k] = db[k]
    BY <1>2, <1>5 DEF Mine
  <2>2. Reads(db', Mine(m)) = Reads(db, Mine(m))
    BY <1>3, <2>1, ReadsSame
  <2>. QED  BY <2>1, <2>2
<1>. QED  BY <1>2, <1>4, <1>5

\* Writing a key that is not of the list.
LEMMA PutElsewhere ==
  ASSUME StoreInv, NEW k \in StoreKeys, NEW d \in Datas, L!Put({k}, d), NEW m \in Names, k \notin KeysOf(m)
  PROVE  Reads(db', Mine(m)') = Reads(db, Mine(m))
<1>1. db' = [l \in DOMAIN db \cup {k} |-> IF l \in {k} THEN d ELSE db[l]]
  BY DEF L!Put
<1>2. Mine(m)' = Mine(m) /\ \A l \in Mine(m) : db'[l] = db[l]
  BY <1>1 DEF Mine, KeysOf
<1>3. Mine(m) \in SUBSET Bytes /\ IsFiniteSet(Mine(m))
  BY MineIs
<1>4. Reads(db', Mine(m)) = Reads(db, Mine(m))
  BY <1>2, <1>3, ReadsSame
<1>. QED  BY <1>2, <1>4

\* One list becomes t and the others stay.
Becomes(n, t) ==
  /\ Reads(db', Mine(n)') = t
  /\ \A m \in Names \ {n} : Reads(db', Mine(m)') = Reads(db, Mine(m))

\* The keys deleted are of one list.
LEMMA DeletedOnly ==
  ASSUME StoreInv, NEW n \in Names, NEW D \in SUBSET KeysOf(n), L!Delete(D)
  PROVE  \A m \in Names \ {n} : Reads(db', Mine(m)') = Reads(db, Mine(m))
<1>. SUFFICES ASSUME NEW m \in Names, m # n PROVE Reads(db', Mine(m)') = Reads(db, Mine(m))
  OBVIOUS
<1>1. \A k \in D : k \notin KeysOf(m)
  BY KeysApart
<1>. QED  BY <1>1, DeletedFrom

LEMMA TailIs ==
  ASSUME NEW E, NEW s \in Seq(E), s # <<>>
  PROVE  SubSeq(s, 2, Len(s)) = Tail(s) /\ SubSeq(s, 1, Len(s) - 1) = L!Lists!Front(s)
<1>1. Len(s) \in Nat /\ Len(s) >= 1
  BY LenProperties, EmptySeq
<1>2. /\ SubSeq(s, 2, Len(s)) \in Seq(E) /\ Len(SubSeq(s, 2, Len(s))) = Len(s) - 1
      /\ SubSeq(s, 2, Len(s)) = Part(s, 2, Len(s))
  <2>1. 2 \in Int /\ Len(s) \in Int /\ 2 >= 1 /\ Len(s) <= Len(s)
    BY <1>1
  <2>2. /\ SubSeq(s, 2, Len(s)) \in Seq(E) /\ SubSeq(s, 2, Len(s)) = Part(s, 2, Len(s))
        /\ Len(SubSeq(s, 2, Len(s))) = IF 2 <= Len(s) THEN Len(s) - 2 + 1 ELSE 0
    BY <2>1, SubSeqIs
  <2>3. \A N \in Nat : N >= 1 => (IF 2 <= N THEN N - 2 + 1 ELSE 0) = N - 1
    OBVIOUS
  <2>4. (IF 2 <= Len(s) THEN Len(s) - 2 + 1 ELSE 0) = Len(s) - 1
    BY <1>1, <2>3
  <2>. QED  BY <2>2, <2>4
<1>3. /\ Tail(s) \in Seq(E) /\ Len(Tail(s)) = Len(s) - 1
      /\ \A i \in 1..Len(Tail(s)) : Tail(s)[i] = s[i + 1]
  BY HeadTailProperties
<1>4. \A i \in 1..(Len(s) - 1) : SubSeq(s, 2, Len(s))[i] = s[i + 1]
  BY <1>1, <1>2 DEF Part
<1>5. SubSeq(s, 2, Len(s)) = Tail(s)
  BY <1>2, <1>3, <1>4, SeqEqual
<1>. QED  BY <1>5 DEF L!Lists!Front

-----------------------------------------------------------------------------
(* The operations on one list.                                             *)

\* The list as it is before an operation: its keys in order, and what they hold.
LEMMA ListIs ==
  ASSUME StoreInv, NEW n \in Names
  PROVE  /\ Mine(n) \in SUBSET Bytes /\ Mine(n) \in SUBSET KeysOf(n) /\ IsFiniteSet(Mine(n))
         /\ Cardinality(Mine(n)) \in Nat
         /\ InKeyOrder(L!InOrder(Mine(n)), Cardinality(Mine(n)), Mine(n))
         /\ L!ListKeys(n) = L!InOrder(Mine(n)) /\ DOMAIN L!ListKeys(n) = 1..Cardinality(Mine(n))
         /\ Len(L!ListKeys(n)) = Cardinality(Mine(n))
         /\ Reads(db, Mine(n)) \in Seq(Datas) /\ Len(Reads(db, Mine(n))) = Cardinality(Mine(n))
         /\ DOMAIN Reads(db, Mine(n)) = 1..Cardinality(Mine(n))
<1>1. Mine(n) \in SUBSET KeysOf(n)
  BY DEF Mine
<1>. QED  BY <1>1, MineIs, ListKeysAre, ListOfIs

Pushed(s, d, left) == IF left THEN <<d>> \o s ELSE Append(s, d)

LEMMA LPushBecomes ==
  ASSUME StoreInv, NEW n \in Names, NEW d \in Datas, NEW left \in BOOLEAN, L!LPush(n, d, left)
  PROVE  Becomes(n, Pushed(Reads(db, Mine(n)), d, left))
<1>. DEFINE S == Mine(n)
            s == Reads(db, S)
<1>1. PICK k \in KeysOf(n) : /\ L!Put({k}, d)
                             /\ \A l \in S : IF left THEN L!Before(k, l) ELSE L!Before(l, k)
  BY LPushIs
<1>2. k \in StoreKeys /\ k \in Bytes
  BY KeysAreBytes
<1>3. db' = [l \in DOMAIN db \cup {k} |-> IF l \in {k} THEN d ELSE db[l]]
  BY <1>1 DEF L!Put
<1>4. S \in SUBSET Bytes /\ IsFiniteSet(S) /\ \A l \in S : db[l] \in Datas
  BY MineIs DEF Mine, StoreInv
<1>5. \A l \in S : l # k
  BY <1>1, <1>2, <1>4, BeforeIrreflexive
<1>6. Mine(n)' = S \cup {k} /\ db'[k] = d /\ \A l \in S : db'[l] = db[l]
  BY <1>3, <1>5 DEF Mine, KeysOf
<1>7. Reads(db', Mine(n)') = Pushed(s, d, left)
  <2>. HIDE DEF S
  <2>1. CASE left
    <3>1. \A l \in S : L!Before(k, l) /\ db'[l] = db[l]
      BY <1>1, <1>6, <2>1
    <3>2. Reads(db', S \cup {k}) = <<d>> \o s
      BY <1>2, <1>4, <1>6, <3>1, ReadsPrepended
    <3>. QED  BY <1>6, <2>1, <3>2 DEF Pushed
  <2>2. CASE ~left
    <3>1. \A l \in S : L!Before(l, k) /\ db'[l] = db[l]
      BY <1>1, <1>6, <2>2
    <3>2. db'[k] \in Datas
      BY <1>6
    <3>3. Reads(db', S \cup {k}) = Append(s, db'[k])
      <4>1. Reads(db', S \cup {k}) = Longer(s, db'[k])
        BY <1>2, <1>4, <3>1, <3>2, ReadsAppended
      <4>. QED  BY <4>1 DEF Longer
    <3>. QED  BY <1>6, <2>2, <3>3 DEF Pushed
  <2>. QED  BY <2>1, <2>2
<1>8. \A m \in Names \ {n} : k \notin KeysOf(m)
  BY KeysApart
<1>9. \A m \in Names \ {n} : Reads(db', Mine(m)') = Reads(db, Mine(m))
  BY <1>1, <1>2, <1>8, PutElsewhere
<1>. QED  BY <1>7, <1>9 DEF Becomes

LEMMA LSetBecomes ==
  ASSUME StoreInv, NEW n \in Names, NEW d \in Datas, NEW idx \in Int, L!LSet(n, idx, d)
  PROVE  \E i \in DOMAIN Reads(db, Mine(n)) :
           /\ i = L!Lists!Place(Reads(db, Mine(n)), idx)
           /\ Becomes(n, L!Lists!ReplaceAt(Reads(db, Mine(n)), i, d))
<1>. DEFINE S == Mine(n)
            s == Reads(db, S)
            k == L!KeyAt(n, idx)
<1>1. k # <<>> /\ L!Put({k}, d)
  BY DEF L!LSet
<1>2. PICK i \in DOMAIN L!ListKeys(n) :
        k = L!ListKeys(n)[i] /\ i = IF idx >= 0 THEN idx + 1 ELSE Len(L!ListKeys(n)) + 1 + idx
  BY <1>1, KeyAtIs
<1>3. k \in S /\ k \in KeysOf(n) /\ k \in StoreKeys
  BY <1>2, KeyOfListIs
<1>4. /\ L!ListKeys(n) = L!InOrder(S) /\ i \in 1..Cardinality(S) /\ DOMAIN s = 1..Cardinality(S)
      /\ i = L!Lists!Place(s, idx)
  BY <1>2, ListIs DEF L!Lists!Place
<1>5. S \in SUBSET Bytes /\ IsFiniteSet(S)
  BY MineIs
<1>. HIDE DEF k
<1>6. db' = [l \in DOMAIN db \cup {k} |-> IF l \in {k} THEN d ELSE db[l]]
  BY <1>1 DEF L!Put
<1>7. Mine(n)' = S /\ db'[k] = d /\ \A l \in S : l # k => db'[l] = db[l]
  BY <1>3, <1>6 DEF Mine, KeysOf
<1>8. Reads(db', Mine(n)') = L!Lists!ReplaceAt(s, i, d)
  <2>. HIDE DEF S
  <2>1. \A l \in S : l # L!InOrder(S)[i] => db'[l] = db[l]
    BY <1>2, <1>4, <1>7
  <2>2. Reads(db', S) = L!Lists!ReplaceAt(s, i, db'[L!InOrder(S)[i]])
    BY <1>4, <1>5, <2>1, ReadsReplaced, ZenonT(60)
  <2>3. Reads(db', S) = L!Lists!ReplaceAt(s, i, d)
    BY <1>2, <1>4, <1>7, <2>2
  <2>. QED  BY <1>7, <2>3
<1>9. \A m \in Names \ {n} : k \notin KeysOf(m)
  BY <1>3, KeysApart
<1>10. \A m \in Names \ {n} : Reads(db', Mine(m)') = Reads(db, Mine(m))
  BY <1>1, <1>3, <1>9, PutElsewhere
<1>. QED  BY <1>4, <1>8, <1>10 DEF Becomes

\* A list loses the elements before some index, or those from some index on.
LEMMA Loses ==
  ASSUME StoreInv, NEW n \in Names, NEW D, L!Delete(D),
         NEW i \in 1..(Cardinality(Mine(n)) + 1), NEW j \in 0..Cardinality(Mine(n)),
         \A h \in 1..Cardinality(Mine(n)) : L!ListKeys(n)[h] \notin D <=> i <= h /\ h <= j
  PROVE  Reads(db', Mine(n)') = SubSeq(Reads(db, Mine(n)), i, j)
<1>. DEFINE S == Mine(n)
            N == Cardinality(S)
            s == Reads(db, S)
<1>1. N \in Nat /\ s \in Seq(Datas) /\ Len(s) = N /\ L!ListKeys(n) = L!InOrder(S)
  BY ListIs
<1>2. Reads(db', Mine(n)') = L!Lists!Kept(s, Stays(S, D))
  BY DeletedFrom
<1>3. Stays(S, D) = i..j
  BY <1>1 DEF Stays
<1>4. i \in Int /\ j \in Int /\ i >= 1 /\ j <= N
  BY <1>1
<1>. HIDE DEF S, N, s
<1>5. L!Lists!Kept(s, i..j) = SubSeq(s, i, j)
  BY <1>1, <1>4, KeptInterval
<1>. QED  BY <1>2, <1>3, <1>5 DEF S, s

LEMMA ListOrder ==
  ASSUME StoreInv, NEW n \in Names
  PROVE  LET ks == L!InOrder(Mine(n))
             N == Cardinality(Mine(n))
         IN /\ \A i, j \in 1..N : ks[i] = ks[j] => i = j
            /\ \A i, j \in 1..N : L!Before(ks[i], ks[j]) <=> i < j
BY ListIs, OrderOnce

Popped(s, left) == IF left THEN Tail(s) ELSE L!Lists!Front(s)

LEMMA LPopBecomes ==
  ASSUME StoreInv, NEW n \in Names, NEW left \in BOOLEAN, L!LPop(n, left)
  PROVE  Reads(db, Mine(n)) # <<>> /\ Becomes(n, Popped(Reads(db, Mine(n)), left))
<1>. DEFINE S == Mine(n)
            N == Cardinality(S)
            s == Reads(db, S)
            ks == L!ListKeys(n)
            idx == IF left THEN 0 ELSE -1
            end == L!KeyAt(n, idx)
<1>1. end # <<>> /\ L!Delete({end})
  BY DEF L!LPop
<1>2. /\ N \in Nat /\ s \in Seq(Datas) /\ Len(s) = N /\ DOMAIN ks = 1..N /\ Len(ks) = N
      /\ S \in SUBSET Bytes /\ S \in SUBSET KeysOf(n) /\ InKeyOrder(ks, N, S)
  BY ListIs
<1>3. PICK i \in 1..N : end = ks[i] /\ i = IF left THEN 1 ELSE N
  <2>1. idx \in Int
    OBVIOUS
  <2>2. PICK i \in DOMAIN ks : end = ks[i] /\ i = IF idx >= 0 THEN idx + 1 ELSE Len(ks) + 1 + idx
    BY <1>1, <2>1, KeyAtIs
  <2>. HIDE DEF ks, N
  <2>3. i = IF left THEN 1 ELSE N
    BY <1>2, <2>2
  <2>. QED  BY <1>2, <2>2, <2>3
<1>. HIDE DEF S, N, s, ks, end
<1>4. \A h \in 1..N : ks[h] \notin {end} <=> h # i
  <2>1. \A h \in 1..N : ks[h] = ks[i] => h = i
    BY <1>2, OrderOnce
  <2>. QED  BY <1>3, <2>1
<1>5. s # <<>>
  BY <1>2, <1>3
<1>6. Reads(db', Mine(n)') = Popped(s, left)
  <2>1. CASE left
    <3>1. \A h \in 1..N : ks[h] \notin {end} <=> 2 <= h /\ h <= N
      BY <1>2, <1>3, <1>4, <2>1
    <3>2. 2 \in 1..(N + 1) /\ N \in 0..N
      BY <1>2, <1>3
    <3>3. Reads(db', Mine(n)') = SubSeq(s, 2, N)
      BY <1>1, <3>1, <3>2, Loses DEF N, S, s, ks
    <3>4. Reads(db', Mine(n)') = Tail(s)
      BY <1>2, <1>5, <3>3, TailIs
    <3>. QED  BY <2>1, <3>4 DEF Popped
  <2>2. CASE ~left
    <3>1. \A h \in 1..N : ks[h] \notin {end} <=> 1 <= h /\ h <= N - 1
      BY <1>2, <1>3, <1>4, <2>2
    <3>2. 1 \in 1..(N + 1) /\ N - 1 \in 0..N
      BY <1>2, <1>3
    <3>3. Reads(db', Mine(n)') = SubSeq(s, 1, N - 1)
      BY <1>1, <3>1, <3>2, Loses DEF N, S, s, ks
    <3>4. Reads(db', Mine(n)') = L!Lists!Front(s)
      BY <1>2, <1>5, <3>3, TailIs
    <3>. QED  BY <2>2, <3>4 DEF Popped
  <2>. QED  BY <2>1, <2>2
<1>7. {end} \in SUBSET KeysOf(n)
  BY <1>2, <1>3, OrderTells
<1>8. \A m \in Names \ {n} : Reads(db', Mine(m)') = Reads(db, Mine(m))
  BY <1>1, <1>7, DeletedOnly
<1>. QED  BY <1>5, <1>6, <1>8 DEF Becomes, s, S

\* The first keys of some in their order are those up to the last one of them.
LEMMA Firsts ==
  ASSUME NEW S \in SUBSET Bytes, NEW c \in Nat, NEW q, InKeyOrder(q, c, S),
         NEW done \in 1..c, NEW k \in S
  PROVE  k \in Members(q, 1, done) <=> k = q[done] \/ L!Before(k, q[done])
<1>1. PICK i \in 1..c : q[i] = k
  BY DEF InKeyOrder
<1>2. \A h \in 1..done : h \in 1..c
  OBVIOUS
<1>3. k \in Members(q, 1, done) <=> i <= done
  <2>1. ASSUME i <= done PROVE k \in Members(q, 1, done)
    <3>1. i \in 1..done
      BY <2>1
    <3>. QED  BY <1>1, <3>1 DEF Members
  <2>2. ASSUME k \in Members(q, 1, done) PROVE i <= done
    <3>1. PICK h \in 1..done : q[h] = k
      BY <2>2 DEF Members
    <3>2. h = i
      BY <1>1, <1>2, <3>1, OrderTells
    <3>. QED  BY <3>2
  <2>. QED  BY <2>1, <2>2
<1>4. (k = q[done] <=> i = done) /\ (L!Before(k, q[done]) <=> i < done)
  BY <1>1, OrderTells
<1>. QED  BY <1>3, <1>4

LEMMA FirstsBelow ==
  ASSUME NEW S \in SUBSET Bytes, NEW c \in Nat, NEW q, InKeyOrder(q, c, S), NEW done \in 0..c,
         NEW k \in S, NEW l \in S, L!Before(k, l), l \in Members(q, 1, done)
  PROVE  k \in Members(q, 1, done)
<1>1. done \in 1..c
  BY DEF Members
<1>2. l = q[done] \/ L!Before(l, q[done])
  BY <1>1, Firsts
<1>3. q[done] \in Bytes /\ k \in Bytes /\ l \in Bytes
  BY <1>1 DEF InKeyOrder
<1>4. L!Before(k, q[done])
  BY <1>2, <1>3, BeforeTransitive
<1>. QED  BY <1>1, <1>4, Firsts

LEMMA LDropBecomes ==
  ASSUME StoreInv, NEW n \in Names, L!LDrop(n)
  PROVE  \E t \in L!Lists!WithoutFirst(Reads(db, Mine(n))) : Becomes(n, t)
<1>. DEFINE S == Mine(n)
            N == Cardinality(S)
            s == Reads(db, S)
            ks == L!ListKeys(n)
<1>1. /\ N \in Nat /\ s \in Seq(Datas) /\ Len(s) = N /\ DOMAIN s = 1..N /\ DOMAIN ks = 1..N /\ Len(ks) = N
      /\ S \in SUBSET Bytes /\ S \in SUBSET KeysOf(n) /\ InKeyOrder(ks, N, S)
  BY ListIs
<1>2. PICK done \in 0..N : L!Delete({ks[h] : h \in 1..done})
  BY <1>1 DEF L!LDrop, L!DeleteEach
<1>. DEFINE D == {ks[h] : h \in 1..done}
<1>. HIDE DEF S, N, s, ks
<1>3. D \in SUBSET KeysOf(n)
  <2>1. \A h \in 1..done : h \in 1..N
    BY <1>1
  <2>. QED  BY <1>1, <2>1, OrderTells
<1>4. \A h \in 1..N : ks[h] \notin D <=> done + 1 <= h /\ h <= N
  <2>1. ASSUME NEW h \in 1..N, h <= done PROVE ks[h] \in D
    <3>1. h \in 1..done
      BY <2>1
    <3>. QED  BY <3>1
  <2>2. ASSUME NEW h \in 1..N, ks[h] \in D PROVE h <= done
    <3>1. PICK g \in 1..done : ks[g] = ks[h]
      BY <2>2
    <3>2. g \in 1..N
      BY <1>1
    <3>3. g = h
      <4>1. \A a, b \in 1..N : ks[a] = ks[b] => a = b
        BY <1>1, OrderOnce
      <4>. QED  BY <3>1, <3>2, <4>1
    <3>. QED  BY <3>3
  <2>. HIDE DEF D
  <2>. QED  BY <1>1, <2>1, <2>2
<1>. HIDE DEF D
<1>5. done + 1 \in 1..(N + 1) /\ N \in 0..N
  BY <1>1
<1>6. L!Delete(D)
  BY <1>2 DEF D
<1>7. Reads(db', Mine(n)') = SubSeq(s, done + 1, N)
  BY <1>4, <1>5, <1>6, Loses DEF N, S, s, ks
<1>8. SubSeq(s, done + 1, N) \in L!Lists!WithoutFirst(s)
  BY <1>1, <1>5 DEF L!Lists!WithoutFirst
<1>9. \A m \in Names \ {n} : Reads(db', Mine(m)') = Reads(db, Mine(m))
  BY <1>3, <1>6, DeletedOnly
<1>. QED  BY <1>7, <1>8, <1>9 DEF Becomes, s, S

\* The elements at gone are the first ones of s that equal d, count of them at most.
FirstEqual(gone, s, count, d) ==
  /\ gone \in SUBSET {i \in DOMAIN s : s[i] = d}
  /\ L!Lists!Cardinality(gone) <= count
  /\ \A i \in gone : \A j \in 1..(i - 1) : s[j] = d => j \in gone

LEMMA LDelBecomes ==
  ASSUME StoreInv, NEW n \in Names, NEW d \in Datas, NEW count \in Nat, L!LDel(n, count, d)
  PROVE  \E gone : /\ FirstEqual(gone, Reads(db, Mine(n)), count, d)
                   /\ Becomes(n, L!Lists!Kept(Reads(db, Mine(n)), DOMAIN Reads(db, Mine(n)) \ gone))
<1>. DEFINE S == Mine(n)
            N == Cardinality(S)
            s == Reads(db, S)
            ks == L!InOrder(S)
            F == {k \in S : db[k] = d}
            c == Cardinality(F)
            found == L!InOrder(F)
            most == IF count < Len(found) THEN count ELSE Len(found)
<1>1. /\ N \in Nat /\ s \in Seq(Datas) /\ Len(s) = N /\ DOMAIN s = 1..N
      /\ S \in SUBSET Bytes /\ S \in SUBSET KeysOf(n) /\ IsFiniteSet(S) /\ InKeyOrder(ks, N, S)
  BY ListIs
<1>2. {k \in L!Between(L!StartKey(n), L!EndKey(n)) : db[k] = d} = F
  BY MineIs
<1>3. L!DeleteEach(SubSeq(found, 1, most))
  BY <1>2, Zenon DEF L!LDel
<1>4. F \in SUBSET S /\ F \in SUBSET Bytes /\ IsFiniteSet(F)
  <2>1. F \in SUBSET S
    OBVIOUS
  <2>. HIDE DEF F
  <2>2. IsFiniteSet(F)
    BY <1>1, <2>1, FS_Subset
  <2>. QED  BY <1>1, <2>1, <2>2
<1>. HIDE DEF F
<1>5. c \in Nat /\ InKeyOrder(found, c, F)
  BY <1>4, InOrderSorts
<1>. HIDE DEF c, found
<1>6. found \in Seq(F) /\ Len(found) = c
  <2>1. found \in [1..c -> F]
    BY <1>5 DEF InKeyOrder
  <2>2. found \in Seq(F)
    BY <1>5, <2>1, SeqDef
  <2>. QED  BY <1>5, <2>1, <2>2, LenProperties
<1>7. PICK done \in 0..c : done <= count /\ L!Delete(Members(found, 1, done))
  <2>. DEFINE w == SubSeq(found, 1, most)
  <2>0. /\ most \in Nat /\ most <= c /\ most <= Len(found) /\ most \in Int /\ 1 \in Int /\ 1 >= 1
        /\ most <= count
    BY <1>5, <1>6
  <2>. HIDE DEF most
  <2>1. /\ w = Part(found, 1, most) /\ w \in Seq(F)
        /\ Len(w) = IF 1 <= most THEN most - 1 + 1 ELSE 0
    BY <1>6, <2>0, SubSeqIs
  <2>2. (IF 1 <= most THEN most - 1 + 1 ELSE 0) = most
    BY <2>0
  <2>3. Len(w) = most /\ \A h \in 1..most : w[h] = found[h]
    <3>1. \A h \in 1..most : Part(found, 1, most)[h] = found[h + 1 - 1] /\ h + 1 - 1 = h
      BY <2>2 DEF Part
    <3>. QED  BY <2>1, <2>2, <3>1
  <2>. HIDE DEF w
  <2>4. PICK done \in 0..most : L!Delete({w[h] : h \in 1..done})
    BY <1>3, <2>3 DEF L!DeleteEach, w
  <2>5. \A h \in 1..done : h \in 1..most
    BY <2>0
  <2>6. {w[h] : h \in 1..done} = Members(found, 1, done)
    BY <2>3, <2>5 DEF Members
  <2>7. done \in 0..c /\ done <= count
    BY <1>5, <2>0
  <2>. QED  BY <2>4, <2>6, <2>7
<1>. DEFINE D == Members(found, 1, done)
<1>8. D \in SUBSET F
  <2>1. \A h \in 1..done : h \in 1..c
    BY <1>5
  <2>. QED  BY <1>5, <2>1 DEF InKeyOrder, Members
<1>. HIDE DEF D
<1>9. L!Delete(D) /\ D \in SUBSET KeysOf(n)
  BY <1>1, <1>4, <1>7, <1>8 DEF D
<1>10. s = [h \in 1..N |-> db[ks[h]]]
  BY DEF Reads
<1>. DEFINE gone == {h \in 1..N : ks[h] \in D}
<1>. HIDE DEF S, N, s, ks
<1>11. /\ \A i, j \in 1..N : ks[i] = ks[j] => i = j
       /\ \A i, j \in 1..N : L!Before(ks[i], ks[j]) <=> i < j
  BY ListOrder DEF ks, N, S
<1>12. \A h \in 1..N : ks[h] \in S /\ (ks[h] \in F <=> s[h] = d)
  <2>1. \A h \in 1..N : ks[h] \in S
    BY <1>1, OrderTells
  <2>. QED  BY <1>10, <2>1 DEF F
<1>13. gone \in SUBSET {i \in DOMAIN s : s[i] = d}
  <2>1. \A h \in gone : h \in DOMAIN s /\ s[h] = d
    BY <1>1, <1>8, <1>12
  <2>. HIDE DEF gone
  <2>. QED  BY <2>1
<1>14. ASSUME NEW i \in gone, NEW j \in 1..(i - 1), s[j] = d PROVE j \in gone
  <2>1. i \in 1..N /\ j \in 1..N /\ j < i /\ ks[i] \in D
    BY <1>1
  <2>2. L!Before(ks[j], ks[i]) /\ ks[j] \in F /\ ks[i] \in F
    BY <1>8, <1>11, <1>12, <1>14, <2>1
  <2>3. ks[j] \in D
    BY <1>4, <1>5, <2>1, <2>2, FirstsBelow DEF D
  <2>. QED  BY <2>1, <2>3
<1>15. L!Lists!Cardinality(gone) <= count
  <2>. DEFINE at(h) == CHOOSE g \in 1..done : found[g] = ks[h]
              f == [h \in gone |-> at(h)]
  <2>1. ASSUME NEW h \in gone PROVE at(h) \in 1..done /\ found[at(h)] = ks[h]
    <3>1. \E g \in 1..done : found[g] = ks[h]
      BY DEF D, Members
    <3>. QED  BY <3>1
  <2>2. \A h \in gone : h \in 1..N
    OBVIOUS
  <2>. HIDE DEF gone, at
  <2>3. \A h, g \in gone : f[h] = f[g] => h = g
    BY <1>11, <2>1, <2>2
  <2>4. f \in [gone -> 1..done]
    BY <2>1
  <2>. HIDE DEF f
  <2>5. f \in Injection(gone, 1..done)
    BY <2>3, <2>4 DEF Injection, IsInjective
  <2>6. done \in Nat
    BY <1>5
  <2>7. IsFiniteSet(1..done) /\ Cardinality(1..done) = done
    BY <2>6, CountTo
  <2>8. Cardinality(gone) <= Cardinality(1..done) /\ IsFiniteSet(gone)
    BY <2>5, <2>7, FS_Injection
  <2>9. L!Lists!Cardinality(gone) = Cardinality(gone)
    BY DEF L!Lists!Cardinality, Cardinality
  <2>10. Cardinality(gone) \in Nat
    BY <2>8, FS_CardinalityType
  <2>. QED  BY <1>7, <2>6, <2>7, <2>8, <2>9, <2>10
<1>16. Reads(db', Mine(n)') = L!Lists!Kept(s, DOMAIN s \ gone)
  <2>1. Stays(S, D) = DOMAIN s \ gone
    BY <1>1 DEF Stays, N, ks
  <2>. HIDE DEF gone
  <2>. QED  BY <1>9, <2>1, DeletedFrom DEF s, S
<1>17. \A m \in Names \ {n} : Reads(db', Mine(m)') = Reads(db, Mine(m))
  BY <1>9, DeletedOnly
<1>. HIDE DEF gone
<1>18. FirstEqual(gone, s, count, d)
  BY <1>13, <1>14, <1>15 DEF FirstEqual
<1>. QED  BY <1>16, <1>17, <1>18 DEF Becomes, s, S

-----------------------------------------------------------------------------
(* ltrim, which is not bounded by the list.                                *)

\* What stays of a list stays from some index on.
LEMMA UpFrom ==
  ASSUME NEW N \in Nat, NEW b \in 0..N, NEW X,
         \A i, j \in (b + 1)..N : i \in X /\ i < j => j \in X
  PROVE  \E r \in (b + 1)..(N + 1) : \A i \in (b + 1)..N : i \in X <=> r <= i
<1>. DEFINE T == {i \in (b + 1)..N : i \in X} \cup {N + 1}
<1>1. T \in SUBSET Nat /\ T # {}
  OBVIOUS
<1>2. PICK r \in T : \A i \in T : r <= i
  <2>. HIDE DEF T
  <2>. QED  BY <1>1, LeastExists
<1>3. r \in (b + 1)..(N + 1)
  OBVIOUS
<1>4. ASSUME NEW i \in (b + 1)..N PROVE i \in X <=> r <= i
  <2>1. i \in X => r <= i
    BY <1>2
  <2>2. ASSUME r <= i PROVE i \in X
    <3>1. r \in (b + 1)..N /\ r \in X
      BY <2>2
    <3>2. r = i \/ r < i
      BY <2>2
    <3>. QED  BY <3>1, <3>2
  <2>. QED  BY <2>1, <2>2
<1>. QED  BY <1>3, <1>4

Joins(w, u, v) == w = u \o v
SortedKeys(u, a, T) == T \in SUBSET Bytes /\ a \in Nat /\ InKeyOrder(u, a, T)

\* The first keys of two sequences, one after the other.
LEMMA FirstOfTwo ==
  ASSUME NEW T, NEW a, NEW u, SortedKeys(u, a, T), NEW U, NEW b, NEW v, SortedKeys(v, b, U),
         NEW w, Joins(w, u, v)
  PROVE  /\ Len(w) = a + b
         /\ \A done \in 0..a : Members(w, 1, done) = Members(u, 1, done)
         /\ \A done \in 0..(a + b) : done > a => Members(w, 1, done) = T \cup Members(v, 1, done - a)
<1>. /\ T \in SUBSET Bytes /\ a \in Nat /\ InKeyOrder(u, a, T)
     /\ U \in SUBSET Bytes /\ b \in Nat /\ InKeyOrder(v, b, U)
  BY DEF SortedKeys
<1>1. u \in Seq(Bytes) /\ v \in Seq(Bytes) /\ Len(u) = a /\ Len(v) = b
  <2>1. u \in [1..a -> Bytes] /\ v \in [1..b -> Bytes]
    BY DEF InKeyOrder
  <2>2. u \in Seq(Bytes) /\ v \in Seq(Bytes)
    BY <2>1, SeqDef
  <2>. QED  BY <2>1, <2>2, LenProperties
<1>2. Len(w) = a + b /\ \A h \in 1..(a + b) : w[h] = IF h <= a THEN u[h] ELSE v[h - a]
  BY <1>1, ConcatProperties DEF Joins
<1>3. ASSUME NEW done \in 0..a
      PROVE  Members(w, 1, done) = Members(u, 1, done)
  <2>1. \A h \in 1..done : h \in 1..(a + b) /\ h <= a
    OBVIOUS
  <2>2. \A h \in 1..done : w[h] = u[h]
    BY <1>2, <2>1
  <2>. QED  BY <2>2 DEF Members
<1>4. ASSUME NEW done \in 0..(a + b), done > a
      PROVE  Members(w, 1, done) = T \cup Members(v, 1, done - a)
  <2>1. ASSUME NEW h \in 1..done PROVE w[h] \in T \cup Members(v, 1, done - a)
    <3>0. h \in 1..(a + b)
      OBVIOUS
    <3>1. CASE h <= a
      <4>1. h \in 1..a /\ w[h] = u[h]
        BY <1>2, <3>0, <3>1
      <4>. QED  BY <4>1 DEF InKeyOrder
    <3>2. CASE ~(h <= a)
      <4>1. h - a \in 1..(done - a) /\ w[h] = v[h - a]
        BY <1>2, <3>0, <3>2
      <4>. QED  BY <4>1 DEF Members
    <3>. QED  BY <3>1, <3>2
  <2>2. ASSUME NEW k \in T PROVE \E h \in 1..done : w[h] = k
    <3>1. PICK h \in 1..a : u[h] = k
      BY DEF InKeyOrder
    <3>2. h \in 1..done /\ h \in 1..(a + b) /\ h <= a
      BY <1>4
    <3>. QED  BY <1>2, <3>1, <3>2
  <2>3. ASSUME NEW k \in Members(v, 1, done - a) PROVE \E h \in 1..done : w[h] = k
    <3>1. PICK h \in 1..(done - a) : v[h] = k
      BY DEF Members
    <3>2. h + a \in 1..done /\ h + a \in 1..(a + b) /\ ~(h + a <= a) /\ h + a - a = h
      BY <1>4
    <3>3. w[h + a] = v[h + a - a]
      BY <1>2, <3>2
    <3>. QED  BY <3>1, <3>2, <3>3
  <2>. QED  BY <2>1, <2>2, <2>3 DEF Members
<1>. QED  BY <1>2, <1>3, <1>4, Zenon

\* What a list is between two places, or on the way there.
Trimmed(s, i, j) ==
  {SubSeq(s, from, Len(s)) : from \in 1..i}
  \cup {L!Lists!Kept(s, {x \in i..Len(s) : x <= j \/ x >= rest}) : rest \in (j + 1)..(Len(s) + 1)}

LEMMA LTrimTrims ==
  ASSUME StoreInv, NEW n \in Names, NEW start \in Int, NEW end \in Int, L!LTrim(n, start, end)
  PROVE  /\ L!Lists!Place(Reads(db, Mine(n)), start) \in DOMAIN Reads(db, Mine(n))
         /\ L!Lists!Place(Reads(db, Mine(n)), end) \in DOMAIN Reads(db, Mine(n))
         /\ Reads(db', Mine(n)') \in Trimmed(Reads(db, Mine(n)), L!Lists!Place(Reads(db, Mine(n)), start),
                                            L!Lists!Place(Reads(db, Mine(n)), end))
         /\ \A m \in Names \ {n} : Reads(db', Mine(m)') \in L!Lists!WithoutFirst(Reads(db, Mine(m)))
<1>. DEFINE S == Mine(n)
            N == Cardinality(S)
            s == Reads(db, S)
            ks == L!ListKeys(n)
            first == L!KeyAt(n, start)
            last == L!KeyAt(n, end)
            after == L!AfterKey(last)
            T == {k \in DOMAIN db : L!Before(k, first)}
            U == {k \in DOMAIN db : ~L!Before(k, after)}
            u == L!InOrder(T)
            v == L!InOrder(U)
            a == Cardinality(T)
            b == Cardinality(U)
<1>1. /\ N \in Nat /\ s \in Seq(Datas) /\ Len(s) = N /\ DOMAIN s = 1..N /\ DOMAIN ks = 1..N
      /\ S \in SUBSET Bytes /\ S \in SUBSET DOMAIN db /\ InKeyOrder(ks, N, S) /\ ks = L!InOrder(S)
      /\ Len(ks) = N
  BY ListIs DEF Mine
<1>2. first # <<>> /\ last # <<>> /\ L!DeleteEach(u \o v)
  BY Zenon DEF L!LTrim
<1>3. PICK p \in 1..N : first = ks[p] /\ p = IF start >= 0 THEN start + 1 ELSE N + 1 + start
  BY <1>1, <1>2, KeyAtIs
<1>4. PICK q \in 1..N : last = ks[q] /\ q = IF end >= 0 THEN end + 1 ELSE N + 1 + end
  BY <1>1, <1>2, KeyAtIs
<1>5. after \in Bytes /\ after \in Around(n) /\ \A h \in 1..N : L!Before(ks[h], after) <=> h <= q
  BY <1>1, <1>4, AfterTells
<1>6. DOMAIN db \in SUBSET Bytes /\ IsFiniteSet(DOMAIN db)
  BY KeysAreBytes DEF StoreInv
<1>7. T \in SUBSET DOMAIN db /\ U \in SUBSET DOMAIN db
  OBVIOUS
<1>8. a \in Nat /\ InKeyOrder(u, a, T) /\ b \in Nat /\ InKeyOrder(v, b, U)
  <2>. HIDE DEF T, U
  <2>1. T \in SUBSET Bytes /\ IsFiniteSet(T) /\ U \in SUBSET Bytes /\ IsFiniteSet(U)
    BY <1>6, <1>7, FS_Subset
  <2>. QED  BY <2>1, InOrderSorts
<1>. HIDE DEF S, N, s, ks, first, last, after
<1>9. /\ \A i, j \in 1..N : ks[i] = ks[j] => i = j
      /\ \A i, j \in 1..N : L!Before(ks[i], ks[j]) <=> i < j
      /\ \A i \in 1..N : ks[i] \in S /\ ks[i] \in Bytes /\ ks[i] \in DOMAIN db
  <2>1. /\ \A i, j \in 1..N : ks[i] = ks[j] => i = j
        /\ \A i, j \in 1..N : L!Before(ks[i], ks[j]) <=> i < j
    BY <1>1, OrderOnce
  <2>2. \A i \in 1..N : ks[i] \in S
    BY <1>1 DEF InKeyOrder
  <2>. QED  BY <1>1, <2>1, <2>2
<1>10. \A h \in 1..N : (ks[h] \in T <=> h < p) /\ (ks[h] \in U <=> h > q)
  <2>1. \A h \in 1..N : ks[h] \in T <=> h < p
    BY <1>3, <1>9
  <2>2. \A h \in 1..N : ks[h] \in U <=> ~(h <= q)
    BY <1>5, <1>9
  <2>3. \A h \in 1..N : ~(h <= q) <=> h > q
    BY <1>1
  <2>. QED  BY <2>1, <2>2, <2>3
<1>. HIDE DEF T, U, a, b, u, v
<1>11. T \in SUBSET Bytes /\ U \in SUBSET Bytes
  BY <1>6, <1>7
<1>12. PICK D : /\ L!Delete(D)
                /\ \/ \E done \in 0..a : D = Members(u, 1, done)
                   \/ \E done \in 0..b : D = T \cup Members(v, 1, done)
  <2>. DEFINE w == u \o v
  <2>0. w = u \o v
    OBVIOUS
  <2>. HIDE DEF w
  <2>1. /\ Len(w) = a + b
        /\ \A done \in 0..a : Members(w, 1, done) = Members(u, 1, done)
        /\ \A done \in 0..(a + b) : done > a => Members(w, 1, done) = T \cup Members(v, 1, done - a)
    <3>1. SortedKeys(u, a, T) /\ SortedKeys(v, b, U) /\ Joins(w, u, v)
      BY <1>8, <1>11, <2>0 DEF SortedKeys, Joins
    <3>. QED  BY <3>1, FirstOfTwo
  <2>2. PICK done \in 0..(a + b) : L!Delete(Members(w, 1, done))
    BY <1>2, <2>1 DEF L!DeleteEach, Members, w
  <2>3. CASE done <= a
    <3>1. done \in 0..a
      BY <1>8, <2>3
    <3>. QED  BY <2>1, <2>2, <3>1
  <2>4. CASE done > a
    <3>1. done - a \in 0..b
      BY <1>8, <2>4
    <3>2. Members(w, 1, done) = T \cup Members(v, 1, done - a)
      BY <2>1, <2>4
    <3>. QED  BY <2>2, <3>1, <3>2
  <2>5. done <= a \/ done > a
    BY <1>8
  <2>. QED  BY <2>3, <2>4, <2>5
<1>13. Stays(S, D) = {h \in 1..N : ks[h] \notin D}
  BY <1>1 DEF Stays, N, S
<1>14. p = L!Lists!Place(s, start) /\ q = L!Lists!Place(s, end)
  BY <1>1, <1>3, <1>4 DEF L!Lists!Place
<1>15. Reads(db', Mine(n)') \in Trimmed(s, p, q)
  <2>1. ASSUME NEW done \in 0..a, D = Members(u, 1, done)
        PROVE  \E from \in 1..p : Reads(db', Mine(n)') = SubSeq(s, from, N)
    <3>. DEFINE X == {h \in 1..N : ks[h] \notin D}
    <3>1. D \in SUBSET T
      <4>1. \A h \in 1..done : h \in 1..a
        BY <1>8
      <4>. QED  BY <1>8, <2>1, <4>1 DEF InKeyOrder, Members
    <3>2. ASSUME NEW h \in 1..N, NEW g \in 1..N, h \in X, h < g PROVE g \in X
      <4>1. ASSUME ks[g] \in D PROVE FALSE
        <5>1. ks[g] \in T /\ g < p /\ h < p /\ ks[h] \in T
          BY <1>1, <1>10, <3>1, <3>2, <4>1
        <5>2. L!Before(ks[h], ks[g])
          BY <1>9, <3>2
        <5>3. ks[h] \in Members(u, 1, done)
          BY <1>8, <1>11, <2>1, <4>1, <5>1, <5>2, FirstsBelow
        <5>. QED  BY <2>1, <3>2, <5>3
      <4>. QED  BY <4>1
    <3>. HIDE DEF X
    <3>3. PICK r \in (0 + 1)..(N + 1) : \A h \in (0 + 1)..N : h \in X <=> r <= h
      <4>1. 0 \in 0..N /\ \A h, g \in (0 + 1)..N : h \in X /\ h < g => g \in X
        BY <1>1, <3>2
      <4>. QED  BY <1>1, <4>1, UpFrom
    <3>4. r <= p
      <4>1. ks[p] \notin D /\ p \in (0 + 1)..N
        BY <1>10, <3>1
      <4>2. p \in X
        BY <4>1 DEF X
      <4>. QED  BY <3>3, <4>1, <4>2
    <3>5. r \in 1..p /\ r \in 1..(N + 1) /\ N \in 0..N
      BY <1>1, <3>3, <3>4
    <3>6. \A h \in 1..N : ks[h] \notin D <=> r <= h /\ h <= N
      <4>1. \A h \in 1..N : h \in (0 + 1)..N /\ h <= N
        OBVIOUS
      <4>. QED  BY <3>3, <4>1 DEF X
    <3>7. Reads(db', Mine(n)') = SubSeq(s, r, N)
      BY <1>12, <3>5, <3>6, Loses DEF N, S, s, ks
    <3>. QED  BY <3>5, <3>7
  <2>2. ASSUME NEW done \in 0..b, D = T \cup Members(v, 1, done)
        PROVE  \E rest \in (q + 1)..(N + 1) :
                 Reads(db', Mine(n)') = L!Lists!Kept(s, {x \in p..N : x <= q \/ x >= rest})
    <3>. DEFINE M == Members(v, 1, done)
                X == {h \in 1..N : ks[h] \notin M}
    <3>1. M \in SUBSET U
      <4>1. \A h \in 1..done : h \in 1..b
        BY <1>8
      <4>. QED  BY <1>8, <4>1 DEF InKeyOrder, Members
    <3>. HIDE DEF M
    <3>2. ASSUME NEW h \in (q + 1)..N, NEW g \in (q + 1)..N, h \in X, h < g PROVE g \in X
      <4>0. h \in 1..N /\ g \in 1..N /\ h > q /\ g > q
        BY <1>1
      <4>1. ASSUME ks[g] \in M PROVE FALSE
        <5>1. ks[g] \in U /\ ks[h] \in U
          BY <1>10, <4>0
        <5>2. L!Before(ks[h], ks[g])
          BY <1>9, <3>2, <4>0
        <5>3. ks[h] \in Members(v, 1, done)
          BY <1>8, <1>11, <4>1, <5>1, <5>2, FirstsBelow DEF M
        <5>. QED  BY <3>2, <5>3 DEF M
      <4>. QED  BY <4>0, <4>1
    <3>3. PICK r \in (q + 1)..(N + 1) : \A h \in (q + 1)..N : h \in X <=> r <= h
      <4>. HIDE DEF X
      <4>1. q \in 0..N /\ \A h, g \in (q + 1)..N : h \in X /\ h < g => g \in X
        BY <1>1, <3>2
      <4>. QED  BY <1>1, <4>1, UpFrom
    <3>4. ASSUME NEW h \in 1..N PROVE ks[h] \notin D <=> h >= p /\ (h <= q \/ h >= r)
      <4>1. ks[h] \notin D <=> ~(h < p) /\ ks[h] \notin M
        BY <1>10, <2>2 DEF M
      <4>2. CASE h <= q
        <5>1. ks[h] \notin M
          BY <1>1, <1>10, <3>1, <4>2
        <5>. QED  BY <1>1, <4>1, <4>2, <5>1
      <4>3. CASE ~(h <= q)
        <5>1. h \in (q + 1)..N
          BY <1>1, <4>3
        <5>2. ks[h] \notin M <=> r <= h
          BY <3>3, <5>1
        <5>. QED  BY <1>1, <4>1, <4>3, <5>2
      <4>. QED  BY <4>2, <4>3
    <3>. DEFINE keep == {x \in p..N : x <= q \/ x >= r}
    <3>5. \A h \in 1..N : h \in keep <=> h >= p /\ (h <= q \/ h >= r)
      BY <1>1
    <3>6. keep \in SUBSET (1..N)
      BY <1>1
    <3>. HIDE DEF keep
    <3>7. Stays(S, D) = keep
      BY <1>13, <3>4, <3>5, <3>6
    <3>8. Reads(db', Mine(n)') = L!Lists!Kept(s, keep)
      BY <1>12, <3>7, DeletedFrom DEF s, S
    <3>. QED  BY <3>8 DEF keep
  <2>3. Len(s) = N
    BY <1>1
  <2>4. CASE \E done \in 0..a : D = Members(u, 1, done)
    BY <2>1, <2>3, <2>4 DEF Trimmed
  <2>5. CASE \E done \in 0..b : D = T \cup Members(v, 1, done)
    BY <2>2, <2>3, <2>5 DEF Trimmed
  <2>. QED  BY <1>12, <2>4, <2>5
<1>16. ASSUME NEW m \in Names, m # n PROVE Reads(db', Mine(m)') \in L!Lists!WithoutFirst(Reads(db, Mine(m)))
  <2>. DEFINE X == {h \in 1..Cardinality(Mine(m)) : L!ListKeys(m)[h] \notin D}
              c == Cardinality(Mine(m))
              km == L!ListKeys(m)
  <2>1. /\ c \in Nat /\ Mine(m) \in SUBSET Bytes /\ InKeyOrder(km, c, Mine(m))
        /\ Mine(m) \in SUBSET DOMAIN db /\ Len(Reads(db, Mine(m))) = c
    BY ListIs DEF Mine
  <2>. HIDE DEF c, km
  <2>2. ASSUME NEW h \in 1..c, NEW g \in 1..c, h < g, km[g] \in D PROVE km[h] \in D
    <3>. DEFINE k == km[h]
                l == km[g]
    <3>1. /\ k \in Mine(m) /\ l \in Mine(m) /\ L!Before(k, l)
          /\ k \in Bytes /\ l \in Bytes /\ k \in DOMAIN db /\ l \in DOMAIN db
      BY <2>1, <2>2 DEF InKeyOrder
    <3>2. l \in D
      BY <2>2
    <3>. HIDE DEF k, l
    <3>3. first \in Bytes /\ first \in Around(n)
      BY <1>3, <1>9, AroundList DEF S, Mine
    <3>4. l \in T => k \in T
      BY <3>1, <3>3, BeforeTransitive DEF T
    <3>5. k \in T \/ k \in U
      <4>1. k \in StoreKeys /\ k \notin KeysOf(n)
        BY <1>16, <3>1, KeysApart DEF StoreInv, Mine
      <4>2. CASE \A x \in Around(n) : L!Before(k, x)
        BY <3>1, <3>3, <4>2 DEF T
      <4>3. CASE \A x \in Around(n) : L!Before(x, k)
        BY <1>5, <3>1, <4>3, BeforeAsymmetric DEF U
      <4>. QED  BY <4>1, <4>2, <4>3, Outside
    <3>6. ASSUME NEW done \in 0..a, D = Members(u, 1, done) PROVE k \in D
      <4>1. \A i \in 1..done : i \in 1..a
        BY <1>8
      <4>2. l \in T
        BY <1>8, <3>2, <3>6, <4>1 DEF InKeyOrder, Members
      <4>. QED  BY <1>8, <1>11, <3>1, <3>2, <3>4, <3>6, <4>2, FirstsBelow
    <3>7. ASSUME NEW done \in 0..b, D = T \cup Members(v, 1, done) PROVE k \in D
      <4>1. CASE k \in T
        BY <3>7, <4>1
      <4>2. CASE k \notin T
        <5>1. k \in U /\ l \in Members(v, 1, done)
          BY <3>2, <3>4, <3>5, <3>7, <4>2
        <5>2. \A i \in 1..done : i \in 1..b
          BY <1>8
        <5>3. l \in U
          BY <1>8, <5>1, <5>2 DEF InKeyOrder, Members
        <5>4. k \in Members(v, 1, done)
          BY <1>8, <1>11, <3>1, <5>1, <5>3, FirstsBelow
        <5>. QED  BY <3>7, <5>4
      <4>. QED  BY <4>1, <4>2
    <3>8. k \in D
      BY <1>12, <3>6, <3>7
    <3>. QED  BY <3>8 DEF k
  <2>3. ASSUME NEW h \in (0 + 1)..c, NEW g \in (0 + 1)..c, h \in X, h < g PROVE g \in X
    <3>1. h \in 1..c /\ g \in 1..c /\ km[h] \notin D
      BY <2>3 DEF km, c
    <3>2. km[g] \notin D
      BY <2>2, <2>3, <3>1
    <3>. QED  BY <3>1, <3>2 DEF km, c
  <2>4. \A h \in 1..c : h \in X <=> km[h] \notin D
    BY DEF km, c
  <2>. HIDE DEF X
  <2>5. PICK r \in (0 + 1)..(c + 1) : \A h \in (0 + 1)..c : h \in X <=> r <= h
    <3>1. 0 \in 0..c
      BY <2>1
    <3>. QED  BY <2>1, <2>3, <3>1, UpFrom
  <2>6. \A h \in 1..c : km[h] \notin D <=> r <= h /\ h <= c
    <3>1. \A h \in 1..c : h \in (0 + 1)..c /\ h <= c
      OBVIOUS
    <3>. QED  BY <2>4, <2>5, <3>1
  <2>7. r \in 1..(c + 1) /\ c \in 0..c
    BY <2>1
  <2>8. Reads(db', Mine(m)') = SubSeq(Reads(db, Mine(m)), r, c)
    BY <1>12, <2>6, <2>7, Loses DEF c, km
  <2>. QED  BY <2>1, <2>7, <2>8 DEF L!Lists!WithoutFirst
<1>17. p \in DOMAIN s /\ q \in DOMAIN s
  BY <1>1
<1>. QED  BY <1>14, <1>15, <1>16, <1>17 DEF s, S

\* hdrop deletes keys as they come.
LEMMA HDropLoses ==
  ASSUME StoreInv, NEW n \in Names, L!HDrop(n), NEW m \in Names
  PROVE  Reads(db', Mine(m)') \in L!Lists!Subsequences(Reads(db, Mine(m)))
<1>1. PICK D : L!Delete(D)
  BY DEF L!HDrop, L!DeleteEach
<1>2. Reads(db', Mine(m)') = L!Lists!Kept(Reads(db, Mine(m)), Stays(Mine(m), D))
  BY <1>1, DeletedFrom
<1>3. Stays(Mine(m), D) \in SUBSET DOMAIN Reads(db, Mine(m))
  BY ListIs DEF Stays
<1>. QED  BY <1>2, <1>3 DEF L!Lists!Subsequences

-----------------------------------------------------------------------------
(* The store implements ListStore.                                         *)

\* What is read before and after a step, as the instance sees it.
ReadsNow ==
  /\ \A n \in Names : L!ListOf(n) = Reads(db, Mine(n))
  /\ \A n \in Names : L!ListOf(n)' = Reads(db', Mine(n)')

LEMMA ReadNow == ASSUME AllRead, AllRead' PROVE ReadsNow
BY DEF AllRead, ReadsNow

LEMMA OnlyStep ==
  ASSUME ReadsNow, NEW n \in Names, NEW t, Becomes(n, t)
  PROVE  L!Lists!Only(n, t)
<1>1. \A m \in Names : L!ListOf(m)' = IF m = n THEN t ELSE L!ListOf(m)
  BY DEF ReadsNow, Becomes
<1>. QED  BY <1>1 DEF L!Lists!Only

LEMMA SameStep ==
  ASSUME ReadsNow, \A m \in Names : Reads(db', Mine(m)') = Reads(db, Mine(m))
  PROVE  L!Lists!Same
<1>1. \A m \in Names : L!ListOf(m)' = L!ListOf(m)
  BY DEF ReadsNow
<1>. QED  BY <1>1 DEF L!Lists!Same

\* Each operation makes of the lists what ListStore says.
LEMMA EachOnLists == ASSUME StoreInv, ReadsNow PROVE L!OnLists
<1>. DEFINE s(n) == Reads(db, Mine(n))
<1>1. \A n \in Names : L!ListOf(n) = s(n) /\ L!ListOf(n)' = Reads(db', Mine(n)')
  BY DEF ReadsNow
<1>2. \A i \in Indices : i \in Int
  BY StoreConstants
<1>3. ASSUME NEW D, L!Delete(D), \A m \in Names : \A k \in D : k \notin KeysOf(m) PROVE L!Lists!Same
  <2>1. \A m \in Names : Reads(db', Mine(m)') = Reads(db, Mine(m))
    BY <1>3, DeletedFrom
  <2>. QED  BY <2>1, SameStep
<1>4. ASSUME NEW k \in StoreKeys, NEW d \in Datas, L!Put({k}, d), \A m \in Names : k \notin KeysOf(m)
      PROVE  L!Lists!Same
  <2>1. \A m \in Names : Reads(db', Mine(m)') = Reads(db, Mine(m))
    BY <1>4, PutElsewhere
  <2>. QED  BY <2>1, SameStep
<1>5. ASSUME NEW n \in Names, L!LDrop(n) PROVE L!Lists!Drop(n)
  <2>1. PICK t \in L!Lists!WithoutFirst(s(n)) : Becomes(n, t)
    BY <1>5, LDropBecomes
  <2>2. L!Lists!Only(n, t)
    BY <2>1, OnlyStep
  <2>. QED  BY <1>1, <2>1, <2>2 DEF L!Lists!Drop
<1>6. ASSUME NEW n \in Names, NEW left \in BOOLEAN, L!LPop(n, left) PROVE L!Lists!Pop(n, left)
  <2>1. s(n) # <<>> /\ Becomes(n, Popped(s(n), left))
    BY <1>6, LPopBecomes
  <2>2. L!Lists!Only(n, Popped(s(n), left))
    BY <2>1, OnlyStep
  <2>. QED  BY <1>1, <2>1, <2>2 DEF L!Lists!Pop, Popped
<1>7. ASSUME NEW n \in Names, NEW left \in BOOLEAN, NEW d \in Datas, L!LPush(n, d, left)
      PROVE  L!Lists!Push(n, d, left)
  <2>1. Becomes(n, Pushed(s(n), d, left))
    BY <1>7, LPushBecomes
  <2>2. L!Lists!Only(n, Pushed(s(n), d, left))
    BY <2>1, OnlyStep
  <2>. QED  BY <1>1, <2>2 DEF L!Lists!Push, Pushed
<1>8. ASSUME NEW n \in Names, NEW i \in Indices, NEW j \in Indices, L!LTrim(n, i, j)
      PROVE  L!Lists!Trim(n, i, j)
  <2>0. i \in Int /\ j \in Int
    BY <1>2
  <2>1. /\ L!Lists!Place(s(n), i) \in DOMAIN s(n) /\ L!Lists!Place(s(n), j) \in DOMAIN s(n)
        /\ L!ListOf(n)' \in Trimmed(s(n), L!Lists!Place(s(n), i), L!Lists!Place(s(n), j))
        /\ \A m \in Names \ {n} : L!ListOf(m)' \in L!Lists!WithoutFirst(L!ListOf(m))
    BY <1>1, <1>8, <2>0, LTrimTrims
  <2>. QED  BY <1>1, <2>1 DEF L!Lists!Trim, Trimmed
<1>9. ASSUME NEW n \in Names, NEW d \in Datas, NEW i \in Indices, L!LSet(n, i, d) PROVE L!Lists!Set(n, i, d)
  <2>0. i \in Int
    BY <1>2
  <2>1. PICK p \in DOMAIN s(n) : p = L!Lists!Place(s(n), i) /\ Becomes(n, L!Lists!ReplaceAt(s(n), p, d))
    BY <1>9, <2>0, LSetBecomes
  <2>2. L!Lists!Only(n, L!Lists!ReplaceAt(s(n), p, d))
    BY <2>1, OnlyStep
  <2>. QED  BY <1>1, <2>1, <2>2 DEF L!Lists!Set
<1>10. ASSUME NEW n \in Names, NEW d \in Datas, NEW c \in 1..2, L!LDel(n, c, d) PROVE L!Lists!Del(n, c, d)
  <2>0. c \in Nat
    OBVIOUS
  <2>1. PICK gone : FirstEqual(gone, s(n), c, d) /\ Becomes(n, L!Lists!Kept(s(n), DOMAIN s(n) \ gone))
    BY <1>10, <2>0, LDelBecomes
  <2>2. L!Lists!Only(n, L!Lists!Kept(s(n), DOMAIN s(n) \ gone))
    BY <2>1, OnlyStep
  <2>. QED  BY <1>1, <2>1, <2>2 DEF L!Lists!Del, FirstEqual
<1>11. ASSUME NEW n \in Names, L!HDrop(n) PROVE L!Lists!Lose
  <2>1. \A m \in Names : L!ListOf(m)' \in L!Lists!Subsequences(L!ListOf(m))
    BY <1>1, <1>11, HDropLoses
  <2>. QED  BY <2>1 DEF L!Lists!Lose
<1>12. ASSUME NEW n \in Names, NEW d \in Datas, L!VSet(n, d) PROVE L!Lists!Same
  <2>1. L!ValueKey(n) \in StoreKeys /\ \A m \in Names : L!ValueKey(n) \notin KeysOf(m)
    BY KeysApart DEF StoreKeys
  <2>. QED  BY <1>4, <1>12, <2>1 DEF L!VSet
<1>13. ASSUME NEW n \in Names, NEW d \in Datas, NEW f \in Fields, L!HSet(n, f, d) PROVE L!Lists!Same
  <2>1. L!HashKey(n, f) \in StoreKeys /\ \A m \in Names : L!HashKey(n, f) \notin KeysOf(m)
    BY KeysApart DEF StoreKeys
  <2>. QED  BY <1>4, <1>13, <2>1 DEF L!HSet
<1>14. ASSUME NEW n \in Names, NEW fs \in SUBSET Fields, L!HDel(n, fs) PROVE L!Lists!Same
  <2>1. \A m \in Names : \A k \in {L!HashKey(n, f) : f \in fs} : k \notin KeysOf(m)
    BY KeysApart
  <2>. QED  BY <1>3, <1>14, <2>1 DEF L!HDel
<1>15. ASSUME NEW ns \in SUBSET Names, L!VDel(ns) PROVE L!Lists!Same
  <2>1. \A m \in Names : \A k \in {L!ValueKey(o) : o \in ns} : k \notin KeysOf(m)
    BY KeysApart
  <2>. QED  BY <1>3, <1>15, <2>1 DEF L!VDel
<1>. QED  BY <1>5, <1>6, <1>7, <1>8, <1>9, <1>10, <1>11, <1>12, <1>13, <1>14, <1>15, Zenon DEF L!OnLists

LEMMA ListsInit == ASSUME L!Init PROVE L!Lists!Init
<1>1. StoreInv /\ DOMAIN db = {}
  BY InitStoreInv DEF L!Init
<1>2. ASSUME NEW n \in Names PROVE L!ListOf(n) = <<>>
  <2>1. Mine(n) = {}
    BY <1>1 DEF Mine
  <2>2. L!ListOf(n) \in Seq(Datas) /\ Len(L!ListOf(n)) = 0
    BY <1>1, <2>1, ListOfIs, FS_EmptySet
  <2>. QED  BY <2>2, EmptySeq
<1>. QED  BY <1>2 DEF L!Lists!Init

\* However the numbers of the keys carry, whatever else is in the store and wherever a delete of
\* several keys breaks off: each operation makes of its list what ListStore says of that operation
\* and leaves every other list as it is, but ltrim, by which other lists lose first elements, and
\* hdrop, by which any list may lose elements.
THEOREM ListsAlwaysImplement == L!Spec => ListsImplement
<1>1. L!Init => L!Lists!Init
  BY ListsInit
<1>2. StoreInv /\ AllRead /\ AllRead' => L!OnLists
  BY ReadNow, EachOnLists
<1>. QED  BY <1>1, <1>2, AlwaysStoreInv, AllAreRead, PTL
          DEF L!Spec, ListsImplement, L!ListsImplement

-----------------------------------------------------------------------------
(* The packed integers.                                                    *)

\* Division undoes "multiply and add a smaller number": a shift to the right
\* undoes a shift to the left and an or, for a negative number as well.
LEMMA DivOfPacked ==
  ASSUME NEW b \in Nat \ {0}, NEW x \in Int, NEW y \in 0..(b - 1)
  PROVE  (x * b + y) \div b = x
OBVIOUS

\* A packed pair of a server id and an index is smaller than its span.
LEMMA PackedBound ==
  ASSUME NEW a \in Nat \ {0}, NEW b \in Nat \ {0}, NEW s \in 0..(a - 1), NEW i \in 0..(b - 1)
  PROVE  s * b + i \in 0..(a * b - 1) /\ a * b \in Nat \ {0}
<1>1. s * b >= 0 /\ a * b > 0
  OBVIOUS
<1>2. s * b =< (a - 1) * b
  OBVIOUS
<1>3. (a - 1) * b = a * b - b
  OBVIOUS
<1>4. s * b \in Int /\ a * b \in Int
  OBVIOUS
<1>. QED  BY <1>1, <1>2, <1>3, <1>4

\* Reassociating the packed integer of three parts.
LEMMA PackedTwice ==
  ASSUME NEW t \in Int, NEW s \in Int, NEW i \in Int, NEW a \in Int, NEW b \in Int
  PROVE  (t * a + s) * b + i = t * (a * b) + (s * b + i)
OBVIOUS

\* RoutesAreServers: remove_route unpacks what add_route_by_server packed.
THEOREM RoutesUnpack == RoutesAreServers
<1>. SUFFICES ASSUME NEW t \in ServerTypes, NEW s \in ServerIDs, NEW i \in ServerIndexes
              PROVE  /\ TypeIDPart(RouteIDOf(t, s, i)) = TypeIDOf(t, s)
                     /\ TypePart(RouteIDOf(t, s, i)) = t
  BY DEF RoutesAreServers
<1>1. t \in Int /\ s \in Int /\ i \in Int /\ IDSpan \in Int /\ IndexSpan \in Int
  BY ServerTypesAssumption, SpanAssumption DEF ServerIDs, ServerIndexes
<1>2. TypeIDOf(t, s) \in Int
  BY <1>1 DEF TypeIDOf
<1>3. TypeIDPart(RouteIDOf(t, s, i)) = TypeIDOf(t, s)
  BY <1>2, DivOfPacked, SpanAssumption DEF TypeIDPart, RouteIDOf, ServerIndexes
<1>4. RouteIDOf(t, s, i) = t * (IDSpan * IndexSpan) + (s * IndexSpan + i)
  BY <1>1, PackedTwice DEF RouteIDOf, TypeIDOf
<1>5. /\ s * IndexSpan + i \in 0..(IDSpan * IndexSpan - 1)
      /\ IDSpan * IndexSpan \in Nat \ {0}
  BY PackedBound, SpanAssumption DEF ServerIDs, ServerIndexes
<1>6. TypePart(RouteIDOf(t, s, i)) = t
  BY <1>1, <1>4, <1>5, DivOfPacked DEF TypePart
<1>. QED  BY <1>3, <1>6

-----------------------------------------------------------------------------
(* The inductive invariant: MapsAgree says where every entry is, TypeOK    *)
(* that the maps have the keys MapsAgree speaks of.                        *)

IInv == TypeOK /\ MapsAgree

LEMMA InitIInv == Init => IInv
<1>. SUFFICES ASSUME Init PROVE IInv
  OBVIOUS
<1>1. TypeOK
  BY DEF Init, TypeOK, NoRoutes, LinkOrNone
<1>2. LinksAgree
  BY LinksAssumption DEF Init, LinksAgree, NoRoutes
<1>3. PrefixesAgree
  BY DEF Init, PrefixesAgree, NoRoutes
<1>. QED  BY <1>1, <1>2, <1>3 DEF IInv, MapsAgree

LEMMA AddRouteByUserIInv ==
  ASSUME IInv, NEW u \in Users, NEW l \in Links, AddRouteByUser(u, l)
  PROVE  IInv'
<1>. USE DEF IInv, MapsAgree, AddRouteByUser
<1>1. TypeOK'
  BY DEF TypeOK, LinkOrNone
<1>2. LinksAgree'
  BY LinksAssumption DEF TypeOK, LinksAgree, LinkOrNone
<1>3. PrefixesAgree'
  BY DEF PrefixesAgree
<1>. QED  BY <1>1, <1>2, <1>3

LEMMA AddRouteByServerIInv ==
  ASSUME IInv, NEW t \in ServerTypes, NEW s \in ServerIDs, NEW i \in ServerIndexes,
         NEW l \in Links, AddRouteByServer(t, s, i, l)
  PROVE  IInv'
<1>. DEFINE r == RouteIDOf(t, s, i)
            k == TypeIDOf(t, s)
<1>1. r \in Routes /\ k \in TypeIDs
  BY DEF Routes, TypeIDs
<1>2. TypePart(r) = t /\ TypeIDPart(r) = k
  BY RoutesUnpack DEF RoutesAreServers
<1>3. /\ routes[r] = NoLink
      /\ routeLinks' = [routeLinks EXCEPT ![l] = @ \cup {r}]
      /\ routes' = [routes EXCEPT ![r] = l]
      /\ serverTypes' = [serverTypes EXCEPT ![t] = [@ EXCEPT ![r] = l]]
      /\ serverTypeIDs' = [serverTypeIDs EXCEPT ![k] = [@ EXCEPT ![r] = l]]
      /\ UNCHANGED <<userLinks, users>>
  BY DEF AddRouteByServer, RouteInserted
<1>. HIDE DEF r, k
<1>. USE DEF IInv, MapsAgree
<1>4. TypeOK'
  BY <1>1, <1>3 DEF TypeOK, LinkOrNone
<1>5. LinksAgree'
  BY <1>1, <1>3, LinksAssumption DEF TypeOK, LinksAgree, LinkOrNone
<1>6. PrefixesAgree'
  BY <1>1, <1>2, <1>3 DEF TypeOK, PrefixesAgree
<1>. QED  BY <1>4, <1>5, <1>6

LEMMA RemoveRouteIInv ==
  ASSUME IInv, NEW l \in Links, RemoveRoute(l)
  PROVE  IInv'
<1>. USE DEF IInv, MapsAgree, RemoveRoute
<1>1. TypeOK'
  BY DEF TypeOK, LinkOrNone, EraseFromTypes, EraseFromTypeIDs
<1>2. LinksAgree'
  BY LinksAssumption DEF TypeOK, LinksAgree, LinkOrNone
<1>3. PrefixesAgree'
  BY DEF TypeOK, PrefixesAgree, EraseFromTypes, EraseFromTypeIDs
<1>. QED  BY <1>1, <1>2, <1>3

LEMMA ClearIInv == ASSUME Clear PROVE IInv'
<1>1. TypeOK'
  BY DEF Clear, TypeOK, NoRoutes, LinkOrNone
<1>2. LinksAgree'
  BY LinksAssumption DEF Clear, LinksAgree, NoRoutes
<1>3. PrefixesAgree'
  BY DEF Clear, PrefixesAgree, NoRoutes
<1>. QED  BY <1>1, <1>2, <1>3 DEF IInv, MapsAgree

LEMMA NextIInv == IInv /\ [Next]_vars => IInv'
<1>. SUFFICES ASSUME IInv, [Next]_vars PROVE IInv'
  OBVIOUS
<1>1. ASSUME NEW u \in Users, NEW l \in Links, AddRouteByUser(u, l) PROVE IInv'
  BY <1>1, AddRouteByUserIInv
<1>2. ASSUME NEW t \in ServerTypes, NEW s \in ServerIDs, NEW i \in ServerIndexes,
             NEW l \in Links, AddRouteByServer(t, s, i, l)
      PROVE  IInv'
  BY <1>2, AddRouteByServerIInv
<1>3. ASSUME NEW l \in Links, RemoveRoute(l) PROVE IInv'
  BY <1>3, RemoveRouteIInv
<1>4. CASE Clear
  BY <1>4, ClearIInv
<1>5. CASE UNCHANGED vars
  BY <1>5 DEF vars, IInv, TypeOK, MapsAgree, LinksAgree, PrefixesAgree
<1>. QED  BY <1>1, <1>2, <1>3, <1>4, <1>5 DEF Next

\* IInv holds in every reachable state.
LEMMA AlwaysIInv == Spec => []IInv
<1>. QED  BY InitIInv, NextIInv, PTL DEF Spec

-----------------------------------------------------------------------------
(* The theorems.                                                           *)

\* The maps keep their types.
THEOREM TypeCorrect == Spec => []TypeOK
<1>1. IInv => TypeOK
  BY DEF IInv
<1>. QED  BY <1>1, AlwaysIInv, PTL

\* The six maps of RouteMgr always tell one story.
THEOREM MapsAlwaysAgree == Spec => []MapsAgree
<1>1. IInv => MapsAgree
  BY DEF IInv
<1>. QED  BY <1>1, AlwaysIInv, PTL

\* A listing names exactly the servers a find finds, with the same link.
THEOREM FindsAlwaysAgree == Spec => []FindsAgree
<1>1. IInv => FindsAgree
  <2>. SUFFICES ASSUME IInv,
                       NEW t \in ServerTypes, NEW s \in ServerIDs, NEW i \in ServerIndexes,
                       NEW r, r = RouteIDOf(t, s, i), NEW k, k = TypeIDOf(t, s)
                PROVE  /\ routes[r] # NoLink <=> r \in TypeRoutes(t)
                       /\ routes[r] # NoLink <=> r \in TypeIDRoutes(t, s)
                       /\ serverTypes[t][r] = routes[r]
                       /\ serverTypeIDs[k][r] = routes[r]
    BY DEF FindsAgree, FindRouteByServer
  <2>1. r \in Routes /\ k \in TypeIDs
    BY DEF Routes, TypeIDs
  <2>2. TypePart(r) = t /\ TypeIDPart(r) = k
    BY RoutesUnpack DEF RoutesAreServers
  <2>3. serverTypes[t][r] = routes[r] /\ serverTypeIDs[k][r] = routes[r]
    BY <2>1, <2>2 DEF IInv, MapsAgree, PrefixesAgree
  <2>. QED  BY <2>1, <2>3 DEF TypeRoutes, TypeIDRoutes
<1>. QED  BY <1>1, AlwaysIInv, PTL

\* A route or a user changes its link only by losing it with all that led there.
THEOREM NoTakeOver == Spec => NeverTakenOver
<1>. DEFINE Kept ==
       /\ \A r \in Routes : routes[r] # NoLink /\ routes'[r] # routes[r] =>
            \A q \in Routes : routes'[q] # routes[r]
       /\ \A u \in Users : users[u] # NoLink /\ users'[u] # users[u] =>
            \A v \in Users : users'[v] # users[u]
<1>1. IInv /\ [Next]_vars => [Kept]_vars
  <2>. SUFFICES ASSUME IInv, Next PROVE Kept
    OBVIOUS
  <2>. USE DEF IInv, TypeOK
  <2>1. ASSUME NEW u \in Users, NEW l \in Links, AddRouteByUser(u, l) PROVE Kept
    BY <2>1 DEF AddRouteByUser
  <2>2. ASSUME NEW t \in ServerTypes, NEW s \in ServerIDs, NEW i \in ServerIndexes,
               NEW l \in Links, AddRouteByServer(t, s, i, l)
        PROVE  Kept
    BY <2>2 DEF AddRouteByServer, Routes
  <2>3. ASSUME NEW l \in Links, RemoveRoute(l) PROVE Kept
    BY <2>3, LinksAssumption DEF RemoveRoute, MapsAgree, LinksAgree, LinkOrNone
  <2>4. CASE Clear
    BY <2>4 DEF Clear, NoRoutes
  <2>. QED  BY <2>1, <2>2, <2>3, <2>4 DEF Next
<1>. QED  BY <1>1, AlwaysIInv, PTL DEF Spec, NeverTakenOver

-----------------------------------------------------------------------------
(* The tables together.                                                    *)

\* A behaviour of the tables is one of the routes and one of the store: what is said of these
\* two specifications holds where they are checked together.
LEMMA TablesRunEach == TablesSpec => Spec /\ L!Spec
<1>1. TablesInit => Init /\ L!Init
  BY DEF TablesInit
<1>2. [TablesNext]_<<which, vars, reuseVars, db>> => [Next]_vars /\ [L!Next]_db
  BY DEF TablesNext, RunsRoutes, RunsReuse, RunsStore
<1>. QED  BY <1>1, <1>2, PTL DEF TablesSpec, Spec, L!Spec
=============================================================================
