------------------------- MODULE MsgProtocol_proofs -------------------------
(***************************************************************************)
(* For every stream of messages, every way of cutting it into reads, every *)
(* content of the bodies and every number of connections through one link: *)
(* no byte is given on twice or out of order; what arrives before a read   *)
(* ends inside a message is given on as it is; and where reads end with    *)
(* messages, all of them are.                                              *)
(***************************************************************************)
EXTENDS MsgProtocol, SequenceTheorems, TLAPS

-----------------------------------------------------------------------------
(* The stream.                                                             *)

LEMMA StreamType ==
  ASSUME Stream
  PROVE  /\ Len(Msgs) \in Nat /\ Total \in Nat
         /\ \A i \in 0..Len(Msgs) : End(i) \in Nat /\ End(i) =< Total
         /\ \A m \in 1..Len(Msgs) : /\ Msgs[m].head \in 1..5 /\ m - 1 \in 0..Len(Msgs)
                                    /\ m \in 0..Len(Msgs)
                                    /\ End(m - 1) + Msgs[m].head =< End(m)
                                    /\ Body(m) \in Nat
                                    /\ Body(m) = End(m) - End(m - 1) - Msgs[m].head
<1>1. /\ Len(Msgs) \in Nat
      /\ \A m \in 1..Len(Msgs) : Msgs[m].head \in 1..5 /\ Msgs[m].end \in Nat
  <2>. DEFINE S == [head : Widths, end : Nat]
  <2>1. Msgs \in Seq(S)
    BY DEF Stream
  <2>2. \A r \in S : r.head \in 1..5 /\ r.end \in Nat
    BY DEF Widths
  <2>. HIDE DEF S
  <2>3. Len(Msgs) \in Nat /\ \A m \in 1..Len(Msgs) : Msgs[m] \in S
    BY <2>1, ElementOfSeq
  <2>. QED  BY <2>2, <2>3
<1>2. \A i \in 0..Len(Msgs) : End(i) \in Nat
  BY <1>1 DEF End
<1>3. Total \in Nat
  BY <1>1, <1>2 DEF Total
<1>4. ASSUME NEW i \in 0..Len(Msgs) PROVE End(i) =< Total
  <2>1. CASE i = Len(Msgs)
    BY <1>2, <2>1 DEF Total
  <2>2. CASE i < Len(Msgs)
    <3>1. Len(Msgs) \in 1..Len(Msgs) /\ Len(Msgs) \in 0..Len(Msgs)
      BY <1>1, <2>2
    <3>2. End(i) + Msgs[Len(Msgs)].head =< End(Len(Msgs))
      BY <2>2, <3>1 DEF Stream
    <3>. QED  BY <1>1, <1>2, <3>1, <3>2 DEF Total
  <2>. QED  BY <1>1, <2>1, <2>2
<1>5. ASSUME NEW m \in 1..Len(Msgs)
      PROVE  /\ m - 1 \in 0..Len(Msgs) /\ m \in 0..Len(Msgs)
             /\ End(m - 1) + Msgs[m].head =< End(m)
  <2>1. m - 1 \in 0..Len(Msgs) /\ m - 1 < m /\ m \in 0..Len(Msgs)
    BY <1>1
  <2>. QED  BY <2>1 DEF Stream
<1>6. ASSUME NEW m \in 1..Len(Msgs)
      PROVE  Body(m) \in Nat /\ Body(m) = End(m) - End(m - 1) - Msgs[m].head
  <2>1. m - 1 \in 0..Len(Msgs) /\ m \in 0..Len(Msgs)
    BY <1>5
  <2>2. End(m) \in Nat /\ End(m - 1) \in Nat
    BY <1>2, <2>1
  <2>3. PICK h \in 1..5 : h = Msgs[m].head
    BY <1>1
  <2>4. End(m - 1) + h =< End(m)
    BY <1>5, <2>3
  <2>. QED  BY <2>2, <2>3, <2>4 DEF Body
<1>. QED  BY <1>1, <1>2, <1>3, <1>4, <1>5, <1>6

LEMMA EndsAscend ==
  ASSUME Stream, NEW i \in 0..Len(Msgs), NEW j \in 0..Len(Msgs)
  PROVE  /\ i < j => End(i) < End(j)
         /\ End(i) = End(j) => i = j
         /\ End(i) < End(j) => i < j
<1>1. ASSUME NEW a \in 0..Len(Msgs), NEW b \in 0..Len(Msgs), a < b PROVE End(a) < End(b)
  <2>1. b \in 1..Len(Msgs) /\ End(a) \in Nat /\ End(b) \in Nat
    BY <1>1, StreamType
  <2>2. PICK h \in 1..5 : h = Msgs[b].head
    BY <2>1, StreamType
  <2>3. End(a) + h =< End(b)
    BY <1>1, <2>1, <2>2 DEF Stream
  <2>. QED  BY <2>1, <2>2, <2>3
<1>2. End(i) \in Nat /\ End(j) \in Nat /\ i \in Int /\ j \in Int
  BY StreamType
<1>3. i < j => End(i) < End(j)
  BY <1>1
<1>4. j < i => End(j) < End(i)
  BY <1>1
<1>. QED  BY <1>2, <1>3, <1>4

-----------------------------------------------------------------------------
(* Bytes.                                                                  *)

LEMMA LeastIs ==
  ASSUME NEW a \in Nat, NEW b \in Nat
  PROVE  /\ Least(a, b) \in Nat /\ Least(a, b) =< a /\ Least(a, b) =< b
         /\ Least(a, b) = a \/ Least(a, b) = b
BY DEF Least

LEMMA BytesIs ==
  ASSUME NEW p \in Nat, NEW n \in Nat
  PROVE  /\ Bytes(p, n) \in Seq(Nat) /\ Len(Bytes(p, n)) = n /\ DOMAIN Bytes(p, n) = 1..n
         /\ \A i \in 1..n : Bytes(p, n)[i] = p + i
<1>1. Bytes(p, n) \in [1..n -> Nat]
  BY DEF Bytes
<1>2. Bytes(p, n) \in Seq(Nat)
  BY <1>1, SeqDef
<1>3. DOMAIN Bytes(p, n) = 1..n /\ \A i \in 1..n : Bytes(p, n)[i] = p + i
  BY DEF Bytes
<1>4. Len(Bytes(p, n)) = n
  <2>1. Len(Bytes(p, n)) \in Nat /\ 1..Len(Bytes(p, n)) = 1..n
    BY <1>2, <1>3, LenProperties
  <2>. QED  BY <2>1
<1>. QED  BY <1>2, <1>3, <1>4

LEMMA JoinIs ==
  ASSUME NEW s \in Seq(Nat), NEW t \in Seq(Nat)
  PROVE  /\ s \o t \in Seq(Nat) /\ Len(s \o t) = Len(s) + Len(t)
         /\ \A i \in 1..Len(s) : (s \o t)[i] = s[i]
         /\ \A i \in Len(s) + 1..Len(s) + Len(t) : (s \o t)[i] = t[i - Len(s)]
BY ConcatProperties

\* Bytes behind bytes.
LEMMA BytesJoin ==
  ASSUME NEW p \in Nat, NEW m \in Nat, NEW n \in Nat
  PROVE  Bytes(p, m) \o Bytes(p + m, n) = Bytes(p, m + n)
<1>. DEFINE c == Bytes(p, m) \o Bytes(p + m, n)
<1>1. /\ Bytes(p, m) \in Seq(Nat) /\ Len(Bytes(p, m)) = m
      /\ Bytes(p + m, n) \in Seq(Nat) /\ Len(Bytes(p + m, n)) = n
      /\ Bytes(p, m + n) \in Seq(Nat) /\ Len(Bytes(p, m + n)) = m + n
      /\ \A i \in 1..m : Bytes(p, m)[i] = p + i
      /\ \A i \in 1..n : Bytes(p + m, n)[i] = p + m + i
      /\ \A i \in 1..m + n : Bytes(p, m + n)[i] = p + i
  <2>1. p + m \in Nat /\ m + n \in Nat
    OBVIOUS
  <2>. QED  BY <2>1, BytesIs
<1>2. /\ c \in Seq(Nat) /\ Len(c) = m + n
      /\ \A i \in 1..m + n : c[i] = IF i <= m THEN Bytes(p, m)[i] ELSE Bytes(p + m, n)[i - m]
  <2>1. ASSUME NEW s \in Seq(Nat), NEW t \in Seq(Nat), Len(s) = m, Len(t) = n
        PROVE  /\ s \o t \in Seq(Nat) /\ Len(s \o t) = m + n
               /\ \A i \in 1..m + n : (s \o t)[i] = IF i <= m THEN s[i] ELSE t[i - m]
    BY <2>1, ConcatProperties
  <2>. QED  BY <1>1, <2>1
<1>3. ASSUME NEW i \in 1..m + n PROVE c[i] = Bytes(p, m + n)[i]
  <2>1. CASE i <= m
    BY <1>1, <1>2, <2>1
  <2>2. CASE ~(i <= m)
    <3>1. i - m \in 1..n
      BY <2>2
    <3>2. c[i] = p + m + (i - m)
      BY <1>1, <1>2, <2>2, <3>1
    <3>. QED  BY <1>1, <3>2
  <2>. QED  BY <2>1, <2>2
<1>. QED  BY <1>1, <1>2, <1>3, SeqEqual

\* The first bytes of bytes.
LEMMA BytesFirst ==
  ASSUME NEW p \in Nat, NEW n \in Nat, NEW m \in 0..n
  PROVE  SubSeq(Bytes(p, n), 1, m) = Bytes(p, m)
<1>1. /\ Bytes(p, n) \in Seq(Nat) /\ \A i \in 1..n : Bytes(p, n)[i] = p + i
      /\ Bytes(p, m) \in Seq(Nat) /\ Len(Bytes(p, m)) = m
      /\ \A i \in 1..m : Bytes(p, m)[i] = p + i
  <2>1. m \in Nat
    OBVIOUS
  <2>. QED  BY <2>1, BytesIs
<1>2. \A i \in 1..m : Bytes(p, n)[i] \in Nat
  BY <1>1
<1>3. /\ SubSeq(Bytes(p, n), 1, m) \in Seq(Nat)
      /\ Len(SubSeq(Bytes(p, n), 1, m)) = m
      /\ \A i \in 1..m : SubSeq(Bytes(p, n), 1, m)[i] = Bytes(p, n)[i]
  BY <1>2, SubSeqProperties
<1>. QED  BY <1>1, <1>3, SeqEqual

-----------------------------------------------------------------------------
(* One pass of read_to_msg.                                                *)

\* The parts of a pass.
Rec(d, r, x, p) == [data |-> d, rp |-> r, need |-> x, at |-> p]

\* A body that has too much gives it back, and one that is not complete takes what the
\* buffer has.
LEMMA WithBodyIs ==
  ASSUME NEW d, NEW l \in Nat, l = Len(d), NEW r \in Nat, NEW x \in Nat, NEW p \in Nat,
         NEW w, w = WithBody(Rec(d, r, x, p))
  PROVE  /\ x = 0 => w = Rec(d, r, x, p)
         /\ x > 0 /\ l - r + 1 > x =>
              w = Rec(SubSeq(d, 1, r - 1 + x), r, 0, BackPos(p, l - r + 1 - x))
         /\ x > 0 /\ ~(l - r + 1 > x) =>
              \A n, k : n = x - (l - r + 1) /\ k = Least(n, got - p) =>
                w = Rec(d \o Bytes(p, k), r, n - k, p + k)
<1>. DEFINE u == Rec(d, r, x, p)
<1>1. u.data = d /\ u.rp = r /\ u.need = x /\ u.at = p /\ Unread(u) = l - r + 1
  BY DEF Rec, Unread
<1>2. ASSUME x = 0 PROVE w = u
  BY <1>1, <1>2 DEF WithBody
<1>3. ASSUME x > 0, l - r + 1 > x
      PROVE  w = Rec(SubSeq(d, 1, r - 1 + x), r, 0, BackPos(p, l - r + 1 - x))
  <2>1. PICK o : o = l - r + 1 - x
    OBVIOUS
  <2>2. w = GiveBack(u, o)
    <3>1. Unread(u) - u.need = o /\ o > 0 /\ ~(u.need = 0)
      BY <1>1, <1>3, <2>1
    <3>. QED  BY <3>1 DEF WithBody
  <2>3. w = Rec(SubSeq(d, 1, l - o), r, 0, BackPos(p, o))
    BY <2>2 DEF GiveBack, Rec
  <2>4. l - o = r - 1 + x
    BY <2>1
  <2>. QED  BY <2>1, <2>3, <2>4
<1>4. ASSUME x > 0, ~(l - r + 1 > x), NEW n, n = x - (l - r + 1), NEW k, k = Least(n, got - p)
      PROVE  w = Rec(d \o Bytes(p, k), r, n - k, p + k)
  <2>1. w = Take(u, n)
    <3>1. u.need - Unread(u) = n /\ ~(Unread(u) - u.need > 0) /\ ~(u.need = 0)
      BY <1>1, <1>4
    <3>. QED  BY <3>1 DEF WithBody
  <2>. QED  BY <1>4, <2>1 DEF Take, Rec
<1>. QED  BY <1>2, <1>3, <1>4

LEMMA RecIs ==
  ASSUME NEW d, NEW r, NEW x, NEW p
  PROVE  /\ Rec(d, r, x, p).data = d /\ Rec(d, r, x, p).rp = r
         /\ Rec(d, r, x, p).need = x /\ Rec(d, r, x, p).at = p
BY DEF Rec

-----------------------------------------------------------------------------
(* No byte twice or out of order: the inductive invariant.                 *)

\* The last byte given on, on this connection or before.
GivenUpTo == IF delivered = <<>> THEN used ELSE LastByte(delivered[Len(delivered)])

\* Bytes that may be given on next: they ascend, they lie behind what was given on, and
\* they arrived up to byte p.
Good(d, p) ==
  /\ d \in Seq(Nat) /\ d # <<>>
  /\ d[1] > GivenUpTo
  /\ delivered # <<>> => d[1] > began
  /\ \A b \in DOMAIN d : d[b] <= p /\ \A a \in 1..b - 1 : d[a] < d[b]

\* What is being read may be given on next; a message that was kept goes on where the
\* read begins.
KeptGood ==
  reading # NoMsg =>
    /\ Good(reading.data, at) /\ reading.rp >= 1 /\ reading.rp =< Len(reading.data) + 1
    /\ busy => base = at

Order ==
  /\ TypeOK /\ OnceInOrder /\ KeptGood
  /\ GivenUpTo \in Nat /\ GivenUpTo =< at
  /\ IF busy THEN at < got ELSE at = got /\ base = got

LEMMA StateType ==
  ASSUME TypeOK, Stream
  PROVE  /\ got \in Nat /\ base \in Nat /\ at \in Nat /\ began \in Nat /\ used \in Nat
         /\ sound \in Nat /\ Total \in Nat /\ conns \in Nat
         /\ began =< base /\ base =< at /\ at =< got /\ got =< began + Total /\ used =< began
         /\ began =< sound /\ sound =< got
         /\ reading.data \in Seq(Nat) /\ reading.rp \in Nat /\ reading.need \in Nat
         /\ Len(delivered) \in Nat /\ DOMAIN delivered = 1..Len(delivered)
         /\ \A i \in DOMAIN delivered : delivered[i] \in Seq(Nat)
<1>1. Total \in Nat /\ MaxConns \in Nat
  BY StreamType DEF Stream
<1>2. /\ began \in Nat /\ got \in began..began + Total /\ base \in began..got /\ at \in base..got
      /\ used \in 0..began /\ sound \in began..got /\ conns \in 1..MaxConns
  BY DEF TypeOK
<1>3. reading.data \in Seq(Nat) /\ reading.rp \in Nat /\ reading.need \in Nat
  BY DEF TypeOK
<1>4. /\ Len(delivered) \in Nat /\ DOMAIN delivered = 1..Len(delivered)
      /\ \A i \in DOMAIN delivered : delivered[i] \in Seq(Nat)
  <2>1. delivered \in Seq(Seq(Nat))
    BY DEF TypeOK
  <2>2. Len(delivered) \in Nat /\ DOMAIN delivered = 1..Len(delivered)
    BY <2>1, LenProperties
  <2>. QED  BY <2>1, <2>2, ElementOfSeq
<1>. QED  BY <1>1, <1>2, <1>3, <1>4

\* More bytes.
LEMMA GoodMore ==
  ASSUME NEW d, NEW p \in Nat, Good(d, p), NEW k \in Nat
  PROVE  Good(d \o Bytes(p, k), p + k) /\ Len(d \o Bytes(p, k)) = Len(d) + k
<1>1. d \in Seq(Nat) /\ d # <<>> /\ Len(d) \in Nat \ {0} /\ DOMAIN d = 1..Len(d)
  <2>1. d \in Seq(Nat) /\ d # <<>>
    BY DEF Good
  <2>. QED  BY <2>1, EmptySeq, LenProperties
<1>2. PICK l \in Nat \ {0} : l = Len(d)
  BY <1>1
<1>3. PICK b : b = Bytes(p, k)
  OBVIOUS
<1>4. b \in Seq(Nat) /\ Len(b) = k /\ \A i \in 1..k : b[i] = p + i
  BY <1>3, BytesIs
<1>5. PICK e : /\ e = d \o b /\ e \in Seq(Nat) /\ Len(e) = l + k
               /\ \A i \in 1..l : e[i] = d[i]
               /\ \A i \in l + 1..l + k : e[i] = b[i - l]
  <2>1. d \in Seq(Nat) /\ Len(d) = l /\ b \in Seq(Nat) /\ Len(b) = k
    BY <1>1, <1>2, <1>4
  <2>2. /\ d \o b \in Seq(Nat) /\ Len(d \o b) = l + k
        /\ \A i \in 1..l : (d \o b)[i] = d[i]
        /\ \A i \in l + 1..l + k : (d \o b)[i] = b[i - l]
    BY <2>1, JoinIs
  <2>. QED  BY <2>2, Zenon
<1>6. e = d \o Bytes(p, k) /\ DOMAIN e = 1..l + k
  BY <1>3, <1>5, LenProperties
<1>7. /\ \A i \in 1..l : e[i] = d[i] /\ d[i] \in Nat /\ d[i] <= p
      /\ \A i \in 1..l : \A j \in 1..i - 1 : d[j] < d[i]
  <2>1. \A i \in 1..l : d[i] \in Nat /\ d[i] <= p /\ \A j \in 1..i - 1 : d[j] < d[i]
    BY <1>1, <1>2, ElementOfSeq DEF Good
  <2>. QED  BY <1>5, <2>1
<1>8. \A i \in l + 1..l + k : e[i] = p + (i - l)
  <2>. SUFFICES ASSUME NEW i \in l + 1..l + k PROVE e[i] = p + (i - l)
    OBVIOUS
  <2>1. i - l \in 1..k
    OBVIOUS
  <2>. QED  BY <1>4, <1>5, <2>1
<1>9. ASSUME NEW i \in 1..l + k
      PROVE  e[i] <= p + k /\ \A j \in 1..i - 1 : e[j] < e[i]
  <2>1. CASE i <= l
    <3>1. i \in 1..l
      BY <2>1
    <3>2. PICK v \in Nat : v = e[i] /\ v = d[i] /\ v <= p
      BY <1>7, <3>1
    <3>3. v <= p + k
      BY <3>2
    <3>4. ASSUME NEW j \in 1..i - 1 PROVE e[j] < e[i]
      <4>1. j \in 1..l
        BY <2>1
      <4>2. e[j] = d[j] /\ d[j] < d[i]
        BY <1>7, <3>1, <4>1
      <4>. QED  BY <3>2, <4>2
    <3>. QED  BY <3>2, <3>3, <3>4
  <2>2. CASE ~(i <= l)
    <3>1. i \in l + 1..l + k
      BY <2>2
    <3>2. PICK v \in Nat : v = e[i] /\ v = p + (i - l)
      BY <1>8, <3>1
    <3>3. v <= p + k /\ v > p
      BY <3>1, <3>2
    <3>4. ASSUME NEW j \in 1..i - 1 PROVE e[j] < e[i]
      <4>1. CASE j <= l
        <5>1. j \in 1..l
          BY <4>1
        <5>2. PICK x \in Nat : x = e[j] /\ x <= p
          BY <1>7, <5>1
        <5>3. x < v
          BY <3>3, <5>2
        <5>. QED  BY <3>2, <5>2, <5>3
      <4>2. CASE ~(j <= l)
        <5>1. j \in l + 1..l + k
          BY <4>2
        <5>2. PICK x \in Nat : x = e[j] /\ x = p + (j - l)
          BY <1>8, <5>1
        <5>3. x < v
          BY <3>2, <5>2
        <5>. QED  BY <3>2, <5>2, <5>3
      <4>. QED  BY <4>1, <4>2
    <3>. QED  BY <3>2, <3>3, <3>4
  <2>. QED  BY <2>1, <2>2
<1>10. e # <<>> /\ e[1] = d[1]
  <2>1. 1 \in 1..l
    OBVIOUS
  <2>2. Len(e) # 0
    BY <1>5
  <2>. QED  BY <1>7, <2>1, <2>2
<1>11. d[1] > GivenUpTo /\ (delivered # <<>> => d[1] > began)
  BY DEF Good
<1>12. Good(e, p + k)
  BY <1>5, <1>6, <1>9, <1>10, <1>11 DEF Good
<1>. QED  BY <1>2, <1>5, <1>6, <1>12

\* Fewer bytes.
LEMMA GoodFirst ==
  ASSUME NEW d, NEW p \in Nat, Good(d, p), NEW n \in 1..Len(d), NEW q \in Nat,
         p =< q \/ d[n] =< q
  PROVE  Good(SubSeq(d, 1, n), q) /\ Len(SubSeq(d, 1, n)) = n
<1>0. PICK e : e = SubSeq(d, 1, n)
  OBVIOUS
<1>1. d \in Seq(Nat) /\ Len(d) \in Nat /\ DOMAIN d = 1..Len(d)
  <2>1. d \in Seq(Nat)
    BY DEF Good
  <2>. QED  BY <2>1, LenProperties
<1>2. n \in Nat /\ n >= 1 /\ \A i \in 1..n : i \in 1..Len(d)
  BY <1>1
<1>3. \A i \in 1..n : d[i] \in Nat /\ d[i] <= p /\ \A j \in 1..i - 1 : d[j] < d[i]
  BY <1>1, <1>2, ElementOfSeq DEF Good
<1>4. e \in Seq(Nat) /\ Len(e) = n /\ \A i \in 1..n : e[i] = d[i]
  BY <1>0, <1>2, <1>3, SubSeqProperties
<1>5. DOMAIN e = 1..n
  BY <1>4, LenProperties
<1>6. ASSUME NEW i \in 1..n PROVE e[i] <= q /\ \A j \in 1..i - 1 : e[j] < e[i]
  <2>1. \A j \in 1..i - 1 : j \in 1..n
    BY <1>2
  <2>2. d[i] <= q
    <3>1. n \in 1..n /\ (i = n \/ i \in 1..n - 1)
      BY <1>2
    <3>2. i \in 1..n - 1 => d[i] < d[n]
      BY <1>3, <3>1
    <3>3. d[i] \in Nat /\ d[n] \in Nat /\ d[i] <= p /\ d[n] <= p
      BY <1>3, <3>1
    <3>. QED  BY <3>1, <3>2, <3>3
  <2>. QED  BY <1>3, <1>4, <2>1, <2>2
<1>7. e # <<>> /\ e[1] = d[1]
  <2>1. 1 \in 1..n /\ Len(e) # 0
    BY <1>2, <1>4
  <2>. QED  BY <1>4, <2>1
<1>8. d[1] > GivenUpTo /\ (delivered # <<>> => d[1] > began)
  BY DEF Good
<1>9. Good(e, q)
  BY <1>4, <1>5, <1>6, <1>7, <1>8 DEF Good
<1>. QED  BY <1>0, <1>4, <1>9

\* Bytes that the buffer has.
LEMMA GoodNew ==
  ASSUME TypeOK, Stream, GivenUpTo \in Nat, GivenUpTo =< at, NEW k \in Nat \ {0}
  PROVE  Good(Bytes(at, k), at + k)
<1>1. at \in Nat /\ began \in Nat /\ began =< at
  BY StateType
<1>2. PICK e : e = Bytes(at, k)
  OBVIOUS
<1>3. e \in Seq(Nat) /\ Len(e) = k /\ DOMAIN e = 1..k /\ \A i \in 1..k : e[i] = at + i
  BY <1>1, <1>2, BytesIs
<1>4. e # <<>> /\ e[1] = at + 1
  <2>1. 1 \in 1..k /\ Len(e) # 0
    BY <1>3
  <2>. QED  BY <1>3, <2>1
<1>5. \A b \in DOMAIN e : e[b] <= at + k /\ \A a \in 1..b - 1 : e[a] < e[b]
  <2>. SUFFICES ASSUME NEW b \in 1..k PROVE e[b] <= at + k /\ \A a \in 1..b - 1 : e[a] < e[b]
    BY <1>3
  <2>1. \A a \in 1..b - 1 : a \in 1..k
    OBVIOUS
  <2>. QED  BY <1>1, <1>3, <2>1
<1>. QED  BY <1>1, <1>2, <1>3, <1>4, <1>5 DEF Good

-----------------------------------------------------------------------------
(* A pass of read_to_msg keeps what it holds good.                         *)

\* What a pass begins with: a message that was kept, of which nothing was read yet, or
\* bytes of this read.
Begins(d, p) == p = base \/ \E q \in Nat : base =< q /\ d = Bytes(q, Len(d)) /\ p = q + Len(d)

Passing(d, r, x, p) ==
  /\ d \in Seq(Nat) /\ r \in Nat /\ x \in Nat /\ p \in Nat
  /\ Good(d, p) /\ 1 =< r /\ r =< Len(d) + 1 /\ base =< p /\ p =< got

\* A new message takes one byte or more.
LEMMA FreshIs ==
  ASSUME TypeOK, Stream, reading = NoMsg, at < got
  PROVE  \E k \in 1..5 : /\ k = Least(HeadMax, got - at) /\ at + k =< got
                         /\ k < 5 => at + k = got
                         /\ Filled = Rec(Bytes(at, k), 1, 0, at + k)
<1>1. got \in Nat /\ at \in Nat
  BY StateType
<1>2. PICK k : k = Least(HeadMax, got - at)
  OBVIOUS
<1>3. k \in 1..5 /\ k =< got - at /\ (k < 5 => k = got - at)
  BY <1>1, <1>2 DEF Least, HeadMax
<1>4. Filled = Rec(Bytes(at, k), 1, 0, at + k)
  BY <1>2 DEF Filled, Rec
<1>. QED  BY <1>1, <1>2, <1>3, <1>4

LEMMA FilledIs ==
  ASSUME Stream, Order, busy
  PROVE  \E d, r, x, p : Filled = Rec(d, r, x, p) /\ Passing(d, r, x, p) /\ Begins(d, p)
<1>0. /\ TypeOK /\ GivenUpTo \in Nat /\ GivenUpTo =< at /\ at < got
      /\ KeptGood
  BY DEF Order
<1>1. got \in Nat /\ at \in Nat /\ base \in Nat /\ base =< at
  BY <1>0, StateType
<1>2. CASE reading = NoMsg
  <2>1. PICK k \in 1..5 : at + k =< got /\ Filled = Rec(Bytes(at, k), 1, 0, at + k)
    BY <1>0, <1>2, FreshIs
  <2>2. PICK d : d = Bytes(at, k)
    OBVIOUS
  <2>3. k \in Nat \ {0} /\ k \in Nat
    OBVIOUS
  <2>4. d \in Seq(Nat) /\ Len(d) = k
    BY <1>1, <2>2, <2>3, BytesIs
  <2>5. Good(d, at + k)
    BY <1>0, <2>2, <2>3, GoodNew
  <2>6. Passing(d, 1, 0, at + k)
    BY <1>1, <2>1, <2>3, <2>4, <2>5 DEF Passing
  <2>7. Begins(d, at + k)
    BY <1>1, <2>2, <2>4 DEF Begins
  <2>. QED  BY <2>1, <2>2, <2>6, <2>7
<1>3. CASE reading # NoMsg
  <2>1. PICK d, r, x : d = reading.data /\ r = reading.rp /\ x = reading.need
    OBVIOUS
  <2>2. d \in Seq(Nat) /\ r \in Nat /\ x \in Nat
    BY <1>0, <2>1, StateType
  <2>3. Good(d, at) /\ r >= 1 /\ r =< Len(d) + 1 /\ base = at
    BY <1>0, <1>3, <2>1 DEF KeptGood
  <2>4. Filled = Rec(d, r, x, at)
    BY <1>3, <2>1 DEF Filled, Rec
  <2>5. Passing(d, r, x, at) /\ Begins(d, at)
    BY <1>0, <1>1, <2>2, <2>3 DEF Passing, Begins
  <2>. QED  BY <2>4, <2>5
<1>. QED  BY <1>2, <1>3

\* A head is at least one byte.
LEMMA HeadsAre ==
  ASSUME Stream, NEW s, NEW h \in Heads(s)
  PROVE  h.head \in 1..5 /\ h.body \in Nat
<1>1. CASE Begun(s) # {}
  <2>1. PICK i \in Begun(s) : h = [head |-> Msgs[i].head, body |-> Body(i)]
    BY <1>1 DEF Heads
  <2>2. i \in 1..Len(Msgs)
    BY DEF Begun
  <2>. QED  BY <2>1, <2>2, StreamType
<1>2. CASE Begun(s) = {}
  <2>1. h \in [head : Widths, body : Lengths]
    BY <1>2 DEF Heads
  <2>2. PICK a \in Widths, b \in Lengths : h = [head |-> a, body |-> b]
    BY <2>1
  <2>3. Lengths \subseteq Nat
    BY DEF Stream
  <2>4. a \in 1..5
    BY DEF Widths
  <2>5. b \in Nat
    BY <2>3
  <2>. QED  BY <2>2, <2>4, <2>5
<1>. QED  BY <1>1, <1>2

LEMMA UnpackedIs ==
  ASSUME Stream, Order, busy, NEW u \in Unpacked(Filled)
  PROVE  \E d, r, x, p : u = Rec(d, r, x, p) /\ Passing(d, r, x, p) /\ Begins(d, p)
<1>1. PICK d, r, x, p : Filled = Rec(d, r, x, p) /\ Passing(d, r, x, p) /\ Begins(d, p)
  BY FilledIs
<1>2. PICK f : f = Filled
  OBVIOUS
<1>3. f.data = d /\ f.rp = r /\ f.need = x /\ f.at = p /\ Unread(f) = Len(d) - r + 1
  BY <1>1, <1>2, RecIs DEF Unread
<1>4. CASE x > 0
  <2>1. u = f
    BY <1>2, <1>3, <1>4 DEF Unpacked
  <2>. QED  BY <1>1, <1>2, <2>1
<1>5. CASE ~(x > 0)
  <2>1. PICK h \in Heads(f) : h.head <= Unread(f) /\ u = [f EXCEPT !.rp = @ + h.head, !.need = h.body]
    BY <1>2, <1>3, <1>5 DEF Unpacked
  <2>2. PICK a, b : a = h.head /\ b = h.body
    OBVIOUS
  <2>3. a \in 1..5 /\ b \in Nat
    BY <2>2, HeadsAre
  <2>4. u = Rec(d, r + a, b, p)
    BY <1>1, <1>2, <2>1, <2>2 DEF Rec
  <2>5. Passing(d, r + a, b, p)
    <3>1. d \in Seq(Nat) /\ r \in Nat /\ 1 =< r /\ a <= Len(d) - r + 1
      BY <1>1, <1>3, <2>1, <2>2 DEF Passing
    <3>2. Len(d) \in Nat
      BY <3>1
    <3>3. PICK l \in Nat : l = Len(d)
      BY <3>2
    <3>4. r + a \in Nat /\ 1 =< r + a /\ r + a =< l + 1
      BY <2>3, <3>1, <3>3
    <3>. QED  BY <1>1, <2>3, <3>3, <3>4 DEF Passing
  <2>. QED  BY <1>1, <2>4, <2>5
<1>. QED  BY <1>4, <1>5

\* The body: what is held stays good, and what lacks something has all that arrived.
LEMMA PassIs ==
  ASSUME Stream, Order, busy, NEW w \in Passes
  PROVE  \E d, r, x, p : /\ w = Rec(d, r, x, p) /\ Passing(d, r, x, p)
                         /\ x > 0 => p = got
<1>0. got \in Nat /\ base \in Nat
  BY StateType DEF Order
<1>1. PICK u \in Unpacked(Filled) : w = WithBody(u)
  BY DEF Passes
<1>2. PICK d, r, x, p : u = Rec(d, r, x, p) /\ Passing(d, r, x, p) /\ Begins(d, p)
  BY UnpackedIs
<1>3. d \in Seq(Nat) /\ r \in Nat /\ x \in Nat /\ p \in Nat /\ Len(d) \in Nat
  <2>1. d \in Seq(Nat) /\ r \in Nat /\ x \in Nat /\ p \in Nat
    BY <1>2 DEF Passing
  <2>. QED  BY <2>1
<1>4. PICK l \in Nat : l = Len(d)
  BY <1>3
<1>5. Good(d, p) /\ 1 =< r /\ r =< l + 1 /\ base =< p /\ p =< got
  BY <1>2, <1>4 DEF Passing
<1>6. /\ x = 0 => w = Rec(d, r, x, p)
      /\ x > 0 /\ l - r + 1 > x =>
           w = Rec(SubSeq(d, 1, r - 1 + x), r, 0, BackPos(p, l - r + 1 - x))
      /\ x > 0 /\ ~(l - r + 1 > x) =>
           \A n, k : n = x - (l - r + 1) /\ k = Least(n, got - p) =>
             w = Rec(d \o Bytes(p, k), r, n - k, p + k)
  BY <1>1, <1>2, <1>3, <1>4, WithBodyIs
<1>7. CASE x = 0
  BY <1>2, <1>6, <1>7
<1>8. CASE x > 0 /\ l - r + 1 > x
  <2>1. PICK n, o, q : n = r - 1 + x /\ o = l - r + 1 - x /\ q = BackPos(p, o)
    OBVIOUS
  <2>2. n \in 1..l /\ o \in Nat \ {0} /\ n = l - o
    BY <1>3, <1>4, <1>5, <1>8, <2>1
  <2>3. PICK e : e = SubSeq(d, 1, n)
    OBVIOUS
  <2>4. w = Rec(e, r, 0, q)
    BY <1>6, <1>8, <2>1, <2>3
  <2>5. q \in Nat /\ base =< q /\ q =< got /\ (p =< q \/ d[n] =< q)
    <3>1. CASE p = base
      <4>1. q = got
        BY <1>0, <2>1, <2>2, <3>1 DEF BackPos
      <4>. QED  BY <1>0, <1>5, <3>1, <4>1
    <3>2. CASE \E y \in Nat : base =< y /\ d = Bytes(y, Len(d)) /\ p = y + Len(d)
      <4>1. PICK y \in Nat : base =< y /\ d = Bytes(y, l) /\ p = y + l
        BY <1>4, <3>2
      <4>2. p - base >= o
        BY <1>0, <2>2, <4>1
      <4>3. q = y + n
        BY <1>0, <2>1, <2>2, <4>1, <4>2 DEF BackPos
      <4>4. d[n] = y + n
        BY <2>2, <4>1, BytesIs
      <4>. QED  BY <1>0, <1>5, <2>2, <4>1, <4>3, <4>4
    <3>. QED  BY <1>2, <3>1, <3>2 DEF Begins
  <2>6. Good(e, q) /\ Len(e) = n
    BY <1>3, <1>4, <1>5, <2>2, <2>3, <2>5, GoodFirst
  <2>7. e \in Seq(Nat)
    BY <2>6 DEF Good
  <2>8. r =< n + 1 /\ 0 \in Nat
    BY <1>3, <1>8, <2>1
  <2>9. Passing(e, r, 0, q)
    BY <1>3, <1>5, <2>5, <2>6, <2>7, <2>8 DEF Passing
  <2>. QED  BY <2>4, <2>9
<1>9. CASE x > 0 /\ ~(l - r + 1 > x)
  <2>1. PICK n, k : n = x - (l - r + 1) /\ k = Least(n, got - p)
    OBVIOUS
  <2>2. n \in Nat /\ got - p \in Nat
    BY <1>0, <1>3, <1>4, <1>5, <1>9, <2>1
  <2>3. k \in Nat /\ k =< n /\ k =< got - p /\ (k = n \/ k = got - p)
    BY <2>1, <2>2, LeastIs
  <2>4. PICK e : e = d \o Bytes(p, k)
    OBVIOUS
  <2>5. w = Rec(e, r, n - k, p + k)
    BY <1>6, <1>9, <2>1, <2>4
  <2>6. Good(e, p + k) /\ Len(e) = l + k
    BY <1>3, <1>4, <1>5, <2>3, <2>4, GoodMore
  <2>7. e \in Seq(Nat)
    BY <2>6 DEF Good
  <2>8. /\ n - k \in Nat /\ p + k \in Nat /\ r =< l + k + 1 /\ base =< p + k /\ p + k =< got
        /\ n - k > 0 => p + k = got
    BY <1>0, <1>3, <1>4, <1>5, <2>2, <2>3
  <2>9. Passing(e, r, n - k, p + k)
    BY <1>3, <1>5, <2>6, <2>7, <2>8 DEF Passing
  <2>. QED  BY <2>5, <2>8, <2>9
<1>. QED  BY <1>3, <1>7, <1>8, <1>9

-----------------------------------------------------------------------------
(* Every step keeps the order.                                             *)

LEMMA GoodSame ==
  ASSUME UNCHANGED <<delivered, used, began>>, NEW CONSTANT d, NEW CONSTANT p
  PROVE  Good(d, p)' <=> Good(d, p)
BY DEF Good, GivenUpTo, LastByte

LEMMA GoodLater ==
  ASSUME NEW d, NEW p \in Nat, Good(d, p), NEW q \in Nat, p =< q
  PROVE  Good(d, q)
<1>1. d \in Seq(Nat)
  BY DEF Good
<1>2. DOMAIN d = 1..Len(d) /\ \A b \in DOMAIN d : d[b] \in Nat
  BY <1>1, LenProperties, ElementOfSeq
<1>3. \A b \in DOMAIN d : d[b] <= q
  BY <1>2 DEF Good
<1>. QED  BY <1>3 DEF Good

LEMMA InitHolds ==
  ASSUME Init, Stream
  PROVE  Order
<1>0. Total \in Nat /\ 1 \in 1..MaxConns
  BY StreamType DEF Stream
<1>1. reading = NoMsg /\ NoMsg \in [data : Seq(Nat), rp : Nat, need : Nat]
  BY DEF Init, NoMsg
<1>2. /\ open \in {"yes", "app", "peer", "protocol"} /\ busy \in BOOLEAN /\ torn \in BOOLEAN
      /\ began = 0 /\ got = 0 /\ base = 0 /\ at = 0 /\ used = 0 /\ sound = 0 /\ conns = 1
      /\ delivered = <<>> /\ busy = FALSE
  BY DEF Init
<1>3. /\ conns \in 1..MaxConns /\ began \in Nat /\ got \in began..began + Total
      /\ base \in began..got /\ at \in base..got /\ used \in 0..began /\ sound \in began..got
  BY <1>0, <1>2
<1>4. delivered \in Seq(Seq(Nat)) /\ DOMAIN delivered = {}
  <2>1. <<>> \in Seq(Seq(Nat)) /\ DOMAIN <<>> = {}
    OBVIOUS
  <2>. QED  BY <1>2, <2>1
<1>5. TypeOK
  BY <1>1, <1>2, <1>3, <1>4 DEF TypeOK
<1>6. OnceInOrder
  BY <1>4 DEF OnceInOrder
<1>7. KeptGood
  BY <1>1 DEF KeptGood
<1>8. GivenUpTo \in Nat /\ GivenUpTo =< at
  BY <1>2 DEF GivenUpTo
<1>9. IF busy THEN at < got ELSE at = got /\ base = got
  BY <1>2
<1>. QED  BY <1>5, <1>6, <1>7, <1>8, <1>9 DEF Order

\* A read that ends gives nothing on.
LEMMA EndKeeps ==
  ASSUME Order, Stream, at' = got, base' = got, busy' = FALSE,
         UNCHANGED <<conns, began, got, history, delivered>>,
         open' \in {"yes", "app", "peer", "protocol"},
         reading' \in [data : Seq(Nat), rp : Nat, need : Nat],
         reading' # NoMsg => /\ Good(reading'.data, got)
                             /\ reading'.rp >= 1 /\ reading'.rp =< Len(reading'.data) + 1
  PROVE  Order'
<1>0. TypeOK /\ OnceInOrder /\ GivenUpTo \in Nat /\ GivenUpTo =< at
  BY DEF Order
<1>1. /\ got \in Nat /\ began \in Nat /\ at \in Nat /\ at =< got /\ began =< got
      /\ used' = used /\ torn' = torn /\ sound' = sound
  BY <1>0, StateType DEF history
<1>2. Total' = Total
  BY DEF Total, End
<1>3. TypeOK'
  <2>1. base' \in began'..got' /\ at' \in base'..got'
    BY <1>1
  <2>2. /\ conns' \in 1..MaxConns /\ began' \in Nat /\ got' \in began'..began' + Total'
        /\ busy' \in BOOLEAN /\ torn' \in BOOLEAN /\ used' \in 0..began' /\ sound' \in began'..got'
        /\ delivered' \in Seq(Seq(Nat))
    BY <1>0, <1>1, <1>2 DEF TypeOK
  <2>. QED  BY <2>1, <2>2 DEF TypeOK
<1>4. OnceInOrder'
  BY <1>0, <1>1 DEF OnceInOrder, LastByte
<1>5. GivenUpTo' = GivenUpTo
  BY <1>1 DEF GivenUpTo, LastByte
<1>6. KeptGood'
  <2>. SUFFICES ASSUME reading' # NoMsg
                PROVE  KeptGood'
    BY DEF KeptGood
  <2>1. PICK d, r : d = reading'.data /\ r = reading'.rp
    OBVIOUS
  <2>2. Good(d, got) /\ r >= 1 /\ r =< Len(d) + 1
    BY <2>1
  <2>3. PICK g : g = got
    OBVIOUS
  <2>4. Good(d, g)'
    BY <1>1, <2>2, <2>3, GoodSame
  <2>5. at' = g
    BY <2>3
  <2>6. Good(reading.data, at)'
    BY <2>1, <2>4, <2>5
  <2>. QED  BY <2>1, <2>2, <2>6 DEF KeptGood
<1>7. GivenUpTo' \in Nat /\ GivenUpTo' =< at'
  BY <1>0, <1>1, <1>5
<1>. QED  BY <1>3, <1>4, <1>6, <1>7 DEF Order

\* One that gives a message on.
LEMMA GiveKeeps ==
  ASSUME Order, Stream, open = "yes", NEW d, NEW p, Good(d, p), p \in Nat, base =< p, p =< got,
         delivered' = Append(delivered, d), reading' = NoMsg, at' = p, busy' = (p < got),
         base' = IF busy' THEN base ELSE got, UNCHANGED <<open, conns, began, got, history>>
  PROVE  Order'
<1>0. TypeOK /\ OnceInOrder
  BY DEF Order
<1>1. /\ got \in Nat /\ began \in Nat /\ base \in Nat /\ began =< base
      /\ used' = used /\ torn' = torn /\ sound' = sound
      /\ Len(delivered) \in Nat /\ DOMAIN delivered = 1..Len(delivered)
  BY <1>0, StateType DEF history
<1>2. d \in Seq(Nat) /\ d # <<>> /\ Len(d) \in Nat \ {0} /\ DOMAIN d = 1..Len(d)
  <2>1. d \in Seq(Nat) /\ d # <<>>
    BY DEF Good
  <2>. QED  BY <2>1, EmptySeq, LenProperties
<1>3. PICK l \in Nat : l = Len(delivered)
  BY <1>1
<1>4. /\ delivered' \in Seq(Seq(Nat)) /\ Len(delivered') = l + 1 /\ DOMAIN delivered' = 1..l + 1
      /\ \A i \in 1..l : delivered'[i] = delivered[i]
      /\ delivered'[l + 1] = d
  <2>. DEFINE S == Seq(Nat)
  <2>1. delivered \in Seq(S) /\ d \in S
    BY <1>0, <1>2 DEF TypeOK
  <2>. HIDE DEF S
  <2>2. /\ delivered' \in Seq(S) /\ Len(delivered') = l + 1 /\ DOMAIN delivered' = 1..l + 1
        /\ \A i \in 1..l : delivered'[i] = delivered[i]
        /\ delivered'[l + 1] = d
    BY <1>3, <2>1
  <2>. QED  BY <2>2 DEF S
<1>5. at' \in base'..got' /\ base' \in began'..got'
  <2>1. base' = base \/ (base' = got /\ p = got)
    <3>1. p = got \/ p < got
      BY <1>1
    <3>. QED  BY <3>1
  <2>2. at' = p /\ got' = got /\ began' = began /\ began =< got
    BY <1>1
  <2>. QED  BY <1>1, <2>1, <2>2
<1>6. TypeOK'
  <2>1. Total' = Total
    BY DEF Total, End
  <2>2. NoMsg \in [data : Seq(Nat), rp : Nat, need : Nat]
    BY DEF NoMsg
  <2>3. busy' \in BOOLEAN
    OBVIOUS
  <2>4. /\ conns' \in 1..MaxConns /\ began' \in Nat /\ got' \in began'..began' + Total'
        /\ torn' \in BOOLEAN /\ used' \in 0..began' /\ sound' \in began'..got'
        /\ open' \in {"yes", "app", "peer", "protocol"}
    BY <1>0, <1>1, <2>1 DEF TypeOK
  <2>. QED  BY <1>4, <1>5, <2>2, <2>3, <2>4 DEF TypeOK
<1>7. l = 0 <=> delivered = <<>>
  BY <1>0, <1>3, EmptySeq DEF TypeOK
<1>8. OnceInOrder'
  <2>. SUFFICES ASSUME NEW i \in 1..l + 1
                PROVE  /\ delivered'[i] # <<>>
                       /\ delivered'[i][1] > (IF i = 1 THEN used ELSE LastByte(delivered'[i - 1]))
                       /\ i > 1 => delivered'[i][1] > began
                       /\ \A b \in DOMAIN delivered'[i] :
                            /\ delivered'[i][b] <= got
                            /\ \A a \in 1..b - 1 : delivered'[i][a] < delivered'[i][b]
    BY <1>1, <1>4 DEF OnceInOrder, LastByte
  <2>1. CASE i \in 1..l
    <3>1. i # 1 => i - 1 \in 1..l
      BY <2>1
    <3>2. delivered'[i] = delivered[i] /\ (i # 1 => delivered'[i - 1] = delivered[i - 1])
      BY <1>4, <2>1, <3>1
    <3>. QED  BY <1>0, <1>1, <1>3, <2>1, <3>2 DEF OnceInOrder
  <2>2. CASE i = l + 1
    <3>1. delivered'[i] = d
      BY <1>4, <2>2
    <3>2. d[1] > (IF i = 1 THEN used ELSE LastByte(delivered'[i - 1]))
      <4>1. CASE l = 0
        BY <1>7, <2>2, <4>1 DEF Good, GivenUpTo
      <4>2. CASE l # 0
        <5>1. i # 1 /\ i - 1 = l /\ l \in 1..l
          BY <2>2, <4>2
        <5>2. delivered'[i - 1] = delivered[l] /\ GivenUpTo = LastByte(delivered[l])
          BY <1>3, <1>4, <1>7, <4>2, <5>1 DEF GivenUpTo
        <5>. QED  BY <5>1, <5>2 DEF Good
      <4>. QED  BY <4>1, <4>2
    <3>3. i > 1 => d[1] > began
      <4>1. i > 1 => l # 0
        BY <2>2
      <4>. QED  BY <1>7, <4>1 DEF Good
    <3>4. \A b \in DOMAIN d : d[b] <= got
      <4>1. Good(d, got)
        BY <1>1, GoodLater
      <4>. QED  BY <4>1 DEF Good
    <3>. QED  BY <1>2, <3>1, <3>2, <3>3, <3>4 DEF Good
  <2>3. i \in 1..l \/ i = l + 1
    OBVIOUS
  <2>. QED  BY <2>1, <2>2, <2>3
<1>9. GivenUpTo' \in Nat /\ GivenUpTo' =< at'
  <2>1. delivered' # <<>>
    BY <1>4, EmptySeq
  <2>2. GivenUpTo' = LastByte(d)
    BY <1>4, <2>1 DEF GivenUpTo, LastByte
  <2>3. Len(d) \in DOMAIN d
    BY <1>2
  <2>4. d[Len(d)] \in Nat /\ d[Len(d)] <= p
    BY <1>2, <2>3, ElementOfSeq DEF Good
  <2>. QED  BY <2>2, <2>4 DEF LastByte
<1>10. IF busy' THEN at' < got' ELSE at' = got' /\ base' = got'
  <2>1. at' = p /\ got' = got
    OBVIOUS
  <2>2. CASE p < got
    BY <2>1, <2>2
  <2>3. CASE ~(p < got)
    <3>1. p = got
      BY <1>1, <2>3
    <3>2. ~busy'
      BY <2>3
    <3>. QED  BY <2>1, <3>1, <3>2
  <2>. QED  BY <2>2, <2>3
<1>11. KeptGood'
  BY DEF KeptGood
<1>. QED  BY <1>6, <1>8, <1>9, <1>10, <1>11 DEF Order

LEMMA FailKeeps ==
  ASSUME Order, Stream, Fail, base' = IF busy' THEN base ELSE got,
         UNCHANGED <<conns, began, got, history>>
  PROVE  Order'
<1>1. at' = got /\ busy' = FALSE /\ base' = got /\ reading' = NoMsg /\ UNCHANGED delivered
  BY DEF Fail
<1>2. reading' \in [data : Seq(Nat), rp : Nat, need : Nat]
  BY <1>1 DEF NoMsg
<1>3. open' \in {"yes", "app", "peer", "protocol"}
  BY DEF Fail, Order, TypeOK
<1>. QED  BY <1>1, <1>2, <1>3, EndKeeps

LEMMA ReadKeeps ==
  ASSUME Order, Stream, Read
  PROVE  Order'
<1>1. /\ busy /\ base' = IF busy' THEN base ELSE got
      /\ UNCHANGED <<conns, began, got, history>>
  BY DEF Read
<1>2. got \in Nat /\ open \in {"yes", "app", "peer", "protocol"}
  <2>1. TypeOK
    BY DEF Order
  <2>. QED  BY <2>1, StateType DEF TypeOK
<1>3. ASSUME NEW r, Wait(r), NEW d, NEW i, NEW x, r = [data |-> d, rp |-> i, need |-> x],
             Good(d, got), i \in Nat, x \in Nat, i >= 1, i =< Len(d) + 1
      PROVE  Order'
  <2>1. at' = got /\ busy' = FALSE /\ base' = got /\ reading' = r /\ UNCHANGED <<open, delivered>>
    BY <1>1, <1>3 DEF Wait
  <2>2. r \in [data : Seq(Nat), rp : Nat, need : Nat]
    BY <1>3 DEF Good
  <2>3. r.data = d /\ r.rp = i
    BY <1>3
  <2>4. Good(reading'.data, got) /\ reading'.rp >= 1 /\ reading'.rp =< Len(reading'.data) + 1
    BY <1>3, <2>1, <2>3
  <2>5. open' \in {"yes", "app", "peer", "protocol"} /\ UNCHANGED delivered
        /\ reading' \in [data : Seq(Nat), rp : Nat, need : Nat]
    BY <1>2, <2>1, <2>2
  <2>. QED  BY <1>1, <2>1, <2>4, <2>5, EndKeeps
<1>4. CASE ReadBad
  BY <1>1, <1>4, FailKeeps DEF ReadBad
<1>5. CASE ReadShort
  <2>1. PICK d, i, x, p : Filled = Rec(d, i, x, p) /\ Passing(d, i, x, p)
    BY <1>1, FilledIs
  <2>2. PICK f : f = Filled
    OBVIOUS
  <2>3. f.data = d /\ f.rp = i /\ f.need = x /\ Unread(f) = Len(d) - i + 1
    BY <2>1, <2>2, RecIs DEF Unread
  <2>4. Unread(f) > 0 /\ Wait([Kept(f) EXCEPT !.rp = @ + 1])
    BY <1>5, <2>2 DEF ReadShort, HeadShort
  <2>5. [Kept(f) EXCEPT !.rp = @ + 1] = [data |-> d, rp |-> i + 1, need |-> x]
    BY <2>3 DEF Kept
  <2>6. i \in Nat /\ x \in Nat /\ p \in Nat /\ p =< got /\ Good(d, p) /\ d \in Seq(Nat)
    BY <2>1 DEF Passing
  <2>7. Good(d, got)
    BY <1>2, <2>6, GoodLater
  <2>8. i + 1 \in Nat /\ i + 1 >= 1 /\ i + 1 =< Len(d) + 1
    <3>1. Len(d) \in Nat
      BY <2>6
    <3>. QED  BY <2>3, <2>4, <2>6, <3>1
  <2>. QED  BY <1>3, <2>4, <2>5, <2>6, <2>7, <2>8
<1>6. CASE ReadPart
  <2>1. PICK w \in Passes : w.need > 0 /\ Wait(Kept(w))
    BY <1>6 DEF ReadPart
  <2>2. PICK d, i, x, p : /\ w = Rec(d, i, x, p) /\ Passing(d, i, x, p)
                          /\ x > 0 => p = got
    BY <1>1, PassIs
  <2>3. w.data = d /\ w.rp = i /\ w.need = x /\ p = got
    BY <2>1, <2>2, RecIs
  <2>4. Kept(w) = [data |-> d, rp |-> i, need |-> x]
    BY <2>3 DEF Kept
  <2>5. Good(d, got) /\ i \in Nat /\ x \in Nat /\ i >= 1 /\ i =< Len(d) + 1
    BY <2>2, <2>3 DEF Passing
  <2>. QED  BY <1>3, <2>1, <2>4, <2>5
<1>7. CASE ReadMsg
  <2>1. PICK w \in Passes :
          IF open # "yes" THEN Fail
          ELSE /\ delivered' = Append(delivered, w.data) /\ reading' = NoMsg
               /\ at' = w.at /\ ReadOn(w) /\ UNCHANGED open
    BY <1>7 DEF ReadMsg
  <2>2. PICK d, i, x, p : w = Rec(d, i, x, p) /\ Passing(d, i, x, p)
    BY <1>1, PassIs
  <2>3. w.data = d /\ w.at = p
    BY <2>2, RecIs
  <2>4. CASE open # "yes"
    BY <1>1, <2>1, <2>4, FailKeeps
  <2>5. CASE open = "yes"
    <3>1. Good(d, p) /\ p \in Nat /\ base =< p /\ p =< got
      BY <2>2 DEF Passing
    <3>2. /\ delivered' = Append(delivered, d) /\ reading' = NoMsg /\ at' = p /\ busy' = (p < got)
          /\ UNCHANGED open
      BY <2>1, <2>3, <2>5 DEF ReadOn
    <3>. QED  BY <1>1, <2>5, <3>1, <3>2, GiveKeeps
  <2>. QED  BY <2>4, <2>5
<1>. QED  BY <1>4, <1>5, <1>6, <1>7 DEF Read

LEMMA ReceiveKeeps ==
  ASSUME Order, Stream, NEW n \in 1..Total, Receive(n)
  PROVE  Order'
<1>0. /\ TypeOK /\ OnceInOrder /\ KeptGood /\ GivenUpTo \in Nat /\ GivenUpTo =< at
      /\ ~busy /\ at = got /\ base = got
  BY DEF Order, Receive
<1>1. /\ got \in Nat /\ began \in Nat /\ at \in Nat /\ sound \in Nat /\ Total \in Nat /\ n \in Nat
      /\ n > 0 /\ began =< got /\ began =< sound /\ sound =< got
      /\ Len(delivered) \in Nat /\ DOMAIN delivered = 1..Len(delivered)
      /\ \A i \in DOMAIN delivered : delivered[i] \in Seq(Nat)
  <2>1. Total \in Nat
    BY StreamType
  <2>. QED  BY <1>0, <2>1, StateType
<1>2. /\ got' = got + n /\ got + n <= began + Total /\ base' = got /\ at' = got /\ busy' = TRUE
      /\ torn' \in BOOLEAN /\ sound' \in {sound, got + n}
      /\ UNCHANGED <<open, conns, began, reading, delivered, used>>
  BY DEF Receive
<1>3. TypeOK'
  <2>1. Total' = Total
    BY DEF Total, End
  <2>2. /\ got' \in began'..began' + Total' /\ base' \in began'..got' /\ at' \in base'..got'
        /\ sound' \in began'..got'
    BY <1>1, <1>2, <2>1
  <2>. QED  BY <1>0, <1>2, <2>2 DEF TypeOK
<1>4. OnceInOrder'
  <2>. SUFFICES ASSUME NEW i \in DOMAIN delivered, NEW b \in DOMAIN delivered[i]
                PROVE  delivered[i][b] <= got + n
    BY <1>0, <1>2 DEF OnceInOrder, LastByte
  <2>1. delivered[i] \in Seq(Nat)
    BY <1>1
  <2>2. delivered[i][b] \in Nat
    BY <2>1, LenProperties, ElementOfSeq
  <2>3. delivered[i][b] <= got
    BY <1>0 DEF OnceInOrder
  <2>. QED  BY <1>1, <2>2, <2>3
<1>5. GivenUpTo' = GivenUpTo /\ at' = at
  BY <1>0, <1>2 DEF GivenUpTo, LastByte
<1>6. KeptGood'
  <2>. SUFFICES ASSUME reading # NoMsg PROVE KeptGood'
    BY <1>2 DEF KeptGood
  <2>1. PICK d, p : d = reading.data /\ p = at
    OBVIOUS
  <2>2. Good(d, p)
    BY <1>0, <2>1 DEF KeptGood
  <2>3. Good(d, p)'
    BY <1>2, <2>2, GoodSame
  <2>4. Good(reading.data, at)'
    BY <1>2, <1>5, <2>1, <2>3
  <2>5. base' = at'
    BY <1>2
  <2>. QED  BY <1>0, <1>2, <2>4, <2>5 DEF KeptGood
<1>7. at' < got'
  BY <1>0, <1>1, <1>2
<1>. QED  BY <1>0, <1>2, <1>3, <1>4, <1>5, <1>6, <1>7 DEF Order

LEMMA OpenKeeps ==
  ASSUME Order, UNCHANGED <<conns, began, got, base, at, busy, reading, delivered, history>>,
         open' \in {"yes", "app", "peer", "protocol"}
  PROVE  Order'
<1>1. UNCHANGED <<used, torn, sound>>
  BY DEF history
<1>2. TypeOK'
  BY <1>1 DEF Order, TypeOK, Total, End
<1>3. OnceInOrder' /\ GivenUpTo' = GivenUpTo
  BY <1>1 DEF Order, OnceInOrder, GivenUpTo, LastByte
<1>4. KeptGood'
  <2>1. PICK d, p : d = reading.data /\ p = at
    OBVIOUS
  <2>2. Good(d, p)' <=> Good(d, p)
    BY <1>1, GoodSame
  <2>3. Good(reading.data, at)' <=> Good(reading.data, at)
    BY <2>1, <2>2
  <2>. QED  BY <2>3 DEF Order, KeptGood
<1>. QED  BY <1>2, <1>3, <1>4 DEF Order

LEMMA StartKeeps ==
  ASSUME Order, Stream, Start
  PROVE  Order'
<1>0. /\ TypeOK /\ KeptGood /\ GivenUpTo \in Nat /\ GivenUpTo =< at
      /\ ~busy /\ at = got /\ base = got
  BY DEF Order, Start
<1>1. /\ got \in Nat /\ conns \in Nat /\ conns >= 1 /\ Total \in Nat /\ MaxConns \in Nat
      /\ reading \in [data : Seq(Nat), rp : Nat, need : Nat]
  <2>1. Total \in Nat /\ MaxConns \in Nat
    BY StreamType DEF Stream
  <2>. QED  BY <1>0, <2>1, StateType DEF TypeOK
<1>2. /\ open' = "yes" /\ conns' = conns + 1 /\ conns < MaxConns /\ began' = got
      /\ reading' = [reading EXCEPT !.need = 0] /\ delivered' = <<>> /\ used' = GivenUpTo
      /\ torn' = (reading # NoMsg) /\ sound' = got /\ UNCHANGED <<got, base, at, busy>>
  BY DEF Start, GivenUpTo
<1>3. reading' \in [data : Seq(Nat), rp : Nat, need : Nat]
      /\ reading'.data = reading.data /\ reading'.rp = reading.rp
  BY <1>1, <1>2
<1>4. delivered' \in Seq(Seq(Nat)) /\ DOMAIN delivered' = {}
  <2>1. <<>> \in Seq(Seq(Nat)) /\ DOMAIN <<>> = {}
    OBVIOUS
  <2>. QED  BY <1>2, <2>1
<1>5. TypeOK'
  <2>1. Total' = Total
    BY DEF Total, End
  <2>2. /\ conns' \in 1..MaxConns /\ began' \in Nat /\ got' \in began'..began' + Total'
        /\ base' \in began'..got' /\ at' \in base'..got' /\ used' \in 0..began'
        /\ sound' \in began'..got'
    BY <1>0, <1>1, <1>2, <2>1
  <2>3. busy' \in BOOLEAN
    BY <1>0, <1>2 DEF TypeOK
  <2>4. torn' \in BOOLEAN
    BY <1>2
  <2>5. open' \in {"yes", "app", "peer", "protocol"}
    BY <1>2
  <2>. QED  BY <2>3, <2>4, <2>5, <1>3, <1>4, <2>2, <2>3 DEF TypeOK
<1>6. OnceInOrder'
  BY <1>4 DEF OnceInOrder
<1>7. GivenUpTo' = GivenUpTo
  BY <1>2 DEF GivenUpTo
<1>8. KeptGood'
  <2>. SUFFICES ASSUME reading' # NoMsg PROVE KeptGood'
    BY DEF KeptGood
  <2>1. reading # NoMsg
    <3>1. [NoMsg EXCEPT !.need = 0] = NoMsg
      BY DEF NoMsg
    <3>. QED  BY <1>2, <3>1
  <2>2. PICK d, r, p : d = reading.data /\ r = reading.rp /\ p = at
    OBVIOUS
  <2>3. Good(d, p) /\ r >= 1 /\ r =< Len(d) + 1
    BY <1>0, <2>1, <2>2 DEF KeptGood
  <2>4. Good(d, p)'
    <3>1. d[1] > used' /\ delivered' = <<>>
      BY <1>2, <2>3 DEF Good
    <3>. QED  BY <1>7, <2>3, <3>1 DEF Good
  <2>5. Good(reading.data, at)'
    BY <1>2, <1>3, <2>2, <2>4
  <2>6. reading'.rp >= 1 /\ reading'.rp =< Len(reading'.data) + 1
    BY <1>3, <2>2, <2>3
  <2>7. ~busy'
    BY <1>0, <1>2
  <2>. QED  BY <2>5, <2>6, <2>7 DEF KeptGood
<1>. QED  BY <1>0, <1>2, <1>5, <1>6, <1>7, <1>8 DEF Order

LEMMA OrderInductive ==
  ASSUME Order, Stream, [Next]_vars
  PROVE  Order'
<1>1. CASE Read
  BY <1>1, ReadKeeps
<1>2. ASSUME NEW n \in 1..Total, Receive(n) PROVE Order'
  BY <1>2, ReceiveKeeps
<1>3. CASE CloseLink
  BY <1>3, OpenKeeps DEF CloseLink
<1>4. CASE PeerGone
  BY <1>4, OpenKeeps DEF PeerGone
<1>5. CASE Start
  BY <1>5, StartKeeps
<1>6. CASE UNCHANGED vars
  <2>1. open' \in {"yes", "app", "peer", "protocol"}
    BY <1>6 DEF vars, Order, TypeOK
  <2>2. UNCHANGED <<conns, began, got, base, at, busy, reading, delivered, history>>
    BY <1>6 DEF vars, history
  <2>. QED  BY <2>1, <2>2, OpenKeeps
<1>. QED  BY <1>1, <1>2, <1>3, <1>4, <1>5, <1>6 DEF Next

\* For every stream of messages, every way of cutting it into reads and every content of
\* the bodies, whatever earlier connections left in the link: read() gives no byte on
\* twice and none before one that arrived earlier, and none but the first piece of a
\* connection holds bytes of an earlier one.
THEOREM OnceInOrderAlways == ASSUME Stream PROVE Spec => []OnceInOrder
<1>1. Init => Order
  BY InitHolds
<1>2. Order /\ [Next]_vars => Order'
  BY OrderInductive
<1>3. Order => OnceInOrder
  BY DEF Order
<1>. QED  BY <1>1, <1>2, <1>3, PTL DEF Spec

-----------------------------------------------------------------------------
(* Until a read ends inside a message: the inductive invariant.            *)

\* This connection began with nothing left, and no read that is over ended in a message.
Clean == sound = got /\ (torn => busy)

\* So far everything went well: what is read begins a message of the peer.
Well ==
  /\ reading = NoMsg /\ Framed /\ open # "protocol"
  /\ began + End(Len(delivered)) =< got
  /\ (open # "app" \/ busy) => at = began + End(Len(delivered))
  /\ ~torn => AtEnd(got)

\* What arrived completely by then was given on, unless the application closed the link.
Given ==
  \A i \in 1..Len(Msgs) : began + End(i) =< sound =>
    /\ i =< Len(delivered) \/ open = "app"
    /\ i =< Len(delivered) => delivered[i] = MsgOf(i)

SoundInv ==
  /\ ~torn => sound = got
  /\ busy => open \in {"yes", "app"}
  /\ Clean => Well
  /\ ~Clean => Given

\* The messages given on, and those that have arrived.
LEMMA ArrivedIs ==
  ASSUME Legal, TypeOK, Len(delivered) =< Len(Msgs)
  PROVE  /\ Len(delivered) \in 0..Len(Msgs) /\ End(Len(delivered)) \in Nat /\ Len(Msgs) \in Nat
         /\ \A i \in 1..Len(Msgs) :
              /\ End(i) \in Nat /\ End(i) > 0
              /\ i =< Len(delivered) => End(i) =< End(Len(delivered))
              /\ End(i) =< End(Len(delivered)) => i =< Len(delivered)
<1>1. Stream
  BY DEF Legal
<1>2. Len(Msgs) \in Nat /\ Len(delivered) \in Nat
  BY <1>1, StreamType, StateType
<1>3. PICK n \in 0..Len(Msgs) : n = Len(delivered)
  BY <1>2
<1>4. End(n) \in Nat
  BY <1>1, StreamType
<1>5. ASSUME NEW i \in 1..Len(Msgs)
      PROVE  /\ End(i) \in Nat /\ End(i) > 0
             /\ i =< n => End(i) =< End(n)
             /\ End(i) =< End(n) => i =< n
  <2>1. i \in 0..Len(Msgs) /\ 0 \in 0..Len(Msgs) /\ 0 < i
    BY <1>2
  <2>2. End(i) \in Nat /\ End(0) = 0
    BY <1>1, <2>1, StreamType DEF End
  <2>3. End(0) < End(i)
    BY <1>1, <2>1, EndsAscend
  <2>4. (i < n => End(i) < End(n)) /\ (n < i => End(n) < End(i))
    BY <1>1, <2>1, EndsAscend
  <2>5. i < n \/ i = n \/ n < i
    BY <2>1
  <2>. QED  BY <1>4, <2>2, <2>3, <2>4, <2>5
<1>. QED  BY <1>2, <1>3, <1>4, <1>5

\* A pass over bytes that begin a message: it is complete and given on as it is, or it has
\* not arrived completely.
LEMMA CleanPass ==
  ASSUME Legal, Order, busy, Well
  PROVE  \E j \in 1..Len(Msgs) :
           /\ j = Len(delivered) + 1
           /\ ~HeadBad(Filled)
           /\ HeadShort(Filled) => got < began + End(j)
           /\ \A w \in Passes :
                IF w.need = 0
                THEN w.data = MsgOf(j) /\ w.at = began + End(j) /\ began + End(j) =< got
                ELSE got < began + End(j)
<1>0. Stream /\ TypeOK /\ at < got /\ reading = NoMsg
  BY DEF Legal, Order, Well
<1>1. /\ got \in Nat /\ at \in Nat /\ base \in Nat /\ base =< at /\ began \in Nat
      /\ Total \in Nat /\ got =< began + Total
  BY <1>0, StateType
<1>2. PICK n \in 0..Len(Msgs) : n = Len(delivered) /\ End(n) \in Nat /\ at = began + End(n)
  <2>1. Len(delivered) =< Len(Msgs) /\ at = began + End(Len(delivered))
    BY DEF Well, Framed
  <2>. QED  BY <1>0, <2>1, ArrivedIs
<1>3. Len(Msgs) \in Nat
  BY <1>0, StreamType
<1>4. n # Len(Msgs)
  BY <1>0, <1>1, <1>2 DEF Total
<1>5. PICK j \in 1..Len(Msgs) : j = n + 1 /\ j - 1 = n
  BY <1>3, <1>4
<1>6. PICK h \in 1..5, b \in Nat \ {0} : /\ h = Msgs[j].head /\ b = Body(j)
                                         /\ End(j) = End(n) + h + b
  <2>1. /\ Msgs[j].head \in 1..5 /\ Body(j) \in Nat /\ End(j) \in Nat
        /\ Body(j) = End(j) - End(n) - Msgs[j].head
    BY <1>0, <1>5, StreamType
  <2>2. Body(j) > 0
    BY DEF Legal
  <2>3. PICK h, b : h = Msgs[j].head /\ b = Body(j)
    OBVIOUS
  <2>4. h \in 1..5 /\ b \in Nat /\ b > 0 /\ End(j) \in Nat /\ b = End(j) - End(n) - h
    BY <2>1, <2>2, <2>3
  <2>5. b \in Nat \ {0} /\ End(j) = End(n) + h + b
    BY <1>2, <2>4
  <2>. QED  BY <2>3, <2>4, <2>5
<1>7. PICK k \in 1..5 : /\ k < 5 => at + k = got
                        /\ at + k =< got
                        /\ Filled = Rec(Bytes(at, k), 1, 0, at + k)
  BY <1>0, FreshIs
<1>8. PICK f : f = Filled
  OBVIOUS
<1>9. PICK d : /\ d = Bytes(at, k) /\ Len(d) = k /\ d[1] = at + 1
               /\ f.data = d /\ f.rp = 1 /\ f.need = 0 /\ f.at = at + k /\ Unread(f) = k
  <2>1. PICK d : d = Bytes(at, k)
    OBVIOUS
  <2>2. Len(d) = k /\ d[1] = at + 1
    <3>1. k \in Nat /\ 1 \in 1..k
      OBVIOUS
    <3>. QED  BY <1>1, <2>1, <3>1, BytesIs
  <2>3. f.data = d /\ f.rp = 1 /\ f.need = 0 /\ f.at = at + k
    BY <1>7, <1>8, <2>1, RecIs
  <2>4. Unread(f) = k
    BY <2>2, <2>3 DEF Unread
  <2>. QED  BY <2>1, <2>2, <2>3, <2>4
<1>10. Begun(f) = {j}
  <2>1. ASSUME NEW i \in 1..Len(Msgs)
        PROVE  i \in Begun(f) <=> i = j
    <3>1. i - 1 \in 0..Len(Msgs) /\ End(i - 1) \in Nat
      BY <1>0, StreamType
    <3>2. i \in Begun(f) <=> at + 1 = began + End(i - 1) + 1
      BY <1>9 DEF Begun
    <3>3. at + 1 = began + End(i - 1) + 1 <=> End(i - 1) = End(n)
      BY <1>1, <1>2, <3>1
    <3>4. End(i - 1) = End(n) <=> i - 1 = n
      BY <1>0, <3>1, EndsAscend
    <3>5. i - 1 = n <=> i = j
      BY <1>5
    <3>. QED  BY <3>2, <3>3, <3>4, <3>5
  <2>2. Begun(f) \subseteq 1..Len(Msgs)
    BY DEF Begun
  <2>. QED  BY <2>1, <2>2
<1>11. Heads(f) = {[head |-> h, body |-> b]}
  BY <1>6, <1>10 DEF Heads
<1>12. ~HeadBad(f)
  BY <1>10 DEF HeadBad
<1>13. ASSUME HeadShort(f) PROVE got < began + End(j)
  <2>1. k < h
    BY <1>9, <1>11, <1>13 DEF HeadShort
  <2>2. at + k = got
    BY <1>7, <2>1
  <2>. QED  BY <1>1, <1>2, <1>6, <2>1, <2>2
<1>14. ASSUME NEW w \in Passes
       PROVE  IF w.need = 0
              THEN w.data = MsgOf(j) /\ w.at = began + End(j) /\ began + End(j) =< got
              ELSE got < began + End(j)
  <2>1. PICK u \in Unpacked(f) : w = WithBody(u)
    BY <1>8 DEF Passes
  <2>2. u = Rec(d, 1 + h, b, at + k) /\ h <= k
    <3>1. PICK x \in Heads(f) : x.head <= Unread(f) /\ u = [f EXCEPT !.rp = @ + x.head, !.need = x.body]
      <4>1. ~(f.need > 0)
        BY <1>9
      <4>. QED  BY <4>1 DEF Unpacked
    <3>2. x.head = h /\ x.body = b
      BY <1>11, <3>1
    <3>3. f = Rec(d, 1, 0, at + k)
      BY <1>7, <1>8, <1>9
    <3>. QED  BY <1>9, <3>1, <3>2, <3>3 DEF Rec
  <2>3. MsgOf(j) = Bytes(at, h + b) /\ began + End(j) = at + h + b
    <3>1. End(j) - End(n) = h + b /\ began + End(j) = at + h + b
      <4>1. PICK e, c : e = End(n) /\ c = End(j)
        OBVIOUS
      <4>2. e \in Nat /\ c = e + h + b /\ at = began + e
        BY <1>2, <1>6, <4>1
      <4>3. c - e = h + b /\ began + c = at + h + b
        BY <1>1, <4>2
      <4>. QED  BY <4>1, <4>3
    <3>. QED  BY <1>2, <1>5, <3>1 DEF MsgOf
  <2>4. /\ k - h > b => w = Rec(SubSeq(d, 1, h + b), 1 + h, 0, BackPos(at + k, k - h - b))
        /\ ~(k - h > b) =>
             \A y, m : y = b - (k - h) /\ m = Least(y, got - (at + k)) =>
               w = Rec(d \o Bytes(at + k, m), 1 + h, y - m, at + k + m)
    <3>1. PICK r, p : r = 1 + h /\ p = at + k
      OBVIOUS
    <3>2. r \in Nat /\ p \in Nat /\ k \in Nat /\ b \in Nat /\ b > 0
      BY <1>1, <3>1
    <3>3. w = WithBody(Rec(d, r, b, p)) /\ k = Len(d)
      BY <1>9, <2>1, <2>2, <3>1
    <3>4. /\ k - r + 1 > b => w = Rec(SubSeq(d, 1, r - 1 + b), r, 0, BackPos(p, k - r + 1 - b))
          /\ ~(k - r + 1 > b) =>
               \A y, m : y = b - (k - r + 1) /\ m = Least(y, got - p) =>
                 w = Rec(d \o Bytes(p, m), r, y - m, p + m)
      BY <3>2, <3>3, WithBodyIs
    <3>5. k - r + 1 = k - h /\ r - 1 + b = h + b
      BY <3>1
    <3>. QED  BY <3>1, <3>4, <3>5
  <2>5. CASE k - h > b
    <3>1. PICK q : q = BackPos(at + k, k - h - b)
      OBVIOUS
    <3>2. q = at + h + b
      <4>1. at + k - base >= k - h - b
        BY <1>1, <2>5
      <4>. QED  BY <1>1, <3>1, <4>1 DEF BackPos
    <3>3. SubSeq(d, 1, h + b) = Bytes(at, h + b)
      <4>1. k \in Nat /\ h + b \in 0..k
        BY <2>5
      <4>2. SubSeq(Bytes(at, k), 1, h + b) = Bytes(at, h + b)
        BY <1>1, <4>1, BytesFirst
      <4>. QED  BY <1>9, <4>2
    <3>4. w = Rec(Bytes(at, h + b), 1 + h, 0, at + h + b)
      BY <2>4, <2>5, <3>1, <3>2, <3>3
    <3>5. w.need = 0 /\ w.data = MsgOf(j) /\ w.at = began + End(j)
      BY <2>3, <3>4, RecIs
    <3>6. at + h + b =< got
      BY <1>1, <1>7, <2>5
    <3>. QED  BY <2>3, <3>5, <3>6
  <2>6. CASE ~(k - h > b)
    <3>1. PICK y, m : y = b - (k - h) /\ m = Least(y, got - (at + k))
      OBVIOUS
    <3>2. y \in Nat /\ got - (at + k) \in Nat
      BY <1>1, <1>7, <2>2, <2>6, <3>1
    <3>3. m \in Nat /\ m =< y /\ m =< got - (at + k) /\ (m = y \/ m = got - (at + k))
      BY <3>1, <3>2, LeastIs
    <3>4. d \o Bytes(at + k, m) = Bytes(at, k + m)
      <4>1. k \in Nat
        OBVIOUS
      <4>2. Bytes(at, k) \o Bytes(at + k, m) = Bytes(at, k + m)
        BY <1>1, <3>3, <4>1, BytesJoin
      <4>. QED  BY <1>9, <4>2
    <3>5. w = Rec(Bytes(at, k + m), 1 + h, y - m, at + k + m)
      BY <2>4, <2>6, <3>1, <3>4
    <3>6. w.need = y - m /\ w.data = Bytes(at, k + m) /\ w.at = at + k + m
      BY <3>5, RecIs
    <3>7. CASE m = y
      <4>1. y - m = 0 /\ k + m = h + b /\ at + k + m = at + h + b
        BY <1>1, <3>1, <3>2, <3>7
      <4>2. at + h + b =< got
        BY <1>1, <3>3, <4>1
      <4>. QED  BY <2>3, <3>6, <4>1, <4>2
    <3>8. CASE m # y
      <4>1. y - m # 0 /\ got < at + h + b
        BY <1>1, <3>1, <3>2, <3>3, <3>8
      <4>. QED  BY <2>3, <3>6, <4>1
    <3>. QED  BY <3>7, <3>8
  <2>. QED  BY <2>5, <2>6
<1>. QED  BY <1>2, <1>5, <1>8, <1>12, <1>13, <1>14


\* A read that stops where a message has not arrived completely.
LEMMA StopsShort ==
  ASSUME Legal, TypeOK, NEW j \in 1..Len(Msgs), j = Len(delivered) + 1, Well,
         began + End(Len(delivered)) < got, got < began + End(j)
  PROVE  ~AtEnd(got) /\ \A i \in 1..Len(Msgs) : began + End(i) =< got => i =< Len(delivered)
<1>1. Stream /\ began \in Nat /\ got \in Nat
  BY StateType DEF Legal
<1>2. Len(Msgs) \in Nat
  BY <1>1, StreamType
<1>3. PICK n \in 0..Len(Msgs) : n = Len(delivered) /\ j = n + 1
  BY ArrivedIs DEF Well, Framed
<1>4. End(n) \in Nat /\ End(j) \in Nat /\ j \in 0..Len(Msgs)
  BY <1>1, <1>2, StreamType
<1>5. ASSUME NEW i \in 0..Len(Msgs)
      PROVE  End(i) \in Nat /\ (i =< n => End(i) =< End(n)) /\ (n < i => End(j) =< End(i))
  <2>1. End(i) \in Nat
    BY <1>1, StreamType
  <2>2. (i < n => End(i) < End(n)) /\ (j < i => End(j) < End(i))
    BY <1>1, <1>4, EndsAscend
  <2>3. (i =< n => i < n \/ i = n) /\ (n < i => j < i \/ i = j)
    BY <1>3
  <2>. QED  BY <1>4, <2>1, <2>2, <2>3
<1>6. PICK e, c : e = End(n) /\ c = End(j)
  OBVIOUS
<1>7. e \in Nat /\ c \in Nat /\ began + e < got /\ got < began + c
  BY <1>3, <1>4, <1>6
<1>8. ASSUME NEW i \in 0..Len(Msgs) PROVE began + End(i) # got /\ (began + End(i) =< got => i =< n)
  <2>1. PICK v \in Nat : v = End(i) /\ (i =< n => v =< e) /\ (n < i => c =< v)
    BY <1>5, <1>6
  <2>2. i =< n \/ n < i
    BY <1>3
  <2>3. began + v # got /\ (n < i => ~(began + v =< got))
    BY <1>1, <1>7, <2>1, <2>2
  <2>. QED  BY <2>1, <2>2, <2>3
<1>9. ~AtEnd(got)
  BY <1>8 DEF AtEnd
<1>10. \A i \in 1..Len(Msgs) : i \in 0..Len(Msgs)
  BY <1>2
<1>. QED  BY <1>3, <1>8, <1>9, <1>10

\* A message more.
LEMMA AppendIs ==
  ASSUME TypeOK, NEW d \in Seq(Nat), delivered' = Append(delivered, d)
  PROVE  /\ Len(delivered') = Len(delivered) + 1 /\ DOMAIN delivered' = 1..Len(delivered) + 1
         /\ Len(delivered) \in Nat /\ DOMAIN delivered = 1..Len(delivered)
         /\ \A i \in 1..Len(delivered) : delivered'[i] = delivered[i]
         /\ delivered'[Len(delivered) + 1] = d
<1>. DEFINE S == Seq(Nat)
<1>1. delivered \in Seq(S) /\ d \in S
  BY DEF TypeOK
<1>. HIDE DEF S
<1>. QED  BY <1>1

LEMMA SoundRead ==
  ASSUME Legal, Order, Order', SoundInv, Read
  PROVE  SoundInv'
<1>0. /\ Stream /\ TypeOK /\ TypeOK' /\ busy
      /\ base' = IF busy' THEN base ELSE got
      /\ UNCHANGED <<conns, began, got, used, torn, sound>>
  BY DEF Legal, Order, Read, history
<1>1. open \in {"yes", "app"} /\ (~torn => sound = got)
  BY <1>0 DEF SoundInv
<1>2. /\ Len(delivered) \in Nat /\ Len(Msgs) \in Nat /\ DOMAIN delivered = 1..Len(delivered)
      /\ began \in Nat /\ got \in Nat /\ at \in Nat /\ sound \in Nat
  BY <1>0, StateType, StreamType
<1>3. \/ Fail
      \/ \E r : Wait(r)
      \/ open = "yes" /\ \E w \in Passes : /\ delivered' = Append(delivered, w.data)
                                          /\ w.data \in Seq(Nat) /\ UNCHANGED open
  <2>1. \A w \in Passes : w.data \in Seq(Nat)
    <3>. SUFFICES ASSUME NEW w \in Passes PROVE w.data \in Seq(Nat)
      OBVIOUS
    <3>1. PICK d, r, x, p : w = Rec(d, r, x, p) /\ Passing(d, r, x, p)
      BY <1>0, PassIs
    <3>. QED  BY <3>1, RecIs DEF Passing
  <2>2. CASE ReadBad
    BY <2>2 DEF ReadBad
  <2>3. CASE ReadShort
    BY <2>3 DEF ReadShort
  <2>4. CASE ReadPart
    BY <2>4 DEF ReadPart
  <2>5. CASE ReadMsg
    BY <2>1, <2>5 DEF ReadMsg
  <2>. QED  BY <2>2, <2>3, <2>4, <2>5 DEF Read
<1>4. busy' => open' \in {"yes", "app"}
  BY <1>1, <1>3 DEF Fail, Wait
<1>5. \A i : MsgOf(i)' = MsgOf(i) /\ End(i)' = End(i)
  BY <1>0 DEF MsgOf, End, Bytes
<1>6. AtEnd(got)' <=> AtEnd(got)
  BY <1>0 DEF AtEnd, End
<1>7. ASSUME Given, UNCHANGED delivered, open = "app" => open' = "app" PROVE Given'
  BY <1>0, <1>5, <1>7 DEF Given
<1>8. CASE ~Clean
  <2>1. sound # got
    BY <1>0, <1>8 DEF Clean
  <2>2. ~Clean' /\ Given
    BY <1>0, <1>8, <2>1 DEF Clean, SoundInv
  <2>3. Given'
    <3>1. CASE Fail \/ \E r : Wait(r)
      BY <1>7, <2>2, <3>1 DEF Fail, Wait
    <3>2. CASE open = "yes" /\ \E w \in Passes : /\ delivered' = Append(delivered, w.data)
                                                /\ w.data \in Seq(Nat) /\ UNCHANGED open
      <4>1. PICK d \in Seq(Nat) : delivered' = Append(delivered, d)
        BY <3>2
      <4>2. /\ Len(delivered') = Len(delivered) + 1
            /\ \A i \in 1..Len(delivered) : delivered'[i] = delivered[i]
        BY <1>0, <4>1, AppendIs
      <4>3. ASSUME NEW i \in 1..Len(Msgs), began + End(i) =< sound
            PROVE  i =< Len(delivered') /\ delivered'[i] = MsgOf(i)
        <5>1. i =< Len(delivered) /\ delivered[i] = MsgOf(i)
          BY <2>2, <3>2, <4>3 DEF Given
        <5>2. i \in 1..Len(delivered) /\ i =< Len(delivered) + 1
          BY <1>2, <5>1
        <5>. QED  BY <4>2, <5>1, <5>2
      <4>. QED  BY <1>0, <1>5, <4>3 DEF Given
    <3>. QED  BY <1>3, <3>1, <3>2
  <2>. QED  BY <1>0, <1>1, <1>4, <2>2, <2>3 DEF SoundInv
<1>9. CASE Clean
  <2>0. Well /\ sound = got
    BY <1>9 DEF SoundInv, Clean
  <2>1. PICK j \in 1..Len(Msgs) :
          /\ j = Len(delivered) + 1
          /\ ~HeadBad(Filled)
          /\ HeadShort(Filled) => got < began + End(j)
          /\ \A w \in Passes :
               IF w.need = 0
               THEN w.data = MsgOf(j) /\ w.at = began + End(j) /\ began + End(j) =< got
               ELSE got < began + End(j)
    BY <1>0, <2>0, CleanPass
  <2>2. /\ Len(delivered) =< Len(Msgs) /\ \A i \in DOMAIN delivered : delivered[i] = MsgOf(i)
        /\ at = began + End(Len(delivered)) /\ at < got /\ (~torn => AtEnd(got))
        /\ open # "protocol"
    BY <1>0, <2>0 DEF Well, Framed, Order
  <2>3. ASSUME NEW r, Wait(r), got < began + End(j) PROVE SoundInv'
    <3>1. began + End(Len(delivered)) < got
      BY <2>2
    <3>2. ~AtEnd(got) /\ \A i \in 1..Len(Msgs) : began + End(i) =< got => i =< Len(delivered)
      BY <1>0, <2>0, <2>1, <2>3, <3>1, StopsShort
    <3>3. torn /\ ~busy' /\ UNCHANGED <<open, delivered>>
      BY <2>2, <2>3, <3>2 DEF Wait
    <3>4. ~Clean'
      BY <1>0, <3>3 DEF Clean
    <3>5. Given
      <4>1. \A i \in 1..Len(Msgs) : i =< Len(delivered) => i \in DOMAIN delivered
        BY <1>2
      <4>. QED  BY <2>0, <2>2, <3>2, <4>1 DEF Given
    <3>6. Given'
      BY <1>7, <3>3, <3>5
    <3>. QED  BY <1>0, <1>4, <3>3, <3>4, <3>6 DEF SoundInv
  <2>4. CASE ReadBad
    BY <2>1, <2>4 DEF ReadBad
  <2>5. CASE ReadShort
    BY <2>1, <2>3, <2>5 DEF ReadShort
  <2>6. CASE ReadPart
    <3>1. PICK w \in Passes : w.need > 0 /\ Wait(Kept(w))
      BY <2>6 DEF ReadPart
    <3>2. w.need # 0
      BY <3>1
    <3>. QED  BY <2>1, <2>3, <3>1, <3>2
  <2>7. CASE ReadMsg
    <3>1. PICK w \in Passes :
            /\ w.need = 0
            /\ IF open # "yes" THEN Fail
               ELSE /\ delivered' = Append(delivered, w.data) /\ reading' = NoMsg
                    /\ at' = w.at /\ ReadOn(w) /\ UNCHANGED open
      BY <2>7 DEF ReadMsg
    <3>2. w.data = MsgOf(j) /\ w.at = began + End(j) /\ began + End(j) =< got
      BY <2>1, <3>1
    <3>3. CASE open # "yes"
      <4>1. open = "app" /\ open' = "app" /\ ~busy' /\ reading' = NoMsg /\ UNCHANGED delivered
        BY <1>1, <3>1, <3>3 DEF Fail
      <4>2. CASE torn
        <5>1. ~Clean'
          BY <1>0, <4>1, <4>2 DEF Clean
        <5>2. Given'
          <6>1. \A i \in 1..Len(Msgs) : i =< Len(delivered) => i \in DOMAIN delivered
            BY <1>2
          <6>2. Given
            BY <2>2, <4>1, <6>1 DEF Given
          <6>. QED  BY <1>7, <4>1, <6>2
        <5>. QED  BY <1>0, <4>1, <4>2, <5>1, <5>2 DEF SoundInv
      <4>3. CASE ~torn
        <5>1. Clean'
          BY <1>0, <2>0, <4>3 DEF Clean
        <5>2. Framed'
          BY <1>5, <2>2, <4>1 DEF Framed
        <5>3. began' + End(Len(delivered))' =< got'
          BY <1>0, <1>5, <2>0, <4>1 DEF Well, End
        <5>4. AtEnd(got)'
          BY <1>6, <2>2, <4>3
        <5>5. Well'
          BY <4>1, <5>2, <5>3, <5>4 DEF Well
        <5>. QED  BY <1>0, <2>0, <4>1, <5>1, <5>5 DEF SoundInv
      <4>. QED  BY <4>2, <4>3
    <3>4. CASE open = "yes"
      <4>1. /\ delivered' = Append(delivered, w.data) /\ reading' = NoMsg /\ at' = began + End(j)
            /\ busy' = (began + End(j) < got) /\ UNCHANGED open
        BY <3>1, <3>2, <3>4 DEF ReadOn
      <4>2. w.data \in Seq(Nat)
        <5>1. began + End(j - 1) \in Nat /\ End(j) - End(j - 1) \in Nat
          <6>1. PICK a, b, h : a = End(j - 1) /\ b = End(j) /\ h = Msgs[j].head
            OBVIOUS
          <6>2. a \in Nat /\ b \in Nat /\ h \in 1..5 /\ a + h =< b
            BY <1>0, <6>1, StreamType
          <6>3. began + a \in Nat /\ b - a \in Nat
            BY <1>2, <6>2
          <6>. QED  BY <6>1, <6>3
        <5>. QED  BY <3>2, <5>1, BytesIs DEF MsgOf
      <4>3. /\ Len(delivered') = j /\ DOMAIN delivered' = 1..j
            /\ \A i \in 1..Len(delivered) : delivered'[i] = delivered[i]
            /\ delivered'[j] = MsgOf(j)
        BY <1>0, <2>1, <3>2, <4>1, <4>2, AppendIs
      <4>4. Framed'
        <5>1. \A i \in 1..j : i \in 1..Len(delivered) \/ i = j
          BY <1>2, <2>1
        <5>2. \A i \in 1..j : delivered'[i] = MsgOf(i)
          BY <1>2, <2>2, <4>3, <5>1
        <5>3. j =< Len(Msgs)
          BY <1>2
        <5>. QED  BY <1>5, <4>3, <5>2, <5>3 DEF Framed
      <4>5. End(Len(delivered))' = End(j)
        BY <4>3 DEF End
      <4>6. Well'
        BY <1>0, <1>6, <2>2, <3>2, <3>4, <4>1, <4>4, <4>5 DEF Well
      <4>7. Clean' \/ ~busy'
        BY <1>0, <2>0 DEF Clean
      <4>8. CASE Clean'
        BY <1>0, <1>4, <2>0, <4>6, <4>8 DEF SoundInv
      <4>9. CASE ~Clean'
        <5>1. ~busy' /\ sound' = got'
          BY <1>0, <2>0, <4>7, <4>9
        <5>2. at' = got' /\ at' = began' + End(Len(delivered))'
          BY <1>0, <4>1, <4>5, <5>1 DEF Order
        <5>3. Given'
          <6>. SUFFICES ASSUME NEW i \in 1..Len(Msgs), began + End(i) =< got
                        PROVE  i \in 1..j
            BY <1>0, <1>5, <2>0, <4>3, <4>4 DEF Given, Framed
          <6>1. i \in 0..Len(Msgs) /\ j \in 0..Len(Msgs)
            BY <1>2
          <6>2. End(i) \in Nat /\ End(j) \in Nat /\ (j < i => End(j) < End(i))
            BY <1>0, <6>1, StreamType, EndsAscend
          <6>3. got = began + End(j)
            BY <1>0, <4>1, <5>2
          <6>. QED  BY <1>2, <6>1, <6>2, <6>3
        <5>. QED  BY <4>9, <5>1, <5>3 DEF SoundInv
      <4>. QED  BY <4>8, <4>9
    <3>. QED  BY <3>3, <3>4
  <2>. QED  BY <2>4, <2>5, <2>6, <2>7 DEF Read
<1>. QED  BY <1>8, <1>9

LEMMA SoundInit ==
  ASSUME Legal, Init
  PROVE  SoundInv
<1>1. /\ reading = NoMsg /\ delivered = <<>> /\ open = "yes" /\ busy = FALSE /\ torn = FALSE
      /\ began = 0 /\ got = 0 /\ at = 0 /\ sound = 0
  BY DEF Init
<1>2. Len(Msgs) \in Nat /\ 0 \in 0..Len(Msgs) /\ End(0) = 0
  BY StreamType DEF Legal, End
<1>3. Len(delivered) = 0 /\ DOMAIN delivered = {}
  <2>1. Len(<<>>) = 0 /\ DOMAIN <<>> = {}
    OBVIOUS
  <2>. QED  BY <1>1, <2>1
<1>4. Framed
  BY <1>2, <1>3 DEF Framed
<1>5. AtEnd(got)
  BY <1>1, <1>2 DEF AtEnd
<1>6. Well
  BY <1>1, <1>2, <1>3, <1>4, <1>5 DEF Well
<1>. QED  BY <1>1, <1>6 DEF SoundInv, Clean

LEMMA SoundReceive ==
  ASSUME Legal, Order, SoundInv, NEW n \in 1..Total, Receive(n)
  PROVE  SoundInv' /\ (Whole => torn' = torn)
<1>0. Stream /\ TypeOK /\ ~busy /\ at = got /\ open = "yes"
  BY DEF Legal, Order, Receive
<1>1. got \in Nat /\ sound \in Nat /\ sound =< got /\ n \in Nat /\ n > 0 /\ Total \in Nat
  <2>1. Total \in Nat
    BY <1>0, StreamType
  <2>. QED  BY <1>0, <2>1, StateType
<1>2. /\ got' = got + n /\ at' = got /\ busy' = TRUE /\ (Whole => AtEnd(got + n))
      /\ torn' = (torn \/ ~AtEnd(got + n))
      /\ sound' = IF torn THEN sound ELSE got + n
      /\ UNCHANGED <<open, conns, began, reading, delivered, used>>
  BY DEF Receive
<1>3. \A i : MsgOf(i)' = MsgOf(i) /\ End(i)' = End(i)
  BY <1>2 DEF MsgOf, End, Bytes
<1>4. CASE torn
  <2>0. torn' /\ sound' = sound
    BY <1>2, <1>4
  <2>1. torn' /\ sound' = sound /\ sound' # got'
    <3>1. sound # got + n
      BY <1>1
    <3>. QED  BY <1>2, <2>0, <3>1
  <2>2. ~Clean /\ ~Clean'
    BY <1>0, <1>4, <2>1 DEF Clean
  <2>3. Given'
    BY <1>2, <1>3, <2>1, <2>2 DEF SoundInv, Given
  <2>. QED  BY <1>0, <1>2, <1>4, <2>1, <2>2, <2>3 DEF SoundInv
<1>5. CASE ~torn
  <2>1. Clean /\ Clean' /\ sound' = got'
    BY <1>2, <1>5 DEF SoundInv, Clean
  <2>2. Well
    BY <2>1 DEF SoundInv
  <2>3. Framed'
    BY <1>2, <1>3, <2>2 DEF Well, Framed
  <2>4. AtEnd(got)' <=> AtEnd(got + n)
    BY <1>2 DEF AtEnd, End
  <2>5. began' + End(Len(delivered))' = got /\ got =< got'
    <3>1. End(Len(delivered))' = End(Len(delivered))
      BY <1>2 DEF End
    <3>. QED  BY <1>0, <1>1, <1>2, <2>2, <3>1 DEF Well
  <2>6. Well'
    <3>1. reading' = NoMsg /\ open' # "protocol"
      BY <1>2, <2>2 DEF Well
    <3>2. ~torn' => AtEnd(got)'
      BY <1>2, <1>5, <2>4
    <3>3. began' + End(Len(delivered))' =< got' /\ at' = began' + End(Len(delivered))'
      BY <1>2, <2>5
    <3>. QED  BY <2>3, <3>1, <3>2, <3>3 DEF Well
  <2>7. torn = FALSE
    BY <1>0, <1>5 DEF TypeOK
  <2>8. Whole => torn' = torn
    BY <1>2, <2>7
  <2>9. open' \in {"yes", "app"}
    BY <1>0, <1>2
  <2>. QED  BY <2>1, <2>6, <2>8, <2>9 DEF SoundInv
<1>. QED  BY <1>4, <1>5

LEMMA SoundOpen ==
  ASSUME SoundInv, UNCHANGED <<conns, began, got, base, at, busy, reading, delivered, history>>,
         \/ open' = open
         \/ open = "yes" /\ (open' = "app" \/ (open' = "peer" /\ ~busy))
  PROVE  SoundInv' /\ torn' = torn
<1>1. UNCHANGED <<used, torn, sound>>
  BY DEF history
<1>2. \A i : MsgOf(i)' = MsgOf(i) /\ End(i)' = End(i)
  BY DEF MsgOf, End, Bytes
<1>3. Framed' <=> Framed
  BY <1>2 DEF Framed
<1>4. AtEnd(got)' <=> AtEnd(got)
  BY DEF AtEnd, End
<1>5. Well => Well'
  BY <1>1, <1>3, <1>4 DEF Well, End
<1>6. Given => Given'
  BY <1>1, <1>2 DEF Given
<1>7. Clean' <=> Clean
  BY <1>1 DEF Clean
<1>. QED  BY <1>1, <1>5, <1>6, <1>7 DEF SoundInv

LEMMA SoundStart ==
  ASSUME Legal, Order, SoundInv, Start
  PROVE  SoundInv' /\ (~torn => ~torn')
<1>0. Stream /\ TypeOK /\ ~busy /\ at = got
  BY DEF Legal, Order, Start
<1>1. /\ open' = "yes" /\ began' = got /\ reading' = [reading EXCEPT !.need = 0]
      /\ delivered' = <<>> /\ torn' = (reading # NoMsg) /\ sound' = got
      /\ UNCHANGED <<got, base, at, busy>>
  BY DEF Start
<1>2. Len(delivered') = 0 /\ DOMAIN delivered' = {}
  <2>1. Len(<<>>) = 0 /\ DOMAIN <<>> = {}
    OBVIOUS
  <2>. QED  BY <1>1, <2>1
<1>3. /\ got \in Nat /\ Len(Msgs) \in Nat /\ 0 \in 0..Len(Msgs) /\ End(0) = 0
      /\ \A i : End(i)' = End(i)
  BY <1>0, StateType, StreamType DEF End
<1>4. ~torn => ~torn'
  BY <1>1 DEF SoundInv, Clean, Well
<1>5. CASE reading = NoMsg
  <2>1. reading' = NoMsg
    <3>1. [NoMsg EXCEPT !.need = 0] = NoMsg
      BY DEF NoMsg
    <3>. QED  BY <1>1, <1>5, <3>1
  <2>2. Framed'
    BY <1>2, <1>3 DEF Framed
  <2>3. began' + End(Len(delivered))' = got
    <3>1. End(Len(delivered))' = 0
      BY <1>2 DEF End
    <3>. QED  BY <1>1, <1>3, <3>1
  <2>4. AtEnd(got)'
    <3>1. began' + End(0)' = got'
      BY <1>1, <1>3
    <3>. QED  BY <1>3, <3>1 DEF AtEnd
  <2>5. Well'
    BY <1>0, <1>1, <1>3, <2>1, <2>2, <2>3, <2>4 DEF Well
  <2>6. Clean'
    BY <1>1, <1>5 DEF Clean
  <2>. QED  BY <1>0, <1>1, <1>4, <2>5, <2>6 DEF SoundInv
<1>6. CASE reading # NoMsg
  <2>1. ~Clean' /\ torn'
    BY <1>0, <1>1, <1>6 DEF Clean
  <2>2. Given'
    <3>. SUFFICES ASSUME NEW i \in 1..Len(Msgs) PROVE ~(got + End(i) =< got)
      BY <1>1, <1>3 DEF Given
    <3>1. i \in 0..Len(Msgs) /\ 0 < i
      BY <1>3
    <3>2. End(i) \in Nat /\ End(0) < End(i)
      BY <1>0, <1>3, <3>1, StreamType, EndsAscend
    <3>. QED  BY <1>3, <3>2
  <2>. QED  BY <1>0, <1>1, <1>4, <2>1, <2>2 DEF SoundInv
<1>. QED  BY <1>5, <1>6

\* Reads that end with messages never tear one.
Complete == Whole => ~torn

LEMMA SoundInductive ==
  ASSUME Legal, Order, Order', SoundInv, Complete, [Next]_vars
  PROVE  SoundInv' /\ Complete'
<1>1. CASE Read
  <2>1. torn' = torn /\ SoundInv'
    BY <1>1, SoundRead DEF Read, history
  <2>. QED  BY <2>1 DEF Complete
<1>2. ASSUME NEW n \in 1..Total, Receive(n) PROVE SoundInv' /\ Complete'
  BY <1>2, SoundReceive DEF Complete
<1>3. CASE CloseLink
  BY <1>3, SoundOpen DEF CloseLink, Complete
<1>4. CASE PeerGone
  BY <1>4, SoundOpen DEF PeerGone, Complete
<1>5. CASE Start
  BY <1>5, SoundStart DEF Complete
<1>6. CASE UNCHANGED vars
  BY <1>6, SoundOpen DEF vars, history, Complete
<1>. QED  BY <1>1, <1>2, <1>3, <1>4, <1>5, <1>6 DEF Next

\* What the invariant says of a state.
LEMMA WellShows ==
  ASSUME Legal, Order, SoundInv, Clean
  PROVE  /\ Framed /\ NeverRejected
         /\ open # "app" /\ ~busy =>
              \A i \in 1..Len(Msgs) : began + End(i) =< got => i =< Len(delivered)
         /\ \A i \in DOMAIN delivered : began + End(i) =< got
<1>1. Well /\ TypeOK /\ Stream
  BY DEF SoundInv, Order, Legal
<1>2. Framed /\ NeverRejected /\ Len(delivered) =< Len(Msgs)
  BY <1>1 DEF Well, NeverRejected, Framed
<1>3. began \in Nat /\ got \in Nat /\ DOMAIN delivered = 1..Len(delivered)
  BY <1>1, StateType
<1>4. PICK e \in Nat : e = End(Len(delivered))
  BY <1>1, <1>2, ArrivedIs
<1>5. began + e =< got
  BY <1>1, <1>4 DEF Well
<1>6. open # "app" /\ ~busy => began + e = got
  BY <1>1, <1>4 DEF Well, Order
<1>7. ASSUME NEW i \in 1..Len(Msgs)
      PROVE  /\ End(i) \in Nat /\ (i =< Len(delivered) => End(i) =< e)
             /\ End(i) =< e => i =< Len(delivered)
  BY <1>1, <1>2, <1>4, ArrivedIs
<1>8. \A i \in DOMAIN delivered : i \in 1..Len(Msgs) /\ i =< Len(delivered)
  <2>1. Len(delivered) \in Nat /\ Len(Msgs) \in Nat
    BY <1>1, StateType, StreamType
  <2>. QED  BY <1>2, <1>3, <2>1
<1>9. \A i \in DOMAIN delivered : began + End(i) =< got
  <2>. SUFFICES ASSUME NEW i \in DOMAIN delivered PROVE began + End(i) =< got
    OBVIOUS
  <2>1. PICK v \in Nat : v = End(i) /\ v =< e
    BY <1>7, <1>8
  <2>. QED  BY <1>3, <1>5, <2>1
<1>10. open # "app" /\ ~busy =>
         \A i \in 1..Len(Msgs) : began + End(i) =< got => i =< Len(delivered)
  <2>. SUFFICES ASSUME began + e = got, NEW i \in 1..Len(Msgs), began + End(i) =< got
                PROVE  i =< Len(delivered)
    BY <1>6
  <2>1. PICK v \in Nat : v = End(i) /\ (v =< e => i =< Len(delivered))
    BY <1>7
  <2>. QED  BY <1>3, <2>1
<1>. QED  BY <1>2, <1>9, <1>10

LEMMA SoundShows ==
  ASSUME Legal, Order, SoundInv
  PROVE  SoundUntilTorn
<1>1. Stream /\ TypeOK
  BY DEF Order, Legal
<1>2. CASE Clean
  <2>1. sound = got
    BY <1>2 DEF Clean
  <2>2. /\ Len(delivered) =< Len(Msgs) /\ \A i \in DOMAIN delivered : delivered[i] = MsgOf(i)
        /\ open # "protocol"
    BY <1>2, WellShows DEF Framed, NeverRejected
  <2>3. \A i \in 1..Len(Msgs) : i =< Len(delivered) => i \in DOMAIN delivered
    BY <1>1, StateType
  <2>. QED  BY <1>2, <2>1, <2>2, <2>3, WellShows DEF SoundUntilTorn
<1>3. CASE ~Clean
  <2>1. Given /\ torn
    BY <1>3 DEF SoundInv, Clean
  <2>. QED  BY <2>1 DEF SoundUntilTorn, Given
<1>. QED  BY <1>2, <1>3

\* For every stream of messages whose bodies are not empty and every way of cutting it: a
\* connection that begins with nothing left gives on every message that arrived completely
\* by the end of the first read that ends inside one, as it is, and before that read it
\* gives on nothing else and is not closed for what it received.
THEOREM SoundAlways == ASSUME Legal PROVE Spec => []SoundUntilTorn
<1>0. Legal => Stream
  BY DEF Legal
<1>1. Init => Order /\ SoundInv /\ Complete
  BY <1>0, InitHolds, SoundInit DEF Init, Complete
<1>2. Order /\ SoundInv /\ Complete /\ [Next]_vars => (Order /\ SoundInv /\ Complete)'
  <2>. SUFFICES ASSUME Order, SoundInv, Complete, [Next]_vars
                PROVE  (Order /\ SoundInv /\ Complete)'
    OBVIOUS
  <2>1. Order'
    BY <1>0, OrderInductive
  <2>. QED  BY <2>1, SoundInductive
<1>3. Order /\ SoundInv => SoundUntilTorn
  BY SoundShows
<1>. QED  BY <1>1, <1>2, <1>3, PTL DEF Spec

LEMMA WholeShows ==
  ASSUME Legal, Whole, Order, SoundInv, Complete
  PROVE  Framed /\ NothingWithheld /\ NeverRejected
<1>1. Clean
  BY DEF SoundInv, Clean, Complete
<1>. QED  BY <1>1, WellShows DEF NothingWithheld

\* And where every read ends with a message, all of them are, in every connection.
THEOREM WholeIsDelivered ==
  ASSUME Legal, Whole PROVE Spec => [](Framed /\ NothingWithheld /\ NeverRejected)
<1>0. Legal => Stream
  BY DEF Legal
<1>1. Init => Order /\ SoundInv /\ Complete
  BY <1>0, InitHolds, SoundInit DEF Init, Complete
<1>2. Order /\ SoundInv /\ Complete /\ [Next]_vars => (Order /\ SoundInv /\ Complete)'
  <2>. SUFFICES ASSUME Order, SoundInv, Complete, [Next]_vars
                PROVE  (Order /\ SoundInv /\ Complete)'
    OBVIOUS
  <2>1. Order'
    BY <1>0, OrderInductive
  <2>. QED  BY <2>1, SoundInductive
<1>3. Order /\ SoundInv /\ Complete => Framed /\ NothingWithheld /\ NeverRejected
  BY WholeShows
<1>. QED  BY <1>1, <1>2, <1>3, PTL DEF Spec
=============================================================================
