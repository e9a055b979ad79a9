--------------------------- MODULE Framing_proofs ---------------------------
(***************************************************************************)
(* The bytes of a link, out and in.  Out, for every number and size of     *)
(* buffers, messages and connections: they leave in the order in which     *)
(* they were sent, whatever is filled, handed to libuv and reused          *)
(* meanwhile (LinkWriter).  In: the theorems of MsgProtocol_proofs, for    *)
(* the two instances that Framing runs.                                    *)
(***************************************************************************)
EXTENDS Framing, SequenceTheorems, TLAPS

-----------------------------------------------------------------------------
(* The inductive invariant.                                                *)

RegionRec == [buf : Bufs, from : Nat, len : Nat \ {0}, last : BOOLEAN]

Types ==
  /\ data \in [Bufs -> [1..Size -> Nat]]
  /\ mWriter \in Bufs /\ pool \subseteq Bufs \ {mWriter}
  /\ readPos \in Nat /\ writePos \in Nat
  /\ readPos =< writePos /\ readPos < Size /\ writePos =< Size
  /\ mWritingSize \in Nat /\ left \in Nat /\ sent \in Nat
  /\ state \in {"Start", "End", "Broken"} /\ (state # "Start" => left = 0)
  /\ writes \in Seq(RegionRec)
  /\ \A k \in 1..Len(writes) : writes[k].from + writes[k].len =< Size
  /\ wire \in Seq(Nat)

\* Nobody fills what libuv has: the region's buffer is not in the pool, the writer is
\* beyond it, and the region that gives the buffer back is the buffer's last.
Owned ==
  \A k \in 1..Len(writes) :
    /\ writes[k].buf \notin pool
    /\ writes[k].buf = mWriter =>
         ~writes[k].last /\ writes[k].from + writes[k].len =< readPos
    /\ writes[k].last => \A j \in k + 1 .. Len(writes) : writes[j].buf # writes[k].buf

\* Region k holds the bytes behind byte pos[k], and the regions are adjacent.
Placed(pos) ==
  /\ pos \in [1 .. Len(writes) + 1 -> Nat]
  /\ \A k \in 1..Len(writes) :
       /\ pos[k + 1] = pos[k] + writes[k].len
       /\ Holds(writes[k].buf, writes[k].from, writes[k].len, pos[k])
  /\ \A k \in 1 .. Len(writes) + 1 : pos[k] =< pos[Len(writes) + 1]
  /\ mWritingSize = pos[Len(writes) + 1] - pos[1]
  /\ state # "Broken" => pos[1] = Len(wire) /\ pos[Len(writes) + 1] =< sent
  /\ state = "Start" =>
       /\ Holds(mWriter, readPos, writePos - readPos, pos[Len(writes) + 1])
       /\ pos[Len(writes) + 1] + writePos - readPos = sent

\* What was written is the beginning of what was sent, and what waits will be flushed.
Ends ==
  /\ wire = [i \in 1..Len(wire) |-> i] /\ Len(wire) =< sent
  /\ state = "Start" /\ readPos < writePos /\ left = 0 => link \in mNeedFlush

IInv == Types /\ Owned /\ (\E pos : Placed(pos)) /\ Ends

\* IInv says where every byte is.
LEMMA InvImplies == ASSUME Size \in Nat, IInv PROVE WritesInOrder
<1>. DEFINE n == Len(writes)
<1>1. PICK pos : Placed(pos)
  BY DEF IInv
<1>2. /\ n \in Nat /\ DOMAIN writes = 1..n /\ \A k \in 1..n : writes[k] \in RegionRec
  BY DEF IInv, Types
<1>3. ASSUME state # "Broken", NEW k \in 0..n PROVE EndOf(k) = pos[k + 1]
  <2>1. CASE k = 0
    BY <1>1, <1>3, <2>1 DEF EndOf, Placed
  <2>2. CASE k # 0
    <3>1. k \in 1..n /\ writes[k].len \in 1..writes[k].len
      BY <1>2, <2>2 DEF RegionRec
    <3>2. data[writes[k].buf][writes[k].from + writes[k].len] = pos[k] + writes[k].len
      BY <1>1, <3>1 DEF Placed, Holds
    <3>3. pos[k + 1] = pos[k] + writes[k].len
      BY <1>1, <3>1 DEF Placed
    <3>. QED  BY <2>2, <3>2, <3>3 DEF EndOf
  <2>. QED  BY <2>1, <2>2
<1>4. ASSUME state # "Broken", NEW k \in 1..n
      PROVE  Holds(writes[k].buf, writes[k].from, writes[k].len, EndOf(k - 1))
  <2>1. EndOf(k - 1) = pos[k]
    BY <1>2, <1>3, <1>4
  <2>. QED  BY <1>1, <2>1 DEF Placed
<1>5. state # "Broken" => EndOf(n) = pos[n + 1]
  BY <1>2, <1>3
<1>. QED  BY <1>1, <1>2, <1>4, <1>5 DEF WritesInOrder, IInv, Ends, Placed

-----------------------------------------------------------------------------
(* The invariant is inductive.                                             *)

LEMMA InitHolds == ASSUME Size \in Nat \ {0}, Init PROVE IInv
<1>1. Types
  BY DEF Init, Types
<1>2. writes = <<>> /\ Len(writes) = 0 /\ wire = <<>> /\ Len(wire) = 0
  BY DEF Init
<1>3. Owned
  BY <1>2 DEF Owned
<1>4. Placed([k \in {1} |-> 0])
  BY <1>2 DEF Init, Placed, Holds
<1>5. Ends
  BY <1>2 DEF Init, Ends
<1>. QED  BY <1>1, <1>3, <1>4, <1>5 DEF IInv

LEMMA PosType ==
  ASSUME Types, NEW pos, Placed(pos)
  PROVE  Len(writes) \in Nat /\ pos[1] \in Nat /\ pos[Len(writes) + 1] \in Nat
<1>1. Len(writes) \in Nat
  BY DEF Types
<1>2. 1 \in 1 .. Len(writes) + 1 /\ Len(writes) + 1 \in 1 .. Len(writes) + 1
  BY <1>1
<1>. QED  BY <1>1, <1>2 DEF Placed

\* A message is on its way, and nothing has moved.
LEMMA SendMsgStep ==
  ASSUME Size \in Nat \ {0}, MaxMsg \in Nat, IInv, NEW n \in 1..MaxMsg, SendMsg(n)
  PROVE  IInv'
<1>1. /\ left' \in Nat /\ left' > 0 /\ state = "Start"
      /\ UNCHANGED <<pool, data, link, state, mWriter, readPos, writePos, mWritingSize,
                     mNeedFlush, writes, sent, wire>>
  BY DEF SendMsg
<1>2. Types'
  BY <1>1 DEF IInv, Types
<1>3. Owned' /\ Ends'
  BY <1>1 DEF IInv, Owned, Ends
<1>4. ASSUME NEW pos, Placed(pos) PROVE Placed(pos)'
  BY <1>1, <1>4 DEF Placed, Holds
<1>. QED  BY <1>2, <1>3, <1>4 DEF IInv

\* The link is closed, and what waits in the writer is not asked for any more.
LEMMA CloseStep == ASSUME Size \in Nat \ {0}, IInv, Close PROVE IInv'
<1>1. /\ state = "Start" /\ state' = "End" /\ left = 0
      /\ UNCHANGED <<pool, data, link, mWriter, readPos, writePos, mWritingSize, left,
                     mNeedFlush, writes, sent, wire>>
  BY DEF Close
<1>2. Types'
  BY <1>1 DEF IInv, Types
<1>3. Owned' /\ Ends'
  BY <1>1 DEF IInv, Owned, Ends
<1>4. ASSUME NEW pos, Placed(pos) PROVE Placed(pos)'
  BY <1>1, <1>4 DEF Placed, Holds
<1>. QED  BY <1>2, <1>3, <1>4 DEF IInv

\* A step leaves the regions as they are, and what waits in the writer, now up to end,
\* lies behind them.
Filled(pos, end) ==
  /\ data' \in [Bufs -> [1..Size -> Nat]]
  /\ left' \in Nat /\ sent' \in Nat /\ sent =< sent' /\ state = "Start"
  /\ \A k \in 1..Len(writes) : \A i \in 1..writes[k].len :
       data'[writes[k].buf][writes[k].from + i] = pos[k] + i
  /\ \A i \in 1 .. end - readPos : data'[mWriter][readPos + i] = pos[Len(writes) + 1] + i
  /\ pos[Len(writes) + 1] + end - readPos = sent'

\* What is put comes behind what waits, and lies beyond every region libuv has.
LEMMA PutSteps ==
  ASSUME Size \in Nat \ {0}, IInv, NEW pos, Placed(pos), NEW n \in Nat,
         left > 0, n =< left, writePos + n =< Size, Put(n)
  PROVE  Filled(pos, writePos + n) /\ left' = left - n /\ sent' = sent + n
<1>0. Types
  BY DEF IInv
<1>1. /\ left' \in Nat /\ left' = left - n /\ sent' = sent + n /\ state = "Start"
      /\ sent \in Nat /\ writePos \in Nat /\ readPos \in Nat /\ readPos =< writePos
      /\ Size \in Nat
  BY <1>0 DEF Put, Types
<1>2. data' = [data EXCEPT ![mWriter] =
                 [i \in 1..Size |-> IF i \in writePos + 1 .. writePos + n
                                      THEN sent + i - writePos ELSE data[mWriter][i]]]
  BY DEF Put
<1>3. /\ \A b \in Bufs : b # mWriter => data'[b] = data[b]
      /\ \A i \in 1..Size : data'[mWriter][i] = IF i \in writePos + 1 .. writePos + n
                                   THEN sent + i - writePos ELSE data[mWriter][i]
      /\ data' \in [Bufs -> [1..Size -> Nat]]
  <2>1. /\ data \in [Bufs -> [1..Size -> Nat]] /\ mWriter \in Bufs
    BY <1>0 DEF Types
  <2>2. \A i \in 1..Size : i \in writePos + 1 .. writePos + n => sent + i - writePos \in Nat
    BY <1>1
  <2>3. [i \in 1..Size |-> IF i \in writePos + 1 .. writePos + n
                             THEN sent + i - writePos ELSE data[mWriter][i]] \in [1..Size -> Nat]
    BY <2>1, <2>2
  <2>. QED  BY <1>2, <2>1, <2>3
<1>4. Len(writes) \in Nat /\ \A k \in 1..Len(writes) : writes[k] \in RegionRec
  BY <1>0 DEF Types
<1>5. ASSUME NEW k \in 1..Len(writes), NEW i \in 1..writes[k].len
      PROVE  data'[writes[k].buf][writes[k].from + i] = pos[k] + i
  <2>1. data[writes[k].buf][writes[k].from + i] = pos[k] + i
    BY DEF Placed, Holds
  <2>2. /\ writes[k].buf \in Bufs /\ writes[k].from \in Nat /\ writes[k].len \in Nat
        /\ writes[k].from + writes[k].len =< Size
    BY <1>0, <1>4 DEF RegionRec, Types
  <2>3. CASE writes[k].buf = mWriter
    <3>1. writes[k].from + writes[k].len =< readPos
      BY <2>3 DEF IInv, Owned
    <3>2. /\ i \in Nat /\ 1 =< i /\ i =< writes[k].len
      BY <2>2
    <3>3. writes[k].from + i \in 1..Size /\ writes[k].from + i =< writePos
      BY <1>1, <2>2, <3>1, <3>2
    <3>4. writes[k].from + i \notin writePos + 1 .. writePos + n
      BY <1>1, <3>3
    <3>. QED  BY <1>3, <2>1, <2>3, <3>3, <3>4
  <2>. QED  BY <1>3, <2>1, <2>2, <2>3
<1>6. Len(writes) + 1 \in 1 .. Len(writes) + 1 /\ pos[Len(writes) + 1] \in Nat
  BY <1>4 DEF Placed
<1>7. pos[Len(writes) + 1] + writePos - readPos = sent
  BY <1>1 DEF Placed
<1>8. PICK end : end = writePos + n
  OBVIOUS
<1>9. ASSUME NEW i \in 1 .. end - readPos
      PROVE  data'[mWriter][readPos + i] = pos[Len(writes) + 1] + i
  <2>1. readPos + i \in 1..Size
    BY <1>1, <1>8
  <2>2. CASE i \in 1 .. writePos - readPos
    <3>1. data[mWriter][readPos + i] = pos[Len(writes) + 1] + i
      BY <1>1, <2>2 DEF Placed, Holds
    <3>2. readPos + i \notin writePos + 1 .. writePos + n
      BY <1>1, <2>2
    <3>. QED  BY <1>3, <2>1, <3>1, <3>2
  <2>3. CASE i \notin 1 .. writePos - readPos
    <3>1. readPos + i \in writePos + 1 .. writePos + n
      BY <1>1, <1>8, <2>3
    <3>2. data'[mWriter][readPos + i] = sent + (readPos + i) - writePos
      BY <1>3, <2>1, <3>1
    <3>. QED  BY <1>1, <1>6, <1>7, <3>2
  <2>. QED  BY <2>2, <2>3
<1>10. pos[Len(writes) + 1] + end - readPos = sent' /\ sent' \in Nat /\ sent =< sent'
  BY <1>1, <1>6, <1>7, <1>8
<1>11. /\ data' \in [Bufs -> [1..Size -> Nat]] /\ left' \in Nat /\ state = "Start"
       /\ left' = left - n /\ sent' = sent + n
  BY <1>1, <1>3
<1>12. \A k \in 1..Len(writes) : \A i \in 1..writes[k].len :
         data'[writes[k].buf][writes[k].from + i] = pos[k] + i
  BY <1>5
<1>13. Filled(pos, end)
  <2>1. \A i \in 1 .. end - readPos : data'[mWriter][readPos + i] = pos[Len(writes) + 1] + i
    BY <1>9
  <2>. QED  BY <1>10, <1>11, <1>12, <2>1 DEF Filled
<1>. QED  BY <1>11, <1>8, <1>13

\* The rest of a message fits.
LEMMA PutAllStep == ASSUME Size \in Nat \ {0}, IInv, PutAll PROVE IInv'
<1>0. Types
  BY DEF IInv
<1>1. /\ left \in Nat /\ left > 0 /\ writePos + left =< Size /\ Put(left)
      /\ writePos' = writePos + left /\ mNeedFlush' = mNeedFlush \cup {link}
      /\ UNCHANGED <<pool, link, state, mWriter, readPos, mWritingSize, writes, wire>>
      /\ writePos \in Nat /\ readPos \in Nat /\ sent \in Nat
  BY <1>0 DEF PutAll, Types
<1>2. PICK pos : Placed(pos)
  BY DEF IInv
<1>3. Filled(pos, writePos') /\ left' = left - left /\ sent' = sent + left
  BY <1>1, <1>2, PutSteps
<1>4. /\ data' \in [Bufs -> [1..Size -> Nat]]
      /\ left' \in Nat /\ sent' \in Nat /\ sent =< sent' /\ state = "Start"
      /\ \A k \in 1..Len(writes) : \A i \in 1..writes[k].len :
           data'[writes[k].buf][writes[k].from + i] = pos[k] + i
      /\ \A i \in 1 .. writePos' - readPos :
           data'[mWriter][readPos + i] = pos[Len(writes) + 1] + i
      /\ pos[Len(writes) + 1] + writePos' - readPos = sent'
  BY <1>3 DEF Filled
<1>5. Types'
  <2>1. /\ writePos' \in Nat /\ readPos' =< writePos' /\ writePos' =< Size
        /\ state' = "Start"
    BY <1>0, <1>1, <1>4 DEF Types
  <2>. QED  BY <1>0, <1>1, <1>4, <2>1 DEF Types
<1>6. Owned'
  BY <1>1 DEF IInv, Owned
<1>7. Placed(pos)'
  <2>1. /\ pos \in [1 .. Len(writes) + 1 -> Nat]
        /\ \A k \in 1..Len(writes) : pos[k + 1] = pos[k] + writes[k].len
        /\ \A k \in 1 .. Len(writes) + 1 : pos[k] =< pos[Len(writes) + 1]
        /\ mWritingSize = pos[Len(writes) + 1] - pos[1]
        /\ pos[1] = Len(wire) /\ pos[Len(writes) + 1] =< sent'
    <3>1. pos[1] = Len(wire) /\ pos[Len(writes) + 1] =< sent /\ pos[Len(writes) + 1] \in Nat
      BY <1>0, <1>2, <1>4, PosType DEF Placed
    <3>2. pos[Len(writes) + 1] =< sent'
      BY <1>1, <1>4, <3>1
    <3>. QED  BY <1>2, <3>1, <3>2 DEF Placed
  <2>2. pos[Len(writes) + 1] \in Nat
    BY <1>0, <1>2, PosType
  <2>. QED  BY <1>1, <1>4, <2>1, <2>2 DEF Placed, Holds
<1>8. Ends'
  <2>1. Len(wire) \in Nat /\ sent \in Nat
    BY <1>0 DEF Types
  <2>. QED  BY <1>1, <1>4, <2>1 DEF IInv, Ends
<1>. QED  BY <1>5, <1>6, <1>7, <1>8 DEF IInv

\* Nothing lies between two positions that are the same.
LEMMA NothingBetween ==
  ASSUME NEW a \in Nat, NEW b, b = a, NEW z \in Nat
  PROVE  z + b - a = z /\ z =< z /\ 1 .. b - a = {}
OBVIOUS

\* The writer's unread bytes go to libuv as they are; a writer that is full goes too,
\* and the next one comes from the pool.
LEMMA HandOverStep ==
  ASSUME Size \in Nat \ {0}, IInv, NEW pos, Placed(pos), NEW end \in Nat, HandOver(end),
         Filled(pos, end), readPos < end, end =< Size, UNCHANGED <<link, state, wire>>
  PROVE  IInv'
<1>. DEFINE n == Len(writes)
            w == [buf |-> mWriter, from |-> readPos, len |-> end - readPos, last |-> ~Keeps(end)]
<1>0. Types
  BY DEF IInv
<1>1. /\ n \in Nat /\ Len(writes) = n /\ \A k \in 1..n : writes[k] \in RegionRec
      /\ readPos \in Nat /\ mWriter \in Bufs /\ mWriter \notin pool /\ Size \in Nat
  BY <1>0 DEF Types
<1>2. /\ w \in RegionRec /\ w.buf = mWriter /\ w.from = readPos /\ w.len = end - readPos
      /\ w.last = ~(end < Size) /\ w.from + w.len = end
  BY <1>1 DEF RegionRec, Keeps
<1>. HIDE DEF w, n
<1>3. /\ writes' = Append(writes, w) /\ Len(writes') = n + 1 /\ writes' \in Seq(RegionRec)
      /\ \A k \in 1..n : writes'[k] = writes[k]
      /\ writes'[n + 1] = w
  <2>1. writes \in Seq(RegionRec)
    BY <1>0 DEF Types
  <2>. QED  BY <1>1, <1>2, <2>1 DEF HandOver, w
<1>4. mWritingSize' = mWritingSize + end - readPos
  BY DEF HandOver
<1>5. /\ readPos' \in Nat /\ writePos' = readPos' /\ readPos' < Size
      /\ mWriter' \in Bufs /\ pool' \subseteq pool /\ mWriter' \notin pool'
      /\ end < Size => readPos' = end /\ mWriter' = mWriter
      /\ ~(end < Size) => mWriter' \in pool
  <2>1. CASE end < Size
    BY <1>0, <1>1, <2>1 DEF HandOver, Keeps, Types
  <2>2. CASE ~(end < Size)
    BY <1>0, <1>1, <2>2 DEF HandOver, Keeps, NewWriter, Types
  <2>. QED  BY <2>1, <2>2
<1>6. Types'
  <2>1. mWritingSize' \in Nat
    BY <1>0, <1>1, <1>4 DEF Types
  <2>2. \A k \in 1..Len(writes') : writes'[k].from + writes'[k].len =< Size
    <3>1. \A k \in 1..n : writes'[k].from + writes'[k].len =< Size
      BY <1>0, <1>1, <1>3 DEF Types
    <3>2. writes'[n + 1].from + writes'[n + 1].len =< Size
      BY <1>2, <1>3
    <3>3. \A k \in 1 .. n + 1 : k \in 1..n \/ k = n + 1
      BY <1>1
    <3>. QED  BY <1>3, <3>1, <3>2, <3>3
  <2>3. pool' \subseteq Bufs \ {mWriter'}
    BY <1>0, <1>5 DEF Types
  <2>4. /\ wire' \in Seq(Nat) /\ state' = "Start" /\ writePos' \in Nat /\ readPos' =< writePos'
        /\ writePos' =< Size
    BY <1>0, <1>1, <1>5 DEF Types, Filled
  <2>5. data' \in [Bufs -> [1..Size -> Nat]] /\ left' \in Nat /\ sent' \in Nat
    BY DEF Filled
  <2>. QED  BY <1>3, <1>5, <2>5, <2>1, <2>2, <2>3, <2>4 DEF Types
<1>7. Owned'
  <2>1. ASSUME NEW k \in 1..n
        PROVE  /\ writes'[k].buf \notin pool'
               /\ writes'[k].buf = mWriter' =>
                    ~writes'[k].last /\ writes'[k].from + writes'[k].len =< readPos'
               /\ writes'[k].last => \A j \in k + 1 .. n + 1 : writes'[j].buf # writes'[k].buf
    <3>1. /\ writes[k].buf \notin pool
          /\ writes[k].buf = mWriter =>
               ~writes[k].last /\ writes[k].from + writes[k].len =< readPos
          /\ writes[k].last => \A j \in k + 1 .. n : writes[j].buf # writes[k].buf
      BY <1>1 DEF IInv, Owned
    <3>2. writes'[k] = writes[k] /\ writes[k].from \in Nat /\ writes[k].len \in Nat
      BY <1>1, <1>3 DEF RegionRec
    <3>3. writes[k].buf = mWriter' => writes[k].buf = mWriter /\ readPos' = end
      BY <1>5, <3>1
    <3>4. writes[k].last => \A j \in k + 1 .. n + 1 : writes'[j].buf # writes[k].buf
      <4>1. ASSUME NEW j \in k + 1 .. n + 1, writes[k].last PROVE writes'[j].buf # writes[k].buf
        <5>1. CASE j = n + 1
          BY <1>2, <1>3, <3>1, <4>1, <5>1
        <5>2. CASE j # n + 1
          <6>1. j \in k + 1 .. n /\ j \in 1..n
            BY <1>1, <4>1, <5>2
          <6>. QED  BY <1>3, <3>1, <4>1, <6>1
        <5>. QED  BY <5>1, <5>2
      <4>. QED  BY <4>1
    <3>5. writes[k].buf = mWriter' => writes[k].from + writes[k].len =< readPos'
      BY <1>1, <3>1, <3>2, <3>3
    <3>6. writes[k].buf \notin pool'
      BY <1>5, <3>1
    <3>. QED  BY <3>1, <3>2, <3>3, <3>4, <3>5, <3>6
  <2>2. /\ w.buf \notin pool'
        /\ w.buf = mWriter' => ~w.last /\ w.from + w.len =< readPos'
        /\ \A j \in n + 1 + 1 .. n + 1 : FALSE
    <3>1. \A j \in n + 1 + 1 .. n + 1 : FALSE
      BY <1>1
    <3>2. CASE end < Size
      <4>1. mWriter \notin pool' /\ readPos' = end
        BY <1>1, <1>5, <3>2
      <4>2. w.last = FALSE /\ w.buf = mWriter /\ w.from + w.len = end
        BY <1>2, <3>2
      <4>3. w.from + w.len =< readPos'
        BY <4>1, <4>2
      <4>. QED  BY <3>1, <4>1, <4>2, <4>3
    <3>3. CASE ~(end < Size)
      <4>1. mWriter' # mWriter
        BY <1>1, <1>5, <3>3
      <4>2. mWriter \notin pool'
        BY <1>1, <1>5
      <4>. QED  BY <1>2, <3>1, <4>1, <4>2
    <3>. QED  BY <3>2, <3>3
  <2>3. \A k \in 1 .. n + 1 : k \in 1..n \/ k = n + 1
    BY <1>1
  <2>. QED  BY <1>3, <2>1, <2>2, <2>3 DEF Owned
<1>8. PICK pos2 : pos2 = [k \in 1 .. n + 2 |-> IF k = n + 2 THEN sent' ELSE pos[k]]
  OBVIOUS
<1>9. Placed(pos2)'
  <2>0. /\ pos \in [1 .. n + 1 -> Nat] /\ mWritingSize = pos[n + 1] - pos[1]
        /\ \A k \in 1..n : pos[k + 1] = pos[k] + writes[k].len
        /\ \A k \in 1 .. n + 1 : pos[k] =< pos[n + 1]
        /\ pos[1] = Len(wire) /\ pos[n + 1] + end - readPos = sent' /\ sent' \in Nat
    BY <1>1 DEF Placed, Filled
  <2>1. /\ pos2 \in [1 .. n + 2 -> Nat] /\ pos2[n + 2] = sent'
        /\ \A k \in 1 .. n + 1 : pos2[k] = pos[k]
        /\ 1 \in 1 .. n + 1 /\ n + 1 \in 1 .. n + 1 /\ pos[1] \in Nat /\ pos[n + 1] \in Nat
    BY <1>1, <1>8, <2>0
  <2>2. \A k \in 1 .. n + 1 : pos2[k + 1] = pos2[k] + writes'[k].len
    <3>1. \A k \in 1..n : pos2[k + 1] = pos2[k] + writes'[k].len
      <4>1. ASSUME NEW k \in 1..n PROVE pos2[k + 1] = pos2[k] + writes'[k].len
        <5>1. k \in 1 .. n + 1 /\ k + 1 \in 1 .. n + 1
          BY <1>1
        <5>. QED  BY <1>3, <2>0, <2>1, <5>1
      <4>. QED  BY <4>1
    <3>2. pos2[n + 2] = pos2[n + 1] + writes'[n + 1].len
      <4>1. writes'[n + 1].len = end - readPos /\ pos2[n + 1] = pos[n + 1] /\ pos2[n + 2] = sent'
        BY <1>2, <1>3, <2>1
      <4>2. pos[n + 1] + end - readPos = sent' /\ pos[n + 1] \in Nat
        BY <2>0, <2>1
      <4>. QED  BY <1>1, <4>1, <4>2
    <3>3. \A k \in 1 .. n + 1 : k \in 1..n \/ k = n + 1
      BY <1>1
    <3>4. (n + 1) + 1 = n + 2
      BY <1>1
    <3>. QED  BY <3>1, <3>2, <3>3, <3>4
  <2>3. \A k \in 1 .. n + 1 : \A i \in 1..writes'[k].len :
          data'[writes'[k].buf][writes'[k].from + i] = pos2[k] + i
    <3>1. \A i \in 1..w.len : data'[w.buf][w.from + i] = pos2[n + 1] + i
      BY <1>1, <1>2, <2>1 DEF Filled
    <3>2. \A k \in 1..n : \A i \in 1..writes'[k].len :
            data'[writes'[k].buf][writes'[k].from + i] = pos2[k] + i
      <4>1. ASSUME NEW k \in 1..n, NEW i \in 1..writes'[k].len
            PROVE  data'[writes'[k].buf][writes'[k].from + i] = pos2[k] + i
        <5>1. writes'[k] = writes[k] /\ pos2[k] = pos[k]
          BY <1>1, <1>3, <2>1
        <5>. QED  BY <1>1, <4>1, <5>1 DEF Filled
      <4>. QED  BY <4>1
    <3>3. \A k \in 1 .. n + 1 : k \in 1..n \/ k = n + 1
      BY <1>1
    <3>. QED  BY <1>3, <3>1, <3>2, <3>3
  <2>4. \A k \in 1 .. n + 2 : pos2[k] =< pos2[n + 2]
    <3>1. \A k \in 1 .. n + 2 : k \in 1 .. n + 1 \/ k = n + 2
      BY <1>1
    <3>2. pos[n + 1] =< sent'
      BY <1>1, <2>0, <2>1
    <3>. QED  BY <2>0, <2>1, <3>1, <3>2
  <2>5. mWritingSize' = pos2[n + 2] - pos2[1]
    <3>1. mWritingSize = pos[n + 1] - pos[1] /\ pos2[1] = pos[1] /\ pos2[n + 2] = sent'
      BY <2>0, <2>1
    <3>2. pos[n + 1] + end - readPos = sent' /\ pos[n + 1] \in Nat /\ pos[1] \in Nat
      BY <2>0, <2>1
    <3>. QED  BY <1>1, <1>4, <3>1, <3>2
  <2>6. pos2[1] = Len(wire') /\ pos2[n + 2] =< sent' /\ pos2[n + 2] + writePos' - readPos' = sent'
    <3>1. readPos' \in Nat /\ writePos' \in Nat /\ writePos' = readPos' /\ sent' \in Nat
      BY <1>5, <2>0
    <3>2. sent' + writePos' - readPos' = sent' /\ sent' =< sent'
      BY <3>1, NothingBetween
    <3>. QED  BY <2>0, <2>1, <3>2
  <2>7. \A i \in 1 .. writePos' - readPos' : FALSE
    <3>1. readPos' \in Nat /\ writePos' \in Nat /\ writePos' = readPos'
      BY <1>5
    <3>2. 1 .. writePos' - readPos' = {}
      BY <3>1, NothingBetween
    <3>. QED  BY <3>2
  <2>8. Len(writes') + 1 = n + 2
    BY <1>1, <1>3
  <2>9. /\ Len(writes') = n + 1 /\ state' = "Start"
        /\ \A i \in 1 .. writePos' - readPos' :
             data'[mWriter'][readPos' + i] = pos2[n + 2] + i
        /\ \A k \in 1 .. n + 1 :
             /\ pos2[k + 1] = pos2[k] + writes'[k].len
             /\ \A i \in 1..writes'[k].len :
                  data'[writes'[k].buf][writes'[k].from + i] = pos2[k] + i
    BY <1>3, <2>2, <2>3, <2>7 DEF Filled
  <2>10. \A k \in 1..Len(writes') :
           /\ pos2[k + 1] = pos2[k] + writes'[k].len
           /\ Holds(writes[k].buf, writes[k].from, writes[k].len, pos2[k])'
    BY <2>9 DEF Holds
  <2>11. Holds(mWriter, readPos, writePos - readPos, pos2[Len(writes) + 1])'
    BY <2>8, <2>9 DEF Holds
  <2>. QED  BY <2>1, <2>4, <2>5, <2>6, <2>8, <2>9, <2>10, <2>11 DEF Placed
<1>10. Ends'
  <2>1. Len(wire) \in Nat /\ sent \in Nat /\ sent' \in Nat /\ sent =< sent'
    BY <1>0 DEF Types, Filled
  <2>2. wire' = [i \in 1..Len(wire') |-> i] /\ Len(wire') =< sent'
    BY <2>1 DEF IInv, Ends
  <2>3. ~(readPos' < writePos')
    BY <1>5
  <2>. QED  BY <2>2, <2>3 DEF Ends
<1>. QED  BY <1>6, <1>7, <1>9, <1>10 DEF IInv

\* A message does not fit: the buffer is filled and goes.
LEMMA PutSomeStep == ASSUME Size \in Nat \ {0}, IInv, PutSome PROVE IInv'
<1>1. /\ left > 0 /\ Size - writePos < left /\ Put(Size - writePos) /\ HandOver(Size)
      /\ UNCHANGED <<link, state, mNeedFlush, wire>>
  BY DEF PutSome
<1>2. /\ writePos \in Nat /\ readPos \in Nat /\ sent \in Nat /\ left \in Nat
      /\ readPos =< writePos /\ readPos < Size /\ writePos =< Size
  BY DEF IInv, Types
<1>3. PICK pos : Placed(pos)
  BY DEF IInv
<1>. DEFINE n == Size - writePos
<1>4. n \in Nat /\ n =< left /\ writePos + n = Size
  BY <1>1, <1>2
<1>5. Put(n)
  BY <1>1
<1>. HIDE DEF n
<1>6. Filled(pos, Size)
  <2>1. Filled(pos, writePos + n)
    BY <1>1, <1>3, <1>4, <1>5, PutSteps
  <2>2. writePos + n = Size
    BY <1>4
  <2>. QED  BY <2>1, <2>2
<1>. QED  BY <1>1, <1>2, <1>3, <1>6, HandOverStep

\* The flush of the frame, of a link that is noted or is not.
LEMMA FlushLinksStep == ASSUME Size \in Nat \ {0}, IInv, FlushLinks PROVE IInv'
<1>0. Types
  BY DEF IInv
<1>1. /\ left = 0 /\ mNeedFlush' = {}
      /\ UNCHANGED <<data, link, state, left, sent, wire>>
  BY DEF FlushLinks
<1>2. /\ writePos \in Nat /\ readPos \in Nat /\ sent \in Nat
      /\ readPos =< writePos /\ readPos < Size /\ writePos =< Size
  BY <1>0 DEF Types
<1>3. Unread # <<>> <=> readPos < writePos
  <2>1. data[mWriter] \in [1..Size -> Nat]
    BY <1>0 DEF Types
  <2>2. ASSUME readPos < writePos PROVE Len(Unread) > 0
    <3>. DEFINE s == data[mWriter]
    <3>1. PICK a : a = readPos + 1
      OBVIOUS
    <3>2. /\ a \in Int /\ a =< writePos /\ writePos \in Int /\ writePos - a + 1 > 0
          /\ \A i \in a..writePos : i \in 1..Size
      BY <1>2, <2>2, <3>1
    <3>3. \A i \in a..writePos : s[i] \in Nat
      BY <2>1, <3>2
    <3>. HIDE DEF s
    <3>4. Len(SubSeq(s, a, writePos)) = writePos - a + 1
      BY <3>2, <3>3, SubSeqProperties
    <3>. QED  BY <3>1, <3>2, <3>4 DEF Unread, s
  <2>3. readPos = writePos => Unread = <<>>
    <3>1. readPos = writePos => writePos \in Int /\ readPos + 1 \in Int /\ writePos < readPos + 1
      BY <1>2
    <3>. QED  BY <3>1, SubSeqEmpty DEF Unread
  <2>4. Len(<<>>) = 0
    OBVIOUS
  <2>. QED  BY <1>2, <2>2, <2>3, <2>4
<1>4. PICK pos : Placed(pos)
  BY DEF IInv
<1>5. CASE link \in mNeedFlush /\ state = "Start" /\ Unread # <<>>
  <2>1. HandOver(writePos) /\ readPos < writePos
    BY <1>3, <1>5 DEF FlushLinks
  <2>2. Filled(pos, writePos)
    <3>1. /\ \A k \in 1..Len(writes) : \A i \in 1..writes[k].len :
               data[writes[k].buf][writes[k].from + i] = pos[k] + i
          /\ \A i \in 1 .. writePos - readPos :
               data[mWriter][readPos + i] = pos[Len(writes) + 1] + i
          /\ pos[Len(writes) + 1] + writePos - readPos = sent
      BY <1>4, <1>5 DEF Placed, Holds
    <3>2. data \in [Bufs -> [1..Size -> Nat]] /\ left \in Nat
      BY <1>0 DEF Types
    <3>3. data' = data /\ left' = left /\ sent' = sent /\ sent =< sent' /\ state = "Start"
      BY <1>1, <1>2, <1>5
    <3>. QED  BY <1>2, <3>1, <3>2, <3>3 DEF Filled
  <2>. QED  BY <1>1, <1>2, <1>4, <1>5, <2>1, <2>2, HandOverStep
<1>6. CASE ~(link \in mNeedFlush /\ state = "Start" /\ Unread # <<>>)
  <2>1. UNCHANGED <<pool, mWriter, readPos, writePos, mWritingSize, writes>>
    BY <1>6 DEF FlushLinks
  <2>2. Types' /\ Owned'
    BY <1>1, <2>1 DEF IInv, Types, Owned
  <2>3. Placed(pos)'
    BY <1>1, <1>4, <2>1 DEF Placed, Holds
  <2>4. Ends'
    BY <1>1, <1>2, <1>3, <1>6, <2>1 DEF IInv, Ends
  <2>. QED  BY <2>2, <2>3, <2>4 DEF IInv
<1>. QED  BY <1>5, <1>6

\* The region libuv has written.
LEMMA RegionIs ==
  ASSUME Size \in Nat, Types, NEW w \in RegionRec, w.from + w.len =< Size
  PROVE  /\ Region(w) \in Seq(Nat) /\ Len(Region(w)) = w.len
         /\ \A i \in 1..w.len : Region(w)[i] = data[w.buf][w.from + i]
<1>1. /\ w.buf \in Bufs /\ w.from \in Nat /\ w.len \in Nat /\ w.len > 0
  BY DEF RegionRec
<1>2. data[w.buf] \in [1..Size -> Nat]
  BY <1>1 DEF Types
<1>. DEFINE s == data[w.buf]
<1>3. \A i \in 1..Size : s[i] \in Nat
  BY <1>2
<1>. HIDE DEF s
<1>4. PICK a, b : a = w.from + 1 /\ b = w.from + w.len
  OBVIOUS
<1>5. /\ a \in Int /\ b \in Int /\ a =< b /\ b - a + 1 = w.len
      /\ \A i \in a..b : i \in 1..Size
  BY <1>1, <1>4
<1>6. \A i \in 1..w.len : a + i - 1 = w.from + i
  BY <1>1, <1>4
<1>7. \A i \in a..b : s[i] \in Nat
  BY <1>3, <1>5
<1>8. /\ SubSeq(s, a, b) \in Seq(Nat) /\ Len(SubSeq(s, a, b)) = b - a + 1
      /\ \A i \in 1 .. b - a + 1 : SubSeq(s, a, b)[i] = s[a + i - 1]
  BY <1>5, <1>7, SubSeqProperties
<1>9. Region(w) = SubSeq(s, a, b)
  BY <1>4 DEF Region, s
<1>. QED  BY <1>5, <1>6, <1>8, <1>9 DEF s

\* What is still with libuv cannot be less than nothing.
LEMMA NotNegative == ASSUME NEW n \in Nat PROVE Max({0, n}) = n
<1>1. n \in {0, n} /\ \A y \in {0, n} : n >= y
  OBVIOUS
<1>2. \A x \in {0, n} : (\A y \in {0, n} : x >= y) => x = n
  OBVIOUS
<1>. QED  BY <1>1, <1>2 DEF Max

\* The first region goes, with its buffer if it was the last of it.  A writer that
\* starts from its beginning has nothing with libuv.
LEMMA WrittenStep == ASSUME Size \in Nat \ {0}, IInv, NEW ok \in BOOLEAN, Written(ok) PROVE IInv'
<1>. DEFINE n == Len(writes)
            w == writes[1]
            writing == mWritingSize - w.len
<1>0. Types
  BY DEF IInv
<1>1. /\ left = 0 /\ writes # <<>> /\ writes' = Tail(writes) /\ w = Head(writes)
      /\ UNCHANGED <<link, mWriter, left, mNeedFlush, sent>>
  BY <1>0 DEF Written, Types
<1>2. /\ n \in Nat /\ n >= 1 /\ Len(writes) = n /\ Len(writes') = n - 1
      /\ writes' \in Seq(RegionRec)
      /\ \A k \in 1..n : writes[k] \in RegionRec /\ writes[k].from + writes[k].len =< Size
      /\ \A k \in 1 .. n - 1 : k + 1 \in 1..n /\ writes'[k] = writes[k + 1]
      /\ 1 \in 1..n
  BY <1>0, <1>1 DEF Types
<1>3. /\ w \in RegionRec /\ w.buf \in Bufs /\ w.from \in Nat /\ w.len \in Nat /\ w.len > 0
      /\ w.from + w.len =< Size
  BY <1>2 DEF RegionRec
<1>4. /\ w.buf \notin pool
      /\ w.last => w.buf # mWriter
      /\ w.last => \A k \in 1 .. n - 1 : writes'[k].buf # w.buf
  <2>1. /\ w.buf \notin pool
        /\ w.buf = mWriter => ~w.last
        /\ w.last => \A j \in 1 + 1 .. n : writes[j].buf # w.buf
    BY <1>2 DEF IInv, Owned
  <2>2. \A k \in 1 .. n - 1 : k + 1 \in 1 + 1 .. n
    BY <1>2
  <2>. QED  BY <1>2, <2>1, <2>2
<1>5. PICK pos : Placed(pos)
  BY DEF IInv
<1>6. /\ pos \in [1 .. n + 1 -> Nat] /\ pos[1] \in Nat /\ pos[2] \in Nat /\ pos[n + 1] \in Nat
      /\ pos[2] = pos[1] + w.len /\ pos[2] =< pos[n + 1]
      /\ mWritingSize = pos[n + 1] - pos[1]
  <2>1. 1 \in 1..n /\ 2 \in 1 .. n + 1
    BY <1>2
  <2>2. /\ pos \in [1 .. n + 1 -> Nat] /\ pos[1 + 1] = pos[1] + w.len /\ pos[2] =< pos[n + 1]
        /\ mWritingSize = pos[n + 1] - pos[1]
    BY <1>5, <2>1 DEF Placed
  <2>. QED  BY <1>0, <1>5, <2>1, <2>2, PosType
<1>7. writing \in Nat /\ writing = pos[n + 1] - pos[2]
  BY <1>3, <1>6
<1>. HIDE DEF n, w, writing
<1>8. /\ mWritingSize' = writing
      /\ IF Idle(writing) THEN readPos' = 0 /\ writePos' = 0
                          ELSE UNCHANGED <<readPos, writePos>>
      /\ IF w.last THEN pool' = pool \cup {w.buf} /\ data' = Returned(w.buf)
                   ELSE UNCHANGED <<pool, data>>
      /\ IF ok THEN state # "Broken" /\ wire' = wire \o Region(w) /\ state' = state
               ELSE state' = "Broken" /\ wire' = wire
  <2>1. Max({0, writing}) = writing
    BY <1>7, NotNegative
  <2>. QED  BY <1>1, <2>1 DEF Written, writing
<1>9. Idle(writing) => n = 1 /\ readPos = writePos
  <2>1. SUFFICES ASSUME Idle(writing), n # 1 PROVE FALSE
    BY DEF Idle
  <2>2. 2 \in 1..n /\ 2 + 1 \in 1 .. n + 1 /\ writes[2].len \in Nat /\ writes[2].len > 0
    BY <1>2, <2>1 DEF RegionRec
  <2>3. pos[2 + 1] = pos[2] + writes[2].len /\ pos[2 + 1] =< pos[n + 1]
    BY <1>2, <1>5, <2>2 DEF Placed
  <2>. QED  BY <1>6, <1>7, <2>1, <2>2, <2>3 DEF Idle
<1>10. /\ readPos' \in Nat /\ writePos' \in Nat /\ readPos' =< writePos' /\ readPos' < Size
       /\ writePos' =< Size
       /\ \/ n = 1 /\ readPos = writePos /\ readPos' = 0 /\ writePos' = 0
          \/ readPos' = readPos /\ writePos' = writePos
  <2>1. CASE Idle(writing)
    BY <1>0, <1>8, <1>9, <2>1 DEF Types
  <2>2. CASE ~Idle(writing)
    BY <1>0, <1>8, <2>2 DEF Types
  <2>. QED  BY <2>1, <2>2
<1>11. /\ data' \in [Bufs -> [1..Size -> Nat]]
       /\ \A b \in Bufs : (w.last => b # w.buf) => data'[b] = data[b]
       /\ pool' \subseteq pool \cup {w.buf} /\ (~w.last => pool' = pool)
  <2>1. CASE w.last
    <3>1. pool' = pool \cup {w.buf} /\ data \in [Bufs -> [1..Size -> Nat]]
      BY <1>0, <1>8, <2>1 DEF Types
    <3>2. data' = [data EXCEPT ![w.buf] = [i \in 1..Size |-> 0]]
      BY <1>8, <2>1 DEF Returned
    <3>3. [i \in 1..Size |-> 0] \in [1..Size -> Nat]
      OBVIOUS
    <3>4. data' \in [Bufs -> [1..Size -> Nat]] /\ \A b \in Bufs : b # w.buf => data'[b] = data[b]
      BY <3>1, <3>2, <3>3
    <3>. QED  BY <2>1, <3>1, <3>4
  <2>2. CASE ~w.last
    BY <1>0, <1>8, <2>2 DEF Types
  <2>. QED  BY <2>1, <2>2
<1>12. mWriter \in Bufs /\ mWriter \notin pool' /\ pool' \subseteq Bufs /\ data'[mWriter] = data[mWriter]
  BY <1>0, <1>3, <1>4, <1>11 DEF Types
<1>13. ok => /\ Region(w) \in Seq(Nat) /\ Len(Region(w)) = w.len /\ pos[1] = Len(wire)
             /\ \A i \in 1..w.len : Region(w)[i] = Len(wire) + i
  <2>1. /\ Region(w) \in Seq(Nat) /\ Len(Region(w)) = w.len
        /\ \A i \in 1..w.len : Region(w)[i] = data[w.buf][w.from + i]
    BY <1>0, <1>3, RegionIs
  <2>2. \A i \in 1..w.len : data[w.buf][w.from + i] = pos[1] + i
    BY <1>2, <1>5 DEF Placed, Holds, w
  <2>3. ok => pos[1] = Len(wire)
    BY <1>5, <1>8 DEF Placed
  <2>. QED  BY <2>1, <2>2, <2>3
<1>. DEFINE region == Region(w)
<1>19. /\ wire' \in Seq(Nat) /\ Len(wire) \in Nat
       /\ ~ok => wire' = wire
       /\ ok => /\ Len(wire') = Len(wire) + w.len
                /\ \A i \in 1..Len(wire) : wire'[i] = wire[i]
                /\ \A i \in 1..w.len : wire'[Len(wire) + i] = Len(wire) + i
  <2>1. wire \in Seq(Nat) /\ Len(wire) \in Nat
    BY <1>0 DEF Types
  <2>2. CASE ok
    <3>1. /\ region \in Seq(Nat) /\ Len(region) = w.len /\ wire' = wire \o region
          /\ \A i \in 1..w.len : region[i] = Len(wire) + i
      BY <1>8, <1>13, <2>2
    <3>. HIDE DEF region
    <3>2. /\ wire \o region \in Seq(Nat) /\ Len(wire \o region) = Len(wire) + Len(region)
          /\ \A i \in 1 .. Len(wire) + Len(region) :
               (wire \o region)[i] = IF i =< Len(wire) THEN wire[i] ELSE region[i - Len(wire)]
      BY <2>1, <3>1
    <3>3. \A i \in 1..Len(wire) : wire'[i] = wire[i]
      BY <1>3, <2>1, <3>1, <3>2
    <3>4. ASSUME NEW i \in 1..w.len PROVE wire'[Len(wire) + i] = Len(wire) + i
      <4>1. /\ Len(wire) + i \in 1 .. Len(wire) + Len(region) /\ ~(Len(wire) + i =< Len(wire))
            /\ (Len(wire) + i) - Len(wire) = i
        BY <1>3, <2>1, <3>1
      <4>. QED  BY <3>1, <3>2, <4>1
    <3>. QED  BY <2>1, <2>2, <3>1, <3>2, <3>3, <3>4
  <2>3. CASE ~ok
    BY <1>8, <2>1, <2>3
  <2>. QED  BY <2>2, <2>3
<1>14. Types'
  <2>1. wire' \in Seq(Nat)
    BY <1>19
  <2>2. \A k \in 1..Len(writes') : writes'[k].from + writes'[k].len =< Size
    BY <1>2
  <2>3. state' \in {"Start", "End", "Broken"}
    BY <1>0, <1>8 DEF Types
  <2>4. pool' \subseteq Bufs \ {mWriter'} /\ mWriter' \in Bufs /\ mWritingSize' \in Nat
    BY <1>1, <1>7, <1>8, <1>12
  <2>5. left' \in Nat /\ left' = 0 /\ sent' \in Nat
    BY <1>0, <1>1 DEF Types
  <2>. QED  BY <1>2, <1>10, <1>11, <2>1, <2>2, <2>3, <2>4, <2>5 DEF Types
<1>15. Owned'
  <2>1. ASSUME NEW k \in 1 .. n - 1
        PROVE  /\ writes'[k].buf \notin pool'
               /\ writes'[k].buf = mWriter =>
                    ~writes'[k].last /\ writes'[k].from + writes'[k].len =< readPos'
               /\ writes'[k].last => \A j \in k + 1 .. n - 1 : writes'[j].buf # writes'[k].buf
    <3>1. /\ writes[k + 1].buf \notin pool
          /\ writes[k + 1].buf = mWriter =>
               ~writes[k + 1].last /\ writes[k + 1].from + writes[k + 1].len =< readPos
          /\ writes[k + 1].last => \A j \in k + 1 + 1 .. n : writes[j].buf # writes[k + 1].buf
      BY <1>2 DEF IInv, Owned
    <3>2. readPos' = readPos
      BY <1>2, <1>10
    <3>3. \A j \in k + 1 .. n - 1 : j \in 1 .. n - 1 /\ j + 1 \in k + 1 + 1 .. n
      BY <1>2
    <3>4. writes'[k].buf \notin pool'
      BY <1>2, <1>4, <1>11, <3>1
    <3>. QED  BY <1>2, <3>1, <3>2, <3>3, <3>4
  <2>. QED  BY <1>1, <1>2, <2>1 DEF Owned
<1>16. PICK pos2 : pos2 = [k \in 1..n |-> pos[k + 1]]
  OBVIOUS
<1>17. Placed(pos2)'
  <2>1. /\ pos2 \in [1..n -> Nat] /\ pos2[1] = pos[2] /\ pos2[n] = pos[n + 1]
        /\ \A k \in 1..n : pos2[k] = pos[k + 1]
        /\ Len(writes') + 1 = n
    <3>1. \A k \in 1..n : k + 1 \in 1 .. n + 1
      BY <1>2
    <3>2. 1 + 1 = 2 /\ 1 \in 1..n /\ n \in 1..n /\ Len(writes') + 1 = n
      BY <1>2
    <3>3. \A k \in 1..n : pos[k + 1] \in Nat
      BY <1>6, <3>1
    <3>. QED  BY <1>16, <3>2, <3>3
  <2>2. ASSUME NEW k \in 1 .. n - 1
        PROVE  /\ pos2[k + 1] = pos2[k] + writes'[k].len
               /\ \A i \in 1..writes'[k].len :
                    data'[writes'[k].buf][writes'[k].from + i] = pos2[k] + i
    <3>1. k \in 1..n /\ k + 1 \in 1..n /\ writes'[k] = writes[k + 1]
      BY <1>2
    <3>2. /\ pos[k + 1 + 1] = pos[k + 1] + writes[k + 1].len
          /\ \A i \in 1..writes[k + 1].len :
               data[writes[k + 1].buf][writes[k + 1].from + i] = pos[k + 1] + i
      BY <1>2, <1>5, <3>1 DEF Placed, Holds
    <3>3. data'[writes'[k].buf] = data[writes[k + 1].buf]
      <4>1. writes[k + 1].buf \in Bufs /\ (w.last => writes[k + 1].buf # w.buf)
        BY <1>2, <1>4, <3>1 DEF RegionRec
      <4>. QED  BY <1>11, <3>1, <4>1
    <3>. QED  BY <2>1, <3>1, <3>2, <3>3
  <2>3. \A k \in 1 .. n - 1 : /\ pos2[k + 1] = pos2[k] + writes'[k].len
                              /\ Holds(writes[k].buf, writes[k].from, writes[k].len, pos2[k])'
    BY <2>2 DEF Holds
  <2>4. \A k \in 1..n : pos2[k] =< pos2[n]
    <3>1. \A k \in 1..n : k + 1 \in 1 .. n + 1
      BY <1>2
    <3>. QED  BY <1>2, <1>5, <2>1, <3>1 DEF Placed
  <2>5. mWritingSize' = pos2[n] - pos2[1]
    BY <1>7, <1>8, <2>1
  <2>6. state' # "Broken" => pos2[1] = Len(wire') /\ pos2[n] =< sent'
    <3>1. SUFFICES ASSUME state' # "Broken" PROVE pos2[1] = Len(wire') /\ pos2[n] =< sent'
      OBVIOUS
    <3>2. ok /\ state # "Broken" /\ wire' = wire \o Region(w)
      BY <1>8, <3>1
    <3>3. pos[n + 1] =< sent
      BY <1>2, <1>5, <3>2 DEF Placed
    <3>4. Len(wire') = Len(wire) + w.len
      BY <1>19, <3>2
    <3>. QED  BY <1>1, <1>6, <1>13, <2>1, <3>2, <3>3, <3>4
  <2>7. state' = "Start" => /\ Holds(mWriter, readPos, writePos - readPos, pos2[Len(writes) + 1])'
                            /\ pos2[n] + writePos' - readPos' = sent'
    <3>1. SUFFICES ASSUME state' = "Start"
                   PROVE  /\ Holds(mWriter, readPos, writePos - readPos, pos2[Len(writes) + 1])'
                          /\ pos2[n] + writePos' - readPos' = sent'
      OBVIOUS
    <3>2. state = "Start"
      BY <1>8, <3>1
    <3>3. /\ \A i \in 1 .. writePos - readPos : data[mWriter][readPos + i] = pos[n + 1] + i
          /\ pos[n + 1] + writePos - readPos = sent
      BY <1>2, <1>5, <3>2 DEF Placed, Holds
    <3>4. ASSUME readPos' = readPos, writePos' = writePos
          PROVE  /\ \A i \in 1 .. writePos' - readPos' :
                      data'[mWriter'][readPos' + i] = pos2[n] + i
                 /\ pos2[n] + writePos' - readPos' = sent'
      BY <1>1, <1>12, <2>1, <3>3, <3>4
    <3>5. ASSUME readPos = writePos, readPos' = 0, writePos' = 0
          PROVE  /\ \A i \in 1 .. writePos' - readPos' :
                      data'[mWriter'][readPos' + i] = pos2[n] + i
                 /\ pos2[n] + writePos' - readPos' = sent'
      <4>1. readPos \in Nat /\ pos[n + 1] = sent
        <5>1. readPos \in Nat
          BY <1>0 DEF Types
        <5>2. pos[n + 1] + writePos - readPos = pos[n + 1]
          BY <1>6, <3>5, <5>1, NothingBetween
        <5>. QED  BY <3>3, <5>1, <5>2
      <4>2. \A i \in 1 .. 0 - 0 : FALSE
        OBVIOUS
      <4>3. pos[n + 1] + 0 - 0 = pos[n + 1]
        BY <1>6
      <4>. QED  BY <1>1, <2>1, <3>5, <4>1, <4>2, <4>3
    <3>6. /\ \A i \in 1 .. writePos' - readPos' : data'[mWriter'][readPos' + i] = pos2[n] + i
          /\ pos2[n] + writePos' - readPos' = sent'
      BY <1>10, <3>4, <3>5
    <3>7. Len(writes') + 1 = n
      BY <2>1
    <3>8. Holds(mWriter, readPos, writePos - readPos, pos2[Len(writes) + 1])'
      BY <3>6, <3>7 DEF Holds
    <3>. QED  BY <3>6, <3>8
  <2>8. n - 1 = Len(writes')
    BY <1>2
  <2>9. \A k \in 1..Len(writes') : /\ pos2[k + 1] = pos2[k] + writes'[k].len
                                  /\ Holds(writes[k].buf, writes[k].from, writes[k].len, pos2[k])'
    BY <2>3, <2>8
  <2>. QED  BY <2>1, <2>4, <2>5, <2>6, <2>7, <2>9 DEF Placed
<1>18. Ends'
  <2>1. wire' = [i \in 1..Len(wire') |-> i] /\ Len(wire') =< sent'
    <3>1. wire = [i \in 1..Len(wire) |-> i] /\ Len(wire) =< sent /\ wire \in Seq(Nat)
      BY <1>0 DEF IInv, Ends, Types
    <3>2. CASE ok
      <4>1. ASSUME NEW i \in 1..Len(wire') PROVE wire'[i] = i
        <5>1. CASE i \in 1..Len(wire)
          BY <1>19, <3>1, <3>2, <5>1
        <5>2. CASE i \notin 1..Len(wire)
          <6>1. i - Len(wire) \in 1..w.len /\ Len(wire) + (i - Len(wire)) = i
            BY <1>3, <1>19, <3>2, <5>2
          <6>2. wire'[Len(wire) + (i - Len(wire))] = Len(wire) + (i - Len(wire))
            BY <1>19, <3>2, <6>1
          <6>. QED  BY <6>1, <6>2
        <5>. QED  BY <5>1, <5>2
      <4>2. wire' = [i \in 1..Len(wire') |-> i]
        BY <1>19, <4>1
      <4>3. pos[n + 1] =< sent
        BY <1>2, <1>5, <1>8, <3>2 DEF Placed
      <4>4. Len(wire') = pos[2] /\ pos[2] =< pos[n + 1] /\ sent \in Nat
        BY <1>0, <1>6, <1>13, <1>19, <3>2 DEF Types
      <4>5. Len(wire') =< sent
        BY <1>6, <4>3, <4>4
      <4>. QED  BY <1>1, <4>2, <4>5
    <3>3. CASE ~ok
      BY <1>1, <1>8, <3>1, <3>3
    <3>. QED  BY <3>2, <3>3
  <2>2. state' = "Start" /\ readPos' < writePos' /\ left' = 0 => link' \in mNeedFlush'
    BY <1>1, <1>8, <1>10 DEF IInv, Ends
  <2>. QED  BY <2>1, <2>2 DEF Ends
<1>. QED  BY <1>14, <1>15, <1>17, <1>18 DEF IInv

\* The next life of the link begins with nothing of the last one.
LEMMA ReopenStep == ASSUME Size \in Nat \ {0}, IInv, Reopen PROVE IInv'
<1>0. Types
  BY DEF IInv
<1>1. /\ writes' = <<>> /\ Len(writes') = 0 /\ wire' = <<>> /\ Len(wire') = 0 /\ sent' = 0
      /\ state' = "Start" /\ mWritingSize' = 0 /\ left' = 0 /\ readPos' = 0 /\ writePos' = 0
  BY DEF Reopen, Connected
<1>2. /\ mWriter' \in Bufs /\ pool' \subseteq Bufs \ {mWriter'}
      /\ data' \in [Bufs -> [1..Size -> Nat]]
  BY <1>0 DEF Reopen, Returned, Types
<1>3. Types'
  BY <1>1, <1>2 DEF Types
<1>4. Owned' /\ Ends'
  BY <1>1 DEF Owned, Ends
<1>5. PICK pos : pos = [k \in {1} |-> 0]
  OBVIOUS
<1>6. Placed(pos)'
  BY <1>1, <1>5 DEF Placed, Holds
<1>. QED  BY <1>3, <1>4, <1>6 DEF IInv

LEMMA NextStep ==
  ASSUME Size \in Nat \ {0}, MaxMsg \in Nat, IInv, [Next]_vars PROVE IInv'
<1>1. ASSUME NEW n \in 1..MaxMsg, SendMsg(n) PROVE IInv'
  BY <1>1, SendMsgStep
<1>2. ASSUME NEW ok \in BOOLEAN, Written(ok) PROVE IInv'
  BY <1>2, WrittenStep
<1>3. CASE PutAll
  BY <1>3, PutAllStep
<1>4. CASE PutSome
  BY <1>4, PutSomeStep
<1>5. CASE FlushLinks
  BY <1>5, FlushLinksStep
<1>6. CASE Close
  BY <1>6, CloseStep
<1>7. CASE Reopen
  BY <1>7, ReopenStep
<1>8. CASE UNCHANGED vars
  <2>1. Types' /\ Owned' /\ Ends'
    BY <1>8 DEF IInv, Types, Owned, Ends, vars
  <2>2. ASSUME NEW pos, Placed(pos) PROVE Placed(pos)'
    BY <1>8, <2>2 DEF Placed, Holds, vars
  <2>. QED  BY <2>1, <2>2 DEF IInv
<1>. QED  BY <1>1, <1>2, <1>3, <1>4, <1>5, <1>6, <1>7, <1>8 DEF Next

-----------------------------------------------------------------------------
(* The theorem.                                                            *)

\* Whatever is put, handed over, written, given back and reused: what was written, what
\* libuv has and what waits are the bytes sent, in their order (LinkTcp::push_data,
\* flush_data and the callback of uv_write).
THEOREM AlwaysInOrder == Spec => []WritesInOrder
<1>1. Init => IInv
  BY InitHolds, SizeAssumption
<1>2. IInv /\ [Next]_vars => IInv'
  BY NextStep, SizeAssumption, MsgAssumption
<1>3. IInv => WritesInOrder
  BY InvImplies, SizeAssumption
<1>. QED  BY <1>1, <1>2, <1>3, PTL DEF Spec

-----------------------------------------------------------------------------
(* In: the stream cut anywhere.                                            *)

AP == INSTANCE MsgProtocol_proofs WITH Msgs <- AnyMsgs, Whole <- FALSE

\* What A and AP say of the stream is the same.
LEMMA AStream ==
  /\ A!Total = AP!Total /\ \A i : A!End(i) = AP!End(i) /\ A!Body(i) = AP!Body(i)
  /\ A!Stream <=> AP!Stream
  /\ A!Legal <=> AP!Legal
<1>1. /\ A!Total = AP!Total
      /\ \A i : A!End(i) = AP!End(i) /\ A!Body(i) = AP!Body(i)
  BY DEF A!Total, AP!Total, A!End, AP!End, A!Body, AP!Body
<1>2. A!Stream <=> AP!Stream
  BY <1>1 DEF A!Stream, AP!Stream, A!Widths, AP!Widths
<1>3. A!Legal <=> AP!Legal
  BY <1>1, <1>2 DEF A!Legal, AP!Legal
<1>. QED  BY <1>1, <1>2, <1>3

\* What they say of a pass.
LEMMA APass ==
  /\ A!Filled = AP!Filled /\ A!Passes = AP!Passes
  /\ A!HeadBad(A!Filled) <=> AP!HeadBad(AP!Filled)
  /\ A!HeadShort(A!Filled) <=> AP!HeadShort(AP!Filled)
  /\ \A s : A!Kept(s) = AP!Kept(s)
<1>1. A!Filled = AP!Filled
  BY DEF A!Filled, AP!Filled, A!Least, AP!Least, A!NoMsg, AP!NoMsg, A!HeadMax, AP!HeadMax,
      A!Bytes, AP!Bytes
<1>2. ASSUME NEW s PROVE A!Unread(s) = AP!Unread(s)
  BY DEF A!Unread, AP!Unread
<1>3. ASSUME NEW s PROVE A!WithBody(s) = AP!WithBody(s)
  <2>1. \A o : A!GiveBack(s, o) = AP!GiveBack(s, o)
    BY DEF A!GiveBack, AP!GiveBack, A!BackPos, AP!BackPos
  <2>2. \A n : A!Take(s, n) = AP!Take(s, n)
    BY DEF A!Take, AP!Take, A!Least, AP!Least, A!Bytes, AP!Bytes
  <2>. QED  BY <1>2, <2>1, <2>2 DEF A!WithBody, AP!WithBody
<1>4. ASSUME NEW s PROVE A!Begun(s) = AP!Begun(s)
  BY AStream DEF A!Begun, AP!Begun
<1>5. ASSUME NEW s PROVE A!Heads(s) = AP!Heads(s)
  BY <1>4, AStream DEF A!Heads, AP!Heads, A!Widths, AP!Widths
<1>6. ASSUME NEW s PROVE A!Unpacked(s) = AP!Unpacked(s)
  BY <1>2, <1>5 DEF A!Unpacked, AP!Unpacked
<1>7. A!Passes = AP!Passes
  <2>1. A!Unpacked(A!Filled) = AP!Unpacked(AP!Filled)
    BY <1>1, <1>6
  <2>. QED  BY <1>3, <2>1 DEF A!Passes, AP!Passes
<1>8. \A s : A!HeadBad(s) <=> AP!HeadBad(s)
  BY <1>4 DEF A!HeadBad, AP!HeadBad
<1>9. \A s : A!HeadShort(s) <=> AP!HeadShort(s)
  BY <1>2, <1>5 DEF A!HeadShort, AP!HeadShort
<1>10. \A s : A!Kept(s) = AP!Kept(s)
  BY DEF A!Kept, AP!Kept
<1>. QED  BY <1>1, <1>7, <1>8, <1>9, <1>10

\* And of the steps.
LEMMA ASteps ==
  /\ A!Init => AP!Init
  /\ A!Next => AP!Next
<1>1. A!Init => AP!Init
  BY DEF A!Init, AP!Init, A!NoMsg, AP!NoMsg
<1>2. A!Fail <=> AP!Fail
  BY DEF A!Fail, AP!Fail, A!NoMsg, AP!NoMsg
<1>3. \A r : A!Wait(r) <=> AP!Wait(r)
  BY DEF A!Wait, AP!Wait
<1>4. A!ReadBad => AP!ReadBad
  BY <1>2, APass DEF A!ReadBad, AP!ReadBad
<1>5. A!ReadShort => AP!ReadShort
  <2>1. A!Kept(A!Filled) = AP!Kept(AP!Filled)
    BY APass
  <2>. QED  BY <1>3, <2>1, APass DEF A!ReadShort, AP!ReadShort
<1>6. A!ReadPart => AP!ReadPart
  BY <1>3, APass DEF A!ReadPart, AP!ReadPart
<1>7. A!ReadMsg => AP!ReadMsg
  BY <1>2, APass DEF A!ReadMsg, AP!ReadMsg, A!ReadOn, AP!ReadOn, A!NoMsg, AP!NoMsg
<1>8. A!Read => AP!Read
  BY <1>4, <1>5, <1>6, <1>7 DEF A!Read, AP!Read, A!history, AP!history
<1>9. \A n : A!Receive(n) => AP!Receive(n)
  <2>1. \A b : A!AtEnd(b) <=> AP!AtEnd(b)
    BY AStream DEF A!AtEnd, AP!AtEnd
  <2>. QED  BY <2>1, AStream DEF A!Receive, AP!Receive
<1>10. A!Start => AP!Start
  BY DEF A!Start, AP!Start, A!NoMsg, AP!NoMsg, A!LastByte, AP!LastByte
<1>11. (A!CloseLink => AP!CloseLink) /\ (A!PeerGone => AP!PeerGone)
  BY DEF A!CloseLink, AP!CloseLink, A!PeerGone, AP!PeerGone, A!history, AP!history
<1>12. A!Next => AP!Next
  BY <1>8, <1>9, <1>10, <1>11, AStream DEF A!Next, AP!Next
<1>. QED  BY <1>1, <1>12

LEMMA ASays ==
  /\ AP!OnceInOrder => A!OnceInOrder
  /\ AP!SoundUntilTorn => A!SoundUntilTorn
  /\ AP!Framed /\ AP!NothingWithheld /\ AP!NeverRejected
       => A!Framed /\ A!NothingWithheld /\ A!NeverRejected
<1>1. AP!OnceInOrder => A!OnceInOrder
  BY DEF A!OnceInOrder, AP!OnceInOrder, A!LastByte, AP!LastByte
<1>2. \A i : A!MsgOf(i) = AP!MsgOf(i)
  BY AStream DEF A!MsgOf, AP!MsgOf, A!Bytes, AP!Bytes
<1>3. AP!SoundUntilTorn => A!SoundUntilTorn
  BY <1>2, AStream DEF A!SoundUntilTorn, AP!SoundUntilTorn
<1>4. AP!Framed => A!Framed
  BY <1>2 DEF A!Framed, AP!Framed
<1>5. AP!NothingWithheld /\ AP!NeverRejected => A!NothingWithheld /\ A!NeverRejected
  BY AStream DEF A!NothingWithheld, AP!NothingWithheld, A!NeverRejected, AP!NeverRejected
<1>. QED  BY <1>1, <1>3, <1>4, <1>5

-----------------------------------------------------------------------------
(* In: reads that end where messages end.                                  *)

WP == INSTANCE MsgProtocol_proofs WITH Msgs <- WholeMsgs, Whole <- TRUE

\* What W and WP say of the stream is the same.
LEMMA WStream ==
  /\ W!Total = WP!Total /\ \A i : W!End(i) = WP!End(i) /\ W!Body(i) = WP!Body(i)
  /\ W!Stream <=> WP!Stream
  /\ W!Legal <=> WP!Legal
<1>1. /\ W!Total = WP!Total
      /\ \A i : W!End(i) = WP!End(i) /\ W!Body(i) = WP!Body(i)
  BY DEF W!Total, WP!Total, W!End, WP!End, W!Body, WP!Body
<1>2. W!Stream <=> WP!Stream
  BY <1>1 DEF W!Stream, WP!Stream, W!Widths, WP!Widths
<1>3. W!Legal <=> WP!Legal
  BY <1>1, <1>2 DEF W!Legal, WP!Legal
<1>. QED  BY <1>1, <1>2, <1>3

\* What they say of a pass.
LEMMA WPass ==
  /\ W!Filled = WP!Filled /\ W!Passes = WP!Passes
  /\ W!HeadBad(W!Filled) <=> WP!HeadBad(WP!Filled)
  /\ W!HeadShort(W!Filled) <=> WP!HeadShort(WP!Filled)
  /\ \A s : W!Kept(s) = WP!Kept(s)
<1>1. W!Filled = WP!Filled
  BY DEF W!Filled, WP!Filled, W!Least, WP!Least, W!NoMsg, WP!NoMsg, W!HeadMax, WP!HeadMax,
      W!Bytes, WP!Bytes
<1>2. ASSUME NEW s PROVE W!Unread(s) = WP!Unread(s)
  BY DEF W!Unread, WP!Unread
<1>3. ASSUME NEW s PROVE W!WithBody(s) = WP!WithBody(s)
  <2>1. \A o : W!GiveBack(s, o) = WP!GiveBack(s, o)
    BY DEF W!GiveBack, WP!GiveBack, W!BackPos, WP!BackPos
  <2>2. \A n : W!Take(s, n) = WP!Take(s, n)
    BY DEF W!Take, WP!Take, W!Least, WP!Least, W!Bytes, WP!Bytes
  <2>. QED  BY <1>2, <2>1, <2>2 DEF W!WithBody, WP!WithBody
<1>4. ASSUME NEW s PROVE W!Begun(s) = WP!Begun(s)
  BY WStream DEF W!Begun, WP!Begun
<1>5. ASSUME NEW s PROVE W!Heads(s) = WP!Heads(s)
  BY <1>4, WStream DEF W!Heads, WP!Heads, W!Widths, WP!Widths
<1>6. ASSUME NEW s PROVE W!Unpacked(s) = WP!Unpacked(s)
  BY <1>2, <1>5 DEF W!Unpacked, WP!Unpacked
<1>7. W!Passes = WP!Passes
  <2>1. W!Unpacked(W!Filled) = WP!Unpacked(WP!Filled)
    BY <1>1, <1>6
  <2>. QED  BY <1>3, <2>1 DEF W!Passes, WP!Passes
<1>8. \A s : W!HeadBad(s) <=> WP!HeadBad(s)
  BY <1>4 DEF W!HeadBad, WP!HeadBad
<1>9. \A s : W!HeadShort(s) <=> WP!HeadShort(s)
  BY <1>2, <1>5 DEF W!HeadShort, WP!HeadShort
<1>10. \A s : W!Kept(s) = WP!Kept(s)
  BY DEF W!Kept, WP!Kept
<1>. QED  BY <1>1, <1>7, <1>8, <1>9, <1>10

\* And of the steps.
LEMMA WSteps ==
  /\ W!Init => WP!Init
  /\ W!Next => WP!Next
<1>1. W!Init => WP!Init
  BY DEF W!Init, WP!Init, W!NoMsg, WP!NoMsg
<1>2. W!Fail <=> WP!Fail
  BY DEF W!Fail, WP!Fail, W!NoMsg, WP!NoMsg
<1>3. \A r : W!Wait(r) <=> WP!Wait(r)
  BY DEF W!Wait, WP!Wait
<1>4. W!ReadBad => WP!ReadBad
  BY <1>2, WPass DEF W!ReadBad, WP!ReadBad
<1>5. W!ReadShort => WP!ReadShort
  <2>1. W!Kept(W!Filled) = WP!Kept(WP!Filled)
    BY WPass
  <2>. QED  BY <1>3, <2>1, WPass DEF W!ReadShort, WP!ReadShort
<1>6. W!ReadPart => WP!ReadPart
  BY <1>3, WPass DEF W!ReadPart, WP!ReadPart
<1>7. W!ReadMsg => WP!ReadMsg
  BY <1>2, WPass DEF W!ReadMsg, WP!ReadMsg, W!ReadOn, WP!ReadOn, W!NoMsg, WP!NoMsg
<1>8. W!Read => WP!Read
  BY <1>4, <1>5, <1>6, <1>7 DEF W!Read, WP!Read, W!history, WP!history
<1>9. \A n : W!Receive(n) => WP!Receive(n)
  <2>1. \A b : W!AtEnd(b) <=> WP!AtEnd(b)
    BY WStream DEF W!AtEnd, WP!AtEnd
  <2>. QED  BY <2>1, WStream DEF W!Receive, WP!Receive
<1>10. W!Start => WP!Start
  BY DEF W!Start, WP!Start, W!NoMsg, WP!NoMsg, W!LastByte, WP!LastByte
<1>11. (W!CloseLink => WP!CloseLink) /\ (W!PeerGone => WP!PeerGone)
  BY DEF W!CloseLink, WP!CloseLink, W!PeerGone, WP!PeerGone, W!history, WP!history
<1>12. W!Next => WP!Next
  BY <1>8, <1>9, <1>10, <1>11, WStream DEF W!Next, WP!Next
<1>. QED  BY <1>1, <1>12

LEMMA WSays ==
  /\ WP!OnceInOrder => W!OnceInOrder
  /\ WP!SoundUntilTorn => W!SoundUntilTorn
  /\ WP!Framed /\ WP!NothingWithheld /\ WP!NeverRejected
       => W!Framed /\ W!NothingWithheld /\ W!NeverRejected
<1>1. WP!OnceInOrder => W!OnceInOrder
  BY DEF W!OnceInOrder, WP!OnceInOrder, W!LastByte, WP!LastByte
<1>2. \A i : W!MsgOf(i) = WP!MsgOf(i)
  BY WStream DEF W!MsgOf, WP!MsgOf, W!Bytes, WP!Bytes
<1>3. WP!SoundUntilTorn => W!SoundUntilTorn
  BY <1>2, WStream DEF W!SoundUntilTorn, WP!SoundUntilTorn
<1>4. WP!Framed => W!Framed
  BY <1>2 DEF W!Framed, WP!Framed
<1>5. WP!NothingWithheld /\ WP!NeverRejected => W!NothingWithheld /\ W!NeverRejected
  BY WStream DEF W!NothingWithheld, WP!NothingWithheld, W!NeverRejected, WP!NeverRejected
<1>. QED  BY <1>1, <1>3, <1>4, <1>5

-----------------------------------------------------------------------------
(* The two directions together.                                            *)

FramingOrder == IF cut = "whole" THEN WP!Order ELSE AP!Order

FramingSound ==
  IF cut = "whole" THEN WP!SoundInv /\ WP!Complete ELSE AP!SoundInv /\ AP!Complete

LEMMA FramingStep ==
  ASSUME [FramingNext]_<<vars, cut, inVars>>
  PROVE  /\ cut' = cut
         /\ cut # "whole" => [AP!Next]_AP!vars
         /\ cut = "whole" => [WP!Next]_WP!vars
<1>1. CASE RunsAnywhere
  BY <1>1, ASteps DEF RunsAnywhere
<1>2. CASE RunsWhole
  BY <1>2, WSteps DEF RunsWhole
<1>3. CASE RunsOut \/ UNCHANGED <<vars, cut, inVars>>
  BY <1>3 DEF RunsOut, inVars, AP!vars, WP!vars
<1>. QED  BY <1>1, <1>2, <1>3 DEF FramingNext

LEMMA OrderHolds ==
  ASSUME AP!Stream, WP!Stream
  PROVE  /\ FramingInit => FramingOrder
         /\ FramingOrder /\ [FramingNext]_<<vars, cut, inVars>> => FramingOrder'
<1>1. ASSUME FramingInit PROVE FramingOrder
  <2>1. AP!Init /\ WP!Init
    BY <1>1, ASteps DEF FramingInit, A!Init, A!NoMsg, WP!Init, WP!NoMsg
  <2>. QED  BY <2>1, AP!InitHolds, WP!InitHolds DEF FramingOrder
<1>2. ASSUME FramingOrder, [FramingNext]_<<vars, cut, inVars>> PROVE FramingOrder'
  <2>1. CASE cut = "whole"
    <3>1. WP!Order /\ [WP!Next]_WP!vars /\ cut' = "whole"
      BY <1>2, <2>1, FramingStep DEF FramingOrder
    <3>2. WP!Order'
      BY <3>1, WP!OrderInductive
    <3>. QED  BY <3>1, <3>2 DEF FramingOrder
  <2>2. CASE cut # "whole"
    <3>1. AP!Order /\ [AP!Next]_AP!vars /\ cut' # "whole"
      BY <1>2, <2>2, FramingStep DEF FramingOrder
    <3>2. AP!Order'
      BY <3>1, AP!OrderInductive
    <3>. QED  BY <3>1, <3>2 DEF FramingOrder
  <2>. QED  BY <2>1, <2>2
<1>. QED  BY <1>1, <1>2

LEMMA SoundHolds ==
  ASSUME AP!Legal, WP!Legal
  PROVE  /\ FramingInit => FramingSound
         /\ FramingOrder /\ FramingOrder' /\ FramingSound /\ [FramingNext]_<<vars, cut, inVars>>
              => FramingSound'
<1>1. ASSUME FramingInit PROVE FramingSound
  <2>1. AP!Init /\ WP!Init
    BY <1>1, ASteps DEF FramingInit, A!Init, A!NoMsg, WP!Init, WP!NoMsg
  <2>2. AP!Complete /\ WP!Complete
    BY <2>1 DEF AP!Complete, WP!Complete, WP!Init
  <2>. QED  BY <2>1, <2>2, AP!SoundInit, WP!SoundInit DEF FramingSound
<1>2. ASSUME FramingOrder, FramingOrder', FramingSound, [FramingNext]_<<vars, cut, inVars>>
      PROVE  FramingSound'
  <2>1. CASE cut = "whole"
    <3>1. /\ WP!Order /\ WP!Order' /\ WP!SoundInv /\ WP!Complete /\ [WP!Next]_WP!vars
          /\ cut' = "whole"
      BY <1>2, <2>1, FramingStep DEF FramingOrder, FramingSound
    <3>2. WP!SoundInv' /\ WP!Complete'
      BY <3>1, WP!SoundInductive
    <3>. QED  BY <3>1, <3>2 DEF FramingSound
  <2>2. CASE cut # "whole"
    <3>1. /\ AP!Order /\ AP!Order' /\ AP!SoundInv /\ AP!Complete /\ [AP!Next]_AP!vars
          /\ cut' # "whole"
      BY <1>2, <2>2, FramingStep DEF FramingOrder, FramingSound
    <3>2. AP!SoundInv' /\ AP!Complete'
      BY <3>1, AP!SoundInductive
    <3>. QED  BY <3>1, <3>2 DEF FramingSound
  <2>. QED  BY <2>1, <2>2
<1>. QED  BY <1>1, <1>2

\* For any two streams of messages, whatever the bodies hold: however the reads cut the
\* stream and however often the pooled link is used again, no byte is given on twice or
\* before one that arrived earlier, and none but the first piece of a connection holds
\* bytes of an earlier one.
THEOREM AlwaysOnce ==
  ASSUME A!Stream, W!Stream
  PROVE  FramingSpec => []NeverTwice
<1>1. FramingOrder => NeverTwice
  BY ASays, WSays DEF FramingOrder, NeverTwice, AP!Order, WP!Order
<1>2. AP!Stream /\ WP!Stream
  BY AStream, WStream
<1>. QED  BY <1>1, <1>2, OrderHolds, PTL DEF FramingSpec

\* If no body is empty: on a connection that begins with nothing left, all messages that
\* arrived completely by the end of the first read that ends inside one are given on as
\* they are, and nothing goes wrong before that read.
THEOREM AlwaysGoodUntilTorn ==
  ASSUME A!Legal, W!Legal
  PROVE  FramingSpec => []GoodUntilTorn
<1>1. AP!Legal /\ WP!Legal /\ AP!Stream /\ WP!Stream
  BY AStream, WStream DEF AP!Legal, WP!Legal
<1>2. FramingOrder /\ FramingSound => GoodUntilTorn
  BY <1>1, ASays, WSays, AP!SoundShows, WP!SoundShows DEF FramingOrder, FramingSound, GoodUntilTorn
<1>. QED  BY <1>1, <1>2, OrderHolds, SoundHolds, PTL DEF FramingSpec

\* And where reads end with messages, all are given on whole, in order and at once, and
\* none is taken for a protocol error.
THEOREM AlwaysDeliversWhole ==
  ASSUME A!Legal, W!Legal
  PROVE  FramingSpec => []DeliversWhole
<1>1. AP!Legal /\ WP!Legal /\ AP!Stream /\ WP!Stream
  BY AStream, WStream DEF AP!Legal, WP!Legal
<1>2. FramingOrder /\ FramingSound => DeliversWhole
  <2>. SUFFICES ASSUME WP!Order, WP!SoundInv, WP!Complete
                PROVE  W!Framed /\ W!NothingWithheld /\ W!NeverRejected
    BY DEF FramingOrder, FramingSound, DeliversWhole
  <2>1. WP!Framed /\ WP!NothingWithheld /\ WP!NeverRejected
    BY <1>1, WP!WholeShows
  <2>. QED  BY <2>1, WSays
<1>. QED  BY <1>1, <1>2, OrderHolds, SoundHolds, PTL DEF FramingSpec
=============================================================================
