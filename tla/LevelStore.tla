------------------------------ MODULE LevelStore ------------------------------
(***************************************************************************)
(* LevelConnector: values, hashes and lists in one ordered map of LevelDB. *)
(* A key is its bytes: the type, the name, a terminator, and the rest; a   *)
(* name is one byte here, and a field of a hash any bytes.  A list has no  *)
(* head or tail stored: the keys of its elements are numbers, counted up   *)
(* on the right of a middle and down on its left.                          *)
(*                                                                         *)
(* An operation of several deletes may break off between two of them: the  *)
(* write fails, or the process ends; the map is what is on the disk.  The  *)
(* store is open.  vmset, hmset and smset are left out: the keys of their  *)
(* batches refer to strings that are gone, and what they write is          *)
(* undefined.                                                              *)
(***************************************************************************)
EXTENDS Integers, SequencesExt

CONSTANTS
  Names,          \* a byte each
  Fields,         \* of a hash: sequences of bytes
  Datas,
  Mid, Top,       \* 0x80 and 0xff: where counting starts, and where a digit carries
  Width,          \* digits of a list key
  Indices,        \* bound: where elements are set and lists are trimmed
  MaxKeys         \* bound: keys in the store

VARIABLE db   \* the map of LevelDB

ELevelValue == 1
ELevelHash  == 2
ELevelList  == 3

ValueKey(n)    == <<ELevelValue, n>>
HashKey(n, f)  == <<ELevelHash, n, 0>> \o f
ListKey(n, ds) == <<ELevelList, n, 0>> \o ds
StartKey(n)    == <<ELevelList, n, 0>>
EndKey(n)      == <<ELevelList, n, 1>>

\* What is behind the name: the field of a hash, the number of an element.
Rest(key) == SubSeq(key, 4, Len(key))

\* The order of LevelDB: bytewise, a prefix first.
Before(a, b) ==
  \E i \in 1..Len(b) :
    /\ i <= Len(a) + 1 /\ (i \in DOMAIN a => a[i] < b[i])
    /\ \A j \in 1..(i - 1) : a[j] = b[j]

\* The keys of a set as an iterator comes to them.
InOrder(ks) ==
  CHOOSE seq \in [1..Cardinality(ks) -> ks] : \A j \in DOMAIN seq : \A i \in 1..(j - 1) : Before(seq[i], seq[j])

\* level_range, forward: the keys from start to end, end excluded.
Between(start, end) == {k \in DOMAIN db : ~Before(k, start) /\ Before(k, end)}

ListKeys(n) == InOrder(Between(StartKey(n), EndKey(n)))

Init == db = <<>>

-----------------------------------------------------------------------------
(* Keys of a list.                                                         *)

FirstDigits(forward) ==
  [i \in 1..Width |-> IF i < Width THEN Mid ELSE IF forward THEN Mid + 1 ELSE Mid - 1]

\* Bound: no list of an instance gets as far as the last number, behind which
\* calc_list_next_key finds nothing: with eight digits of 126 numbers each, none does.
LastDigits == [i \in 1..Width |-> Top - 1]

\* Which side of the middle a key is on; no key is the middle itself.
IsForward(ds) == \E i \in 1..Width : ds[i] > Mid /\ \A j \in 1..(i - 1) : ds[j] = Mid

\* The digit that counts: the last one that neither comes up to Top nor down to 0.
Counts(ds, forward) == SelectLastInSeq(ds, LAMBDA d : IF forward THEN d + 1 < Top ELSE d - 1 > 0)

\* Mutant of Carried: the last digit is set back and the others stay.
CarriedNever(ds, forward, fill) ==
  [ds EXCEPT ![Width] = IF Counts(ds, forward) # Width THEN fill
                        ELSE IF forward THEN @ + 1 ELSE @ - 1]

\* The digits behind the one that counts are filled anew.
Carried(ds, forward, fill) ==
  LET at == Counts(ds, forward) IN
  [i \in 1..Width |->
     IF i < at THEN ds[i]
     ELSE IF i > at THEN fill
     ELSE IF forward THEN ds[i] + 1 ELSE ds[i] - 1]

\* calc_list_key: the key to push at this end, <<>> when all are used up.
NextDigits(ds, forward) ==
  IF IsForward(ds) # forward THEN FirstDigits(forward)
  ELSE IF Counts(ds, forward) = 0 THEN <<>>
  ELSE Carried(ds, forward, Mid)

\* Mutant of AfterKey: the range ends before its last element.
AfterKeyItself(key) == key

\* calc_list_next_key: a key behind this one and not behind the next of the list.
\* That the digits are used up goes unnoticed: they are all 0 then.
AfterKey(key) == SubSeq(key, 1, 3) \o Carried(Rest(key), TRUE, 0)

\* real_lget: the key at an index, from the right if it is negative; <<>> for none.
KeyAt(n, idx) ==
  LET ks == ListKeys(n)
      i == IF idx >= 0 THEN idx + 1 ELSE Len(ks) + 1 + idx
  IN IF i \in DOMAIN ks THEN ks[i] ELSE <<>>

-----------------------------------------------------------------------------
(* Writing.                                                                *)

Put(ks, d) == db' = [k \in DOMAIN db \cup ks |-> IF k \in ks THEN d ELSE db[k]]
Delete(ks) == db' = [k \in DOMAIN db \ ks |-> db[k]]

\* Deletes one by one: some first of them are made.
DeleteEach(seq) == \E done \in 0..Len(seq) : Delete({seq[i] : i \in 1..done})

Room(ks) == Cardinality(DOMAIN db \cup ks) <= MaxKeys

\* vset; vdel and vmdel, which is one batch.
VSet(n, d) == Room({ValueKey(n)}) /\ Put({ValueKey(n)}, d)
VDel(ns) == Delete({ValueKey(n) : n \in ns})

\* hset, and sset, whose data is empty; hdel and hmdel.
HSet(n, f, d) == Room({HashKey(n, f)}) /\ Put({HashKey(n, f)}, d)
HDel(n, fs) == Delete({HashKey(n, f) : f \in fs})

\* hdrop deletes the fields of the hash as if they were keys of the store: the hash
\* stays, and a value, a field or a list element goes whose key is one of its fields.
HDrop(n) ==
  LET ks == InOrder(Between(<<ELevelHash, n, 0>>, <<ELevelHash, n, 1>>))
  IN DeleteEach([i \in DOMAIN ks |-> Rest(ks[i])])

LSet(n, idx, d) == KeyAt(n, idx) # <<>> /\ Put({KeyAt(n, idx)}, d)

LPush(n, d, left) ==
  LET end == KeyAt(n, IF left THEN 0 ELSE -1)
      ds == IF end = <<>> THEN FirstDigits(~left) ELSE NextDigits(Rest(end), ~left)
  IN ds \notin {<<>>, LastDigits} /\ Room({ListKey(n, ds)}) /\ Put({ListKey(n, ds)}, d)

LPop(n, left) ==
  LET end == KeyAt(n, IF left THEN 0 ELSE -1) IN end # <<>> /\ Delete({end})

\* The first count elements that equal d.
LDel(n, count, d) ==
  LET found == InOrder({k \in Between(StartKey(n), EndKey(n)) : db[k] = d})
  IN DeleteEach(SubSeq(found, 1, IF count < Len(found) THEN count ELSE Len(found)))

\* Everything before the first key and behind the last one goes, of this list and of
\* all that is in the store: the two ranges are not bounded by the name.
LTrim(n, start, end) ==
  LET s == KeyAt(n, start)
      e == KeyAt(n, end)
  IN /\ s # <<>> /\ e # <<>>
     /\ LET after == AfterKey(e)
            before == {k \in DOMAIN db : Before(k, s)}
            behind == {k \in DOMAIN db : ~Before(k, after)}
        IN DeleteEach(InOrder(before) \o InOrder(behind))

LDrop(n) == DeleteEach(ListKeys(n))

-----------------------------------------------------------------------------
Next ==
  \E n \in Names :
    \/ HDrop(n) \/ LDrop(n)
    \/ \E left \in BOOLEAN : LPop(n, left) \/ \E d \in Datas : LPush(n, d, left)
    \/ \E i, j \in Indices : LTrim(n, i, j)
    \/ \E d \in Datas : (\E i \in Indices : LSet(n, i, d)) \/ \E c \in 1..2 : LDel(n, c, d)
    \/ \E d \in Datas : VSet(n, d) \/ \E f \in Fields : HSet(n, f, d)
    \/ \E fs \in (SUBSET Fields) \ {{}} : HDel(n, fs)
    \/ \E ns \in (SUBSET Names) \ {{}} : VDel(ns)

Spec == Init /\ [][Next]_db

-----------------------------------------------------------------------------
DataOf(ks) == [i \in DOMAIN ks |-> db[ks[i]]]
ListOf(n) == DataOf(ListKeys(n))

Lists == INSTANCE ListStore WITH lists <- [n \in Names |-> ListOf(n)]

\* What each operation that changes anything makes of the lists.
OnLists == db' # db =>
  \A n \in Names :
    /\ \A left \in BOOLEAN :
         /\ LPop(n, left) => Lists!Pop(n, left)
         /\ \A d \in Datas : LPush(n, d, left) => Lists!Push(n, d, left)
    /\ \A d \in Datas :
         /\ \A i \in Indices : LSet(n, i, d) => Lists!Set(n, i, d)
         /\ \A c \in 1..2 : LDel(n, c, d) => Lists!Del(n, c, d)
         /\ VSet(n, d) \/ (\E f \in Fields : HSet(n, f, d)) => Lists!Same
    /\ \A i, j \in Indices : LTrim(n, i, j) => Lists!Trim(n, i, j)
    /\ LDrop(n) => Lists!Drop(n)
    /\ HDrop(n) => Lists!Lose
    /\ (\E fs \in SUBSET Fields : HDel(n, fs)) => Lists!Same
    /\ (\E ns \in SUBSET Names : VDel(ns)) => Lists!Same

\* The keys keep the elements of every list in the order of the pushes and pops at its
\* two ends, on either side of the middle.  Every operation makes of its list what it
\* should and leaves every other list as it is, but ltrim, by which other lists lose
\* first elements, and hdrop, by which any list may lose elements.
ListsImplement == Lists!Init /\ [][OnLists]_db

\* lrange: from the key of the first index to behind the key of the last one.
LRange(n, start, end) ==
  LET s == KeyAt(n, start)
      e == KeyAt(n, end)
  IN IF s = <<>> \/ e = <<>> THEN <<>>
     ELSE DataOf(InOrder(Between(s, AfterKey(e))))

\* A range holds exactly the elements between its two indices, however the digits of
\* their keys carry.
RangesAgree ==
  \A n \in Names : LET whole == ListOf(n) IN
    \A i, j \in DOMAIN whole : LRange(n, i - 1, j - 1) = SubSeq(whole, i, j)
===============================================================================
