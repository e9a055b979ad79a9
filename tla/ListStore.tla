------------------------------ MODULE ListStore ------------------------------
(***************************************************************************)
(* What the lists of LevelConnector promise, without their keys: a name    *)
(* has a sequence of data, and each operation makes of them what is said   *)
(* here.  An operation of several deletes may have broken off.             *)
(***************************************************************************)
EXTENDS Integers, SequencesExt

CONSTANT Names

VARIABLE lists   \* by name: the sequence

Init == lists = [n \in Names |-> <<>>]

-----------------------------------------------------------------------------
(* What is left of a sequence.                                             *)

\* What is left of s when only the elements at some indices stay.
Kept(s, keep) ==
  [j \in 1..Cardinality(keep) |-> s[CHOOSE i \in keep : Cardinality({k \in keep : k < i}) = j - 1]]

Subsequences(s) == {Kept(s, keep) : keep \in SUBSET DOMAIN s}

\* Some first elements are gone.
WithoutFirst(s) == {SubSeq(s, i, Len(s)) : i \in 1..(Len(s) + 1)}

\* The index from the left, or from the right if it is negative.
Place(s, idx) == IF idx >= 0 THEN idx + 1 ELSE Len(s) + 1 + idx

-----------------------------------------------------------------------------
(* The operations.                                                         *)

Same == UNCHANGED lists

\* One list becomes s, and no other changes.
Only(n, s) == lists' = [lists EXCEPT ![n] = s]

Push(n, d, left) == Only(n, IF left THEN <<d>> \o lists[n] ELSE Append(lists[n], d))

Pop(n, left) == lists[n] # <<>> /\ Only(n, IF left THEN Tail(lists[n]) ELSE Front(lists[n]))

Set(n, idx, d) ==
  /\ Place(lists[n], idx) \in DOMAIN lists[n]
  /\ Only(n, ReplaceAt(lists[n], Place(lists[n], idx), d))

\* The first elements that equal d go, count of them at most.
Del(n, count, d) ==
  LET s == lists[n] IN
  \E gone \in SUBSET {i \in DOMAIN s : s[i] = d} :
    /\ Cardinality(gone) <= count
    /\ \A i \in gone : \A j \in 1..(i - 1) : s[j] = d => j \in gone
    /\ Only(n, Kept(s, DOMAIN s \ gone))

Drop(n) == \E s \in WithoutFirst(lists[n]) : Only(n, s)

\* What is before the interval goes and then what is behind it, each from its first
\* element on.  Of every other list some first elements may go: see LevelStore.
Trim(n, start, end) ==
  LET s == lists[n]
      i == Place(s, start)
      j == Place(s, end)
      onTheWay == {SubSeq(s, from, Len(s)) : from \in 1..i}
      behind(rest) == Kept(s, {x \in i..Len(s) : x <= j \/ x >= rest})
  IN /\ i \in DOMAIN s /\ j \in DOMAIN s
     /\ DOMAIN lists' = Names
     /\ lists'[n] \in onTheWay \cup {behind(rest) : rest \in (j + 1)..(Len(s) + 1)}
     /\ \A m \in Names \ {n} : lists'[m] \in WithoutFirst(lists[m])

\* Any elements of any lists go: see hdrop of LevelStore.
Lose == DOMAIN lists' = Names /\ \A m \in Names : lists'[m] \in Subsequences(lists[m])
==============================================================================
