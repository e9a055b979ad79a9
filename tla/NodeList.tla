------------------------------ MODULE NodeList ------------------------------
(***************************************************************************)
(* The intrusive lists of PureCore (NodeList.cpp), which carry the queues  *)
(* of the worker threads, the timers' slots and the allocators' chunks.  A *)
(* node has two pointers and does not know which list it is in; a list is  *)
(* two nodes of its own, before the first and behind the last.  Pointers   *)
(* are numbers: 0 is null, and list l has the nodes -2l and -2l-1.         *)
(***************************************************************************)
EXTENDS Integers, FiniteSets, SequencesExt

CONSTANTS
    Nodes,   \* numbers from 1
    Lists,   \* numbers from 1
    Temp     \* the list on the stack of swap()

VARIABLE p   \* pre and next of every node

Null == 0
HeadOf(l) == -2 * l
TailOf(l) == -2 * l - 1
Points == Nodes \cup UNION {{HeadOf(l), TailOf(l)} : l \in Lists \cup {Temp}}

\* a is followed by b: the two assignments that join them, where there is a node.
Join(q, a, b) ==
    [next |-> [x \in Points |-> IF x = a THEN b ELSE q.next[x]],
     pre  |-> [x \in Points |-> IF x = b THEN a ELSE q.pre[x]]]

\* Node::leave, which joins the two neighbours
Left(q, n) ==
    LET j == Join(q, q.pre[n], q.next[n])
    IN  [next |-> [j.next EXCEPT ![n] = Null], pre |-> [j.pre EXCEPT ![n] = Null]]

\* NodeList::clear: what was in the list stays joined, without its ends.
Cleared(q, l) == Join(Left(Left(q, HeadOf(l)), TailOf(l)), HeadOf(l), TailOf(l))

IsEmpty(q, l) == q.next[HeadOf(l)] = TailOf(l)
FirstOf(q, l) == q.next[HeadOf(l)]
LastOf(q, l) == q.pre[TailOf(l)]

PushedFront(q, l, n) == Join(Join(q, n, FirstOf(q, l)), HeadOf(l), n)
PushedBack(q, l, n) == Join(Join(q, LastOf(q, l), n), n, TailOf(l))

\* Mutant of Emptied: the list that gave its nodes away is not cleared.
NotEmptied(q, m) == q

\* The list whose nodes go to another is cleared first, even if it is the same; the
\* other may be empty, its last node then being its head.
Emptied(q, m) == Cleared(q, m)

\* push_front_list and push_back_list of m to l.
SplicedFront(q, l, m) ==
    IF IsEmpty(q, m) THEN q
    ELSE LET e == Emptied(q, m) IN
         Join(Join(e, LastOf(q, m), FirstOf(e, l)), HeadOf(l), FirstOf(q, m))

SplicedBack(q, l, m) ==
    IF IsEmpty(q, m) THEN q
    ELSE LET e == Emptied(q, m) IN
         Join(Join(e, LastOf(e, l), FirstOf(q, m)), LastOf(q, m), TailOf(l))

\* Through a list of its own, which is destroyed empty.
Swapped(q, l, m) == SplicedBack(SplicedBack(SplicedBack(q, Temp, m), m, l), l, Temp)

-----------------------------------------------------------------------------
Init ==
    p = [next |-> [x \in Points |-> IF \E l \in Lists \cup {Temp} : x = HeadOf(l)
                                      THEN x - 1 ELSE Null],
         pre  |-> [x \in Points |-> IF \E l \in Lists \cup {Temp} : x = TailOf(l)
                                      THEN x + 1 ELSE Null]]

\* Only a node that is alone is pushed: the callers let it leave first.
Alone(n) == p.next[n] = Null /\ p.pre[n] = Null

Push(l, n) == Alone(n) /\ p' \in {PushedFront(p, l, n), PushedBack(p, l, n)}
Pop(l) == ~IsEmpty(p, l) /\ p' \in {Left(p, FirstOf(p, l)), Left(p, LastOf(p, l))}
Leave(n) == ~Alone(n) /\ p' = Left(p, n)
Clear(l) == p' = Cleared(p, l)
Splice(l, m) == p' \in {SplicedFront(p, l, m), SplicedBack(p, l, m)}
Swap(l, m) == p' = Swapped(p, l, m)

Next ==
    \/ \E l \in Lists : Pop(l) \/ Clear(l) \/ \E n \in Nodes : Push(l, n)
    \/ \E n \in Nodes : Leave(n)
    \/ \E l, m \in Lists : Splice(l, m) \/ Swap(l, m)

Spec == Init /\ [][Next]_p

-----------------------------------------------------------------------------
\* What stands in list l at a place, its ends included, if s is what it holds.
At(l, s, i) == IF i = 0 THEN HeadOf(l) ELSE IF i = Len(s) + 1 THEN TailOf(l) ELSE s[i]

\* From one end of l to the other every node of s is joined with the next, both ways.
Joined(q, l, s) ==
    \A i \in 0..Len(s) : /\ q.next[At(l, s, i)] = At(l, s, i + 1)
                         /\ q.pre[At(l, s, i + 1)] = At(l, s, i)

\* A list holds the nodes that its pointers join.
Contents(q, l) ==
    LET Holds(k) == \E s \in [1..k -> Nodes] : Joined(q, l, s)
    IN  IF \E k \in 0..Cardinality(Nodes) : Holds(k)
          THEN LET c == CHOOSE k \in 0..Cardinality(Nodes) : Holds(k)
               IN  CHOOSE s \in [1..c -> Nodes] : Joined(q, l, s)
          ELSE <<Null>>
=============================================================================
