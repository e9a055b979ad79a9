------------------------------ MODULE NodeSeqs ------------------------------
(***************************************************************************)
(* What NodeList promises: sequences of nodes, none of which is in two of  *)
(* them or twice in one.                                                   *)
(***************************************************************************)
EXTENDS SequencesExt

CONSTANTS Nodes, Lists

VARIABLE lists   \* by list: its nodes in order

Init == lists = [l \in Lists |-> <<>>]

Free == Nodes \ UNION {ToSet(lists[l]) : l \in Lists}

Push(l) ==
    \E n \in Free, front \in BOOLEAN :
        lists' = [lists EXCEPT ![l] = IF front THEN <<n>> \o @ ELSE Append(@, n)]

Leave(l) == \E i \in DOMAIN lists[l] : lists' = [lists EXCEPT ![l] = RemoveAt(@, i)]

\* All of m goes to one end of l.
Splice(l, m) ==
    \E front \in BOOLEAN :
        lists' = [lists EXCEPT ![m] = <<>>,
                               ![l] = IF front THEN lists[m] \o @ ELSE @ \o lists[m]]

Swap(l, m) == lists' = [lists EXCEPT ![l] = lists[m], ![m] = lists[l]]
Clear(l) == lists' = [lists EXCEPT ![l] = <<>>]

Next ==
    \/ \E l \in Lists : Push(l) \/ Leave(l) \/ Clear(l)
    \/ \E l, m \in Lists : l # m /\ (Splice(l, m) \/ Swap(l, m))

Spec == Init /\ [][Next]_lists
=============================================================================
