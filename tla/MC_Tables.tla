------------------------------ MODULE MC_Tables ------------------------------
(***************************************************************************)
(* Two links, one user and the servers of two types, one of them negative, *)
(* with two ids and two indexes each; seven numbers to give out as ids; a  *)
(* store of two names, list keys of two digits with three numbers each,    *)
(* and a field that is the key of a list element.                          *)
(***************************************************************************)
EXTENDS Tables

MCServerTypes == {-1, 1}

MCFields == {<<3, 3, 0, 2, 3>>}

\* The first push on the right of list 3 makes this key.
ASSUME FieldIsKey == L!ListKey(3, L!FirstDigits(TRUE)) \in Fields

MCIndices == {-1, 1}
=============================================================================
