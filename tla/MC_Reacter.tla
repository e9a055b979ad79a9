----------------------------- MODULE MC_Reacter -----------------------------
(***************************************************************************)
(* The reacter on small instances: two link objects, so that one is reused *)
(* while the other is in use; one connect and one listener compete for     *)
(* them.                                                                   *)
(***************************************************************************)
EXTENDS Reacter

\* The objects of the pool are interchangeable (safety runs only).
ObjSymmetry == Permutations(Objs)
=============================================================================
