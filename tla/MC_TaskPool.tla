---------------------------- MODULE MC_TaskPool ----------------------------
(***************************************************************************)
(* TaskPool with fair threads.  Its liveness properties are checked, so    *)
(* the interchangeable workers, tasks and callers are not made symmetric.  *)
(***************************************************************************)
EXTENDS TaskPool
=============================================================================
