------------------------------ MODULE MC_Timers ------------------------------
(***************************************************************************)
(* PureCore on a small instance.                                           *)
(***************************************************************************)
EXTENDS PureCore

\* A timer without end and one of two calls.
MCTimes == {-1, 2}
=============================================================================
