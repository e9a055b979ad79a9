---------------------------- MODULE MC_NetThread ----------------------------
(* A small instance of NetThread for TLC. *)
EXTENDS NetThread
=============================================================================
