---------------------------- MODULE MC_Connectors ----------------------------
(***************************************************************************)
(* Connectors with the bounds of MC_Connectors.cfg.                        *)
(***************************************************************************)
EXTENDS Connectors
==============================================================================
