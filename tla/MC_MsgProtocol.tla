--------------------------- MODULE MC_MsgProtocol ---------------------------
(***************************************************************************)
(* A stream for MsgProtocol that is cut into reads anywhere.               *)
(***************************************************************************)
EXTENDS MsgProtocol

\* One message that may arrive in several reads.
OneMsg == <<[head |-> 2, end |-> 11]>>
=============================================================================
