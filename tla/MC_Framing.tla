------------------------------ MODULE MC_Framing ------------------------------
(***************************************************************************)
(* Streams and buffers for Framing.                                        *)
(***************************************************************************)
EXTENDS Framing

Bufs3 == 1..3

Msg(h, e) == [head |-> h, end |-> e]

\* Messages of which several arrive in one read: every length of a head, and bodies
\* shorter than, as long as and longer than what a first take reads beyond them (of
\* 1, 1, 3, 1, 2, 9, 2 and 2 bytes).
ManyMsgs ==
  <<Msg(1, 2), Msg(2, 5), Msg(2, 10), Msg(3, 14), Msg(5, 21), Msg(2, 32), Msg(3, 37), Msg(2, 41)>>

\* A few messages that may arrive in any pieces, with bodies of 3, 1 and 1 bytes.
FewMsgs == <<Msg(2, 5), Msg(1, 7), Msg(2, 10)>>

\* Both are streams the theorems are about.
ASSUME StreamsLegal == A!Legal /\ W!Legal
=============================================================================
