------------------------------- MODULE Framing -------------------------------
(***************************************************************************)
(* The bytes of a link, in both directions.  Out: LinkWriter (the module   *)
(* extended).  In: MsgProtocol, with the stream cut into reads anywhere or *)
(* only where a message ends.  They share nothing, and a behaviour is of   *)
(* one of them.                                                            *)
(***************************************************************************)
EXTENDS LinkWriter

CONSTANTS
  AnyMsgs,    \* a stream that is cut anywhere
  WholeMsgs,  \* a stream whose reads end where messages end
  Lengths     \* bound of MsgProtocol

VARIABLES
  cut,                                                       \* "anywhere", "whole" or "out"
  open, conns, began, got, base, at, busy, reading, delivered, used, torn, sound
                                                             \* MsgProtocol

A == INSTANCE MsgProtocol WITH Msgs <- AnyMsgs, Whole <- FALSE
W == INSTANCE MsgProtocol WITH Msgs <- WholeMsgs, Whole <- TRUE

inVars == <<open, conns, began, got, base, at, busy, reading, delivered, used, torn, sound>>

FramingInit == Init /\ A!Init /\ cut \in {"anywhere", "whole", "out"}

RunsAnywhere == cut = "anywhere" /\ A!Next /\ UNCHANGED <<cut, vars>>
RunsWhole == cut = "whole" /\ W!Next /\ UNCHANGED <<cut, vars>>
RunsOut == cut = "out" /\ Next /\ UNCHANGED <<cut, inVars>>

FramingNext == RunsAnywhere \/ RunsWhole \/ RunsOut
FramingSpec == FramingInit /\ [][FramingNext]_<<vars, cut, inVars>>

\* Read whole, every message given on is one the peer sent, they are in order, nothing
\* that has arrived is held back when read() returns, and legal messages are never
\* taken for a protocol error.
DeliversWhole == cut = "whole" => W!Framed /\ W!NothingWithheld /\ W!NeverRejected

\* However the stream is cut, whatever bodies hold and whatever is left of an earlier
\* connection, no byte is given on twice or out of order, and only the first piece may
\* hold bytes of an earlier connection.
NeverTwice == IF cut = "whole" THEN W!OnceInOrder ELSE A!OnceInOrder

\* On a connection that begins with nothing left, all messages that have arrived completely
\* by the end of the first read that ends inside one are given on as they are, and
\* nothing goes wrong before that read.
GoodUntilTorn == IF cut = "whole" THEN W!SoundUntilTorn ELSE A!SoundUntilTorn
=============================================================================
