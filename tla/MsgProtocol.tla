----------------------------- MODULE MsgProtocol -----------------------------
(***************************************************************************)
(* MsgProtocol::read (TextProtocol::read is the same but for the tags of   *)
(* its heads): a stream of bytes, cut by TCP into reads, is put together   *)
(* into messages again.  A message is a head (a tag and the length of the  *)
(* body in 1, 2 or 4 bytes, or a tag that holds a short length) and a body.*)
(*                                                                         *)
(* A byte is its number among all bytes that arrived on the link, which is *)
(* pooled and serves one connection after the other.  The first byte of a  *)
(* message reads as its head.  Any other byte that is met where a head is  *)
(* looked for may read as no tag or as any head, since a body may hold any *)
(* bytes.                                                                  *)
(***************************************************************************)
EXTENDS Integers, Sequences

CONSTANTS
  Msgs,       \* what the peer sends on a connection: for each message the length of its
              \* head (1, 2, 3 or 5) and the position of its last byte
  Whole,      \* whether every read ends where a message ends
  MaxConns,   \* bound: connections served by the pooled link
  Lengths     \* bound: lengths of a body, where a byte inside a message reads as a head

VARIABLES
  open,       \* "yes", or who closed the link: "app", "peer" or "protocol"
  conns,      \* connections so far
  began,      \* bytes that arrived before this connection
  got,        \* bytes that arrived
  base,       \* where the bytes of the current read begin; got outside read()
  at,         \* the read position of its buffer; got when nothing is left
  busy,       \* inside read()
  reading,    \* mReading (its bytes and the index of the next one) and mNeedSize
  delivered,  \* given to the next protocol on this connection: the bytes of each message
  used,       \* history: the last byte given on before this connection
  torn,       \* history: it began with a part of a message left, or a read ended in one
  sound       \* history: how far it had arrived by the end of the read that tore it, or so far

history == <<used, torn, sound>>
vars == <<open, conns, began, got, base, at, busy, reading, delivered, used, torn, sound>>

\* The last byte of message i, and the length of its body.
End(i) == IF i = 0 THEN 0 ELSE Msgs[i].end
Body(i) == End(i) - End(i - 1) - Msgs[i].head

Total == End(Len(Msgs))

Widths == {1, 2, 3, 5}

\* A stream of messages that follow each other.
Stream ==
  /\ Msgs \in Seq([head : Widths, end : Nat])
  /\ \A i \in 0..Len(Msgs), j \in 1..Len(Msgs) : i < j => End(i) + Msgs[j].head =< End(j)
  /\ MaxConns \in Nat \ {0} /\ Lengths \subseteq Nat

\* Their bodies are not empty.  (Nothing is given back after a message whose body is
\* empty: it keeps what was read behind it.)
Legal == Stream /\ \A i \in 1..Len(Msgs) : Body(i) > 0

HeadMax == 5
NoMsg == [data |-> <<>>, rp |-> 1, need |-> 0]

\* The n bytes behind byte p.
Bytes(p, n) == [i \in 1..n |-> p + i]

LastByte(m) == m[Len(m)]

Least(a, b) == IF a < b THEN a ELSE b

TypeOK ==
  /\ open \in {"yes", "app", "peer", "protocol"} /\ conns \in 1..MaxConns
  /\ began \in Nat /\ got \in began..began + Total /\ base \in began..got /\ at \in base..got
  /\ busy \in BOOLEAN /\ torn \in BOOLEAN /\ used \in 0..began /\ sound \in began..got
  /\ reading \in [data : Seq(Nat), rp : Nat, need : Nat]
  /\ delivered \in Seq(Seq(Nat))

Init ==
  /\ open = "yes" /\ conns = 1 /\ began = 0 /\ got = 0 /\ base = 0 /\ at = 0
  /\ busy = FALSE /\ reading = NoMsg /\ delivered = <<>>
  /\ used = 0 /\ torn = FALSE /\ sound = 0

-----------------------------------------------------------------------------
(* One pass of read_to_msg over s: mReading, mNeedSize and the buffer.     *)

\* A new message begins with as many bytes as its head may have.
Filled ==
  IF reading # NoMsg
  THEN [data |-> reading.data, rp |-> reading.rp, need |-> reading.need, at |-> at]
  ELSE LET k == Least(HeadMax, got - at) IN
       [data |-> Bytes(at, k), rp |-> 1, need |-> 0, at |-> at + k]

Unread(s) == Len(s.data) - s.rp + 1

\* The message of this connection that begins with the next byte: at most one.
Begun(s) ==
  {i \in 1..Len(Msgs) : s.rp <= Len(s.data) /\ s.data[s.rp] = began + End(i - 1) + 1}

\* The heads that the next byte may read as.
Heads(s) ==
  IF Begun(s) # {} THEN {[head |-> Msgs[i].head, body |-> Body(i)] : i \in Begun(s)}
  ELSE [head : Widths, body : Lengths]

\* PureMsg::unpack_bin: there is no byte, or it is no tag; the tag is consumed even when
\* the length is not there yet.
HeadBad(s)   == s.need = 0 /\ Begun(s) = {}
HeadShort(s) == s.need = 0 /\ Unread(s) > 0 /\ \E h \in Heads(s) : Unread(s) < h.head
Unpacked(s) ==
  IF s.need > 0 THEN {s}
  ELSE {[s EXCEPT !.rp = @ + h.head, !.need = h.body] : h \in {x \in Heads(s) : x.head <= Unread(s)}}

\* BufferView::read_pos of n bytes less: a negative one is a huge size_t, and is cut
\* to the end of the data.
BackPos(p, n)  == IF p - base >= n THEN p - n ELSE got

\* Bytes beyond the body go back to the buffer.
AlsoKeep(s, over) == [s EXCEPT !.need = 0, !.at = BackPos(@, over)]
                                          \* mutant: the message keeps them too
GiveBack(s, over) ==
  [s EXCEPT !.data = SubSeq(@, 1, Len(@) - over), !.need = 0, !.at = BackPos(@, over)]

\* What the body lacks is taken from the buffer.
Take(s, n) ==
  LET k == Least(n, got - s.at) IN
  [s EXCEPT !.data = @ \o Bytes(s.at, k), !.need = n - k, !.at = @ + k]

\* The body: what was read beyond it goes back, or what it lacks is taken.
WithBody(s) ==
  LET over == Unread(s) - s.need IN
  IF s.need = 0 THEN s ELSE IF over > 0 THEN GiveBack(s, over) ELSE Take(s, s.need - Unread(s))

\* The ways the pass may go on once it has a head.
Passes == {WithBody(s) : s \in Unpacked(Filled)}

Kept(s) == [data |-> s.data, rp |-> s.rp, need |-> s.need]

\* read() fails: mReading is dropped, on_read_tcp closes the link (if it still can).
Fail ==
  /\ reading' = NoMsg /\ at' = got /\ busy' = FALSE
  /\ open' = IF open = "yes" THEN "protocol" ELSE open
  /\ UNCHANGED delivered

\* read() returns and waits for more.
Wait(r) == reading' = r /\ at' = got /\ busy' = FALSE /\ UNCHANGED <<open, delivered>>

ReadBad == HeadBad(Filled) /\ Fail
ReadShort == HeadShort(Filled) /\ Wait([Kept(Filled) EXCEPT !.rp = @ + 1])
ReadPart == \E s \in Passes : s.need > 0 /\ Wait(Kept(s))

\* Mutant of ReadOn: read() returns after a message, whatever the buffer holds.
ReadOnce(s) == busy' = FALSE

\* read() after a message: once more if the buffer holds anything.
ReadOn(s) == busy' = (s.at < got)

\* A message is complete; a link that is not valid any more refuses it.
ReadMsg ==
  \E s \in Passes :
    /\ s.need = 0
    /\ IF open # "yes" THEN Fail
       ELSE /\ delivered' = Append(delivered, s.data)
            /\ reading' = NoMsg
            /\ at' = s.at /\ ReadOn(s)
            /\ UNCHANGED open

Read ==
  /\ busy /\ (ReadBad \/ ReadShort \/ ReadPart \/ ReadMsg)
  /\ base' = IF busy' THEN base ELSE got
  /\ UNCHANGED <<conns, began, got, history>>

-----------------------------------------------------------------------------
AtEnd(b) == \E i \in 0..Len(Msgs) : b = began + End(i)

\* The loop reads what has arrived: the rest of the stream, or less.
Receive(n) ==
  /\ ~busy /\ open = "yes" /\ got + n <= began + Total
  /\ Whole => AtEnd(got + n)
  /\ got' = got + n /\ base' = got /\ at' = got /\ busy' = TRUE
  /\ torn' = (torn \/ ~AtEnd(got + n))
  /\ sound' = IF torn THEN sound ELSE got + n
  /\ UNCHANGED <<open, conns, began, reading, delivered, used>>

\* A handler of a message, or the application between two reads, closes the link.
CloseLink ==
  /\ open = "yes" /\ delivered # <<>>
  /\ open' = "app"
  /\ UNCHANGED <<conns, began, got, base, at, busy, reading, delivered, history>>

PeerGone ==
  /\ open = "yes" /\ ~busy
  /\ open' = "peer"
  /\ UNCHANGED <<conns, began, got, base, at, busy, reading, delivered, history>>

\* The object serves another connection: start() resets mNeedSize, and only that.
Start ==
  /\ open # "yes" /\ ~busy /\ conns < MaxConns
  /\ conns' = conns + 1 /\ open' = "yes" /\ began' = got
  /\ reading' = [reading EXCEPT !.need = 0]
  /\ delivered' = <<>>
  /\ used' = IF delivered = <<>> THEN used ELSE LastByte(delivered[Len(delivered)])
  /\ torn' = (reading # NoMsg) /\ sound' = got
  /\ UNCHANGED <<got, base, at, busy>>

Next ==
  \/ Read
  \/ \E n \in 1..Total : Receive(n)
  \/ CloseLink \/ PeerGone \/ Start

Spec == Init /\ [][Next]_vars

-----------------------------------------------------------------------------
\* Message i of the peer, as it is given on.
MsgOf(i) == Bytes(began + End(i - 1), End(i) - End(i - 1))

\* Every message given on is one the peer sent, whole, and they are given in order.
Framed ==
  /\ Len(delivered) <= Len(Msgs)
  /\ \A i \in DOMAIN delivered : delivered[i] = MsgOf(i)

\* When read() returns, every message that has arrived completely has been given on.
NothingWithheld ==
  open = "yes" /\ ~busy => \A i \in 1..Len(Msgs) : began + End(i) <= got => i <= Len(delivered)

\* A peer that sends legal messages is never accused of a protocol error.
NeverRejected == open # "protocol"

\* However the stream is cut, whatever the bodies hold and whatever is left of an earlier
\* connection: no byte is given on twice or before one that arrived earlier, and only the
\* first piece given on may hold bytes of an earlier connection.
OnceInOrder ==
  \A i \in DOMAIN delivered :
    /\ delivered[i] # <<>>
    /\ delivered[i][1] > (IF i = 1 THEN used ELSE LastByte(delivered[i - 1]))
    /\ i > 1 => delivered[i][1] > began
    /\ \A b \in DOMAIN delivered[i] :
         delivered[i][b] <= got /\ \A a \in 1..b - 1 : delivered[i][a] < delivered[i][b]

\* A connection that begins with nothing left goes well until a read ends inside a message:
\* those that have arrived completely by then are given on as they are, each once read()
\* has returned, and nothing but them; and the link is not closed for what it received.
SoundUntilTorn ==
  /\ \A i \in 1..Len(Msgs) : began + End(i) <= sound =>
       /\ i <= Len(delivered) => delivered[i] = MsgOf(i)
       /\ ~busy /\ open # "app" => i <= Len(delivered)
  /\ ~torn => /\ Len(delivered) <= Len(Msgs) /\ open # "protocol"
              /\ \A i \in DOMAIN delivered : began + End(i) <= sound
=============================================================================
