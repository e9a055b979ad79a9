----------------------------- MODULE LinkWriter -----------------------------
(***************************************************************************)
(* How the bytes of messages leave a link (LinkTcp::push_data, flush_data, *)
(* Link::on_write, LinkMgr::flush_link): one buffer is filled, regions of  *)
(* it are handed to libuv while it is filled further, and it goes back to  *)
(* the pool all links share when its last region is written.               *)
(*                                                                         *)
(* A byte is its number on the connection; 0 is any byte of another link.  *)
(* libuv is external: it takes the regions in order, reads each at any     *)
(* moment before its callback, and after one failed it writes none.        *)
(***************************************************************************)
EXTENDS Integers, SequencesExt

CONSTANTS
    Bufs,       \* bound: buffers ever made for the pool
    Size,       \* mTcpBufferSize
    MaxBytes,   \* bound: bytes sent on one connection
    MaxMsg,     \* bound: bytes of one message
    MaxConns    \* bound: lives of the link object

ASSUME SizeAssumption == Size \in Nat \ {0}
ASSUME MsgAssumption == MaxMsg \in Nat

VARIABLES
    pool,          \* mTcpBufferPool
    data,          \* what the buffers hold
    link,          \* the id of the link, which counts its lives
    state,         \* "Start", "End" and, when a write has failed, "Broken"
    mWriter, readPos, writePos, mWritingSize,
    left,          \* bytes push_data has yet to put
    mNeedFlush,    \* link ids
    writes,        \* regions libuv has, in order
    \* history
    sent,          \* bytes put on this connection
    wire           \* what was written on this connection

vars == <<pool, data, link, state, mWriter, readPos, writePos, mWritingSize, left,
          mNeedFlush, writes, sent, wire>>

Unread == SubSeq(data[mWriter], readPos + 1, writePos)
Region(w) == SubSeq(data[w.buf], w.from + 1, w.from + w.len)

\* A new buffer for the writer, with nothing in it.
NewWriter ==
    /\ \E b \in pool : mWriter' = b /\ pool' = pool \ {b}
    /\ readPos' = 0 /\ writePos' = 0

Connected ==
    /\ state' = "Start" /\ mWritingSize' = 0 /\ left' = 0
    /\ writes' = <<>> /\ sent' = 0 /\ wire' = <<>>

Init ==
    /\ data = [b \in Bufs |-> [i \in 1..Size |-> 0]]
    /\ mWriter \in Bufs /\ pool = Bufs \ {mWriter} /\ readPos = 0 /\ writePos = 0
    /\ link = 1 /\ state = "Start" /\ mWritingSize = 0 /\ left = 0
    /\ mNeedFlush = {} /\ writes = <<>> /\ sent = 0 /\ wire = <<>>

\* What goes back to the pool may be filled by another link at once.
Returned(b) == [data EXCEPT ![b] = [i \in 1..Size |-> 0]]

SendMsg(n) ==
    /\ state = "Start" /\ left = 0 /\ sent + n <= MaxBytes
    /\ left' = n
    /\ UNCHANGED <<pool, data, link, state, mWriter, readPos, writePos, mWritingSize,
                   mNeedFlush, writes, sent, wire>>

\* BufferView::write of the next n bytes.
Put(n) ==
    /\ data' = [data EXCEPT ![mWriter] =
                  [i \in 1..Size |-> IF i \in writePos + 1 .. writePos + n
                                       THEN sent + i - writePos ELSE @[i]]]
    /\ sent' = sent + n /\ left' = left - n

\* They fit, and need_flush notes the link.
PutAll ==
    /\ left > 0 /\ Size - writePos >= left
    /\ Put(left)
    /\ writePos' = writePos + left
    /\ mNeedFlush' = mNeedFlush \cup {link}
    /\ UNCHANGED <<pool, link, state, mWriter, readPos, mWritingSize, writes, wire>>

\* A buffer with room stays the writer.
Keeps(end) == end < Size

\* flush_data when the buffer is filled up to end: what is unread goes to libuv, and
\* a full buffer goes with it.
HandOver(end) ==
    /\ writes' = Append(writes, [buf |-> mWriter, from |-> readPos, len |-> end - readPos,
                                 last |-> ~Keeps(end)])
    /\ mWritingSize' = mWritingSize + end - readPos
    /\ IF Keeps(end) THEN readPos' = end /\ writePos' = end /\ UNCHANGED <<mWriter, pool>>
                     ELSE NewWriter

\* They do not fit: the buffer is filled and flushed, and push_data goes on.
PutSome ==
    /\ left > 0 /\ Size - writePos < left
    /\ Put(Size - writePos)
    /\ HandOver(Size)
    /\ UNCHANGED <<link, state, mNeedFlush, wire>>

\* LinkMgr::flush_link, once a frame.  flush_data refuses a link that is closed, and
\* the id of one that is gone is not found.
FlushLinks ==
    /\ left = 0 /\ mNeedFlush # {}
    /\ mNeedFlush' = {}
    /\ IF link \in mNeedFlush /\ state = "Start" /\ Unread # <<>>
         THEN HandOver(writePos)
         ELSE UNCHANGED <<pool, mWriter, readPos, writePos, mWritingSize, writes>>
    /\ UNCHANGED <<data, link, state, left, sent, wire>>

\* Mutant of Idle: it does not look at what libuv still has.
IdleIfRead(writing) == readPos = writePos

\* Nothing of the writer is needed any more, so it starts from its beginning again.
Idle(writing) == writing = 0 /\ readPos = writePos

\* The callback of a write; a failed one closes the link.
Written(ok) ==
    /\ left = 0 /\ writes # <<>>
    /\ LET w == Head(writes) writing == Max({0, mWritingSize - w.len}) IN
       /\ writes' = Tail(writes)
       /\ IF w.last THEN pool' = pool \cup {w.buf} /\ data' = Returned(w.buf)
                    ELSE UNCHANGED <<pool, data>>
       /\ mWritingSize' = writing
       /\ IF Idle(writing) THEN readPos' = 0 /\ writePos' = 0
                           ELSE UNCHANGED <<readPos, writePos>>
       /\ IF ok THEN state # "Broken" /\ wire' = wire \o Region(w) /\ state' = state
                ELSE state' = "Broken" /\ wire' = wire
    /\ UNCHANGED <<link, mWriter, left, mNeedFlush, sent>>

\* The link is closed from outside; libuv still writes what it has, or cancels it.
Close ==
    /\ state = "Start" /\ left = 0
    /\ state' = "End"
    /\ UNCHANGED <<pool, data, link, mWriter, readPos, writePos, mWritingSize, left,
                   mNeedFlush, writes, sent, wire>>

\* LinkTcp::clear when the handle is closed, and LinkTcp::init of the next life.
Reopen ==
    /\ state # "Start" /\ writes = <<>> /\ link < MaxConns
    /\ link' = link + 1
    /\ data' = Returned(mWriter)
    /\ \E b \in pool \cup {mWriter} : mWriter' = b /\ pool' = (pool \cup {mWriter}) \ {b}
    /\ readPos' = 0 /\ writePos' = 0
    /\ Connected
    /\ UNCHANGED mNeedFlush

Next ==
    \/ \E n \in 1..MaxMsg : SendMsg(n)
    \/ PutAll \/ PutSome \/ FlushLinks \/ Close \/ Reopen
    \/ \E ok \in BOOLEAN : Written(ok)

Spec == Init /\ [][Next]_vars

-----------------------------------------------------------------------------
\* In buffer b the n bytes behind position from are those behind byte k.
Holds(b, from, n, k) == \A i \in 1..n : data[b][from + i] = k + i

\* The last byte up to region k, read from the buffers as they are now.
EndOf(k) == IF k = 0 THEN Len(wire)
                     ELSE LET w == writes[k] IN data[w.buf][w.from + w.len]

\* Every byte is where it belongs.  What was written, what libuv has, read from the
\* buffers as they are now, and what waits in the writer are the bytes sent, in their
\* order; a link with something waiting is noted for the next flush.  When the link is
\* closed what waits is dropped, and when a write failed what libuv has too, but what
\* was written is the beginning of what was sent.
WritesInOrder ==
    /\ wire = [i \in 1..Len(wire) |-> i] /\ Len(wire) <= sent
    /\ state # "Broken" =>
         /\ \A k \in DOMAIN writes :
              Holds(writes[k].buf, writes[k].from, writes[k].len, EndOf(k - 1))
         /\ EndOf(Len(writes)) <= sent
    /\ state = "Start" =>
         /\ Holds(mWriter, readPos, writePos - readPos, EndOf(Len(writes)))
         /\ EndOf(Len(writes)) + writePos - readPos = sent
         /\ readPos < writePos /\ left = 0 => link \in mNeedFlush
=============================================================================
