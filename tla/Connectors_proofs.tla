-------------------------- MODULE Connectors_proofs --------------------------
(***************************************************************************)
(* For any number of requests, commands of a pipe and restarts: the        *)
(* callback of a request is given the answer to that request.              *)
(***************************************************************************)
EXTENDS Connectors, FiniteSetTheorems, SequenceTheorems, TLAPS

-----------------------------------------------------------------------------
(* A connection to a redis server.                                         *)

Commands == Nat \X Nat

Connections == [open : BOOLEAN, alive : BOOLEAN, wire : Seq(Commands), need : Nat, reply : Commands]

\* What is owed is on the wire.
Backed(c) == IsAlive(c) => c.need <= Len(c.wire)

\* Nothing is owed and nothing kept.
Empty(c) == c.wire = <<>> /\ c.need = 0 /\ c.reply = None

\* A connection that is lost.
LEMMA LostConnection ==
  ASSUME NEW c \in Connections
  PROVE  Lost(c) \in Connections /\ Lost(c).open = c.open /\ ~Lost(c).alive
BY DEF Lost, Connections

\* A connection without a socket, or with one that is lost, does nothing.
LEMMA DeadCommand ==
  ASSUME NEW c \in Connections, ~IsAlive(c), NEW cmd, NEW ok, NEW r \in Command(c, cmd, ok),
         NEW p \in PopReply(r.c)
  PROVE  ~r.ok /\ p.c = c /\ p.reply = None
<1>1. r = [c |-> c, ok |-> FALSE]
  BY DEF Command, Refused, Result
<1>2. p = [c |-> c, reply |-> None]
  BY <1>1 DEF PopReply
<1>. QED  BY <1>1, <1>2

\* A refused command leaves the connection alone.
LEMMA RefusedCommand ==
  ASSUME NEW c \in Connections, NEW cmd, NEW r \in Command(c, cmd, FALSE)
  PROVE  ~r.ok /\ r.c = c
BY DEF Command, Refused, Result

\* A command that is sent fails, and the connection is lost, or the oldest reply is kept.
LEMMA SentCommand ==
  ASSUME NEW c \in Connections, IsAlive(c), Backed(c), NEW cmd \in Commands,
         NEW r \in Command(c, cmd, TRUE)
  PROVE  /\ r.c \in Connections /\ r.c.open
         /\ ~r.ok => ~IsAlive(r.c)
         /\ r.ok => IsAlive(r.c) /\ Backed(r.c)
         /\ r.ok /\ Empty(c) => r.c.wire = <<>> /\ r.c.need = 0 /\ r.c.reply = cmd
<1>. DEFINE w == Append(c.wire, cmd)
            sent == [c EXCEPT !.wire = w]
            kept == [sent EXCEPT !.reply = Head(w), !.wire = Tail(w)]
<1>1. r = [c |-> Lost(sent), ok |-> FALSE] \/ r = [c |-> kept, ok |-> TRUE]
  <2>1. sent.wire = w
    BY DEF Connections
  <2>2. ~Refused(c, TRUE)
    BY DEF Refused
  <2>3. kept = [sent EXCEPT !.reply = Head(sent.wire), !.wire = Tail(@)]
    BY <2>1
  <2>. QED  BY <2>1, <2>2, <2>3 DEF Command, Result
<1>2. c.wire \in Seq(Commands) /\ c.need \in Nat /\ c.need <= Len(c.wire)
  BY DEF Connections, Backed
<1>3. w \in Seq(Commands) /\ w # <<>> /\ Len(w) = Len(c.wire) + 1
  BY <1>2, AppendProperties
<1>4. Head(w) \in Commands /\ Tail(w) \in Seq(Commands) /\ Len(Tail(w)) = Len(c.wire)
  BY <1>2, <1>3, HeadTailProperties
<1>5. c.wire = <<>> => Head(w) = cmd /\ Tail(w) = <<>>
  BY <1>2, <1>3, <1>4
<1>. HIDE DEF w
<1>6. sent \in Connections /\ sent.open = c.open /\ sent.alive = c.alive
  BY <1>3 DEF Connections
<1>7. /\ kept \in Connections /\ kept.open = c.open /\ kept.alive = c.alive /\ kept.need = c.need
      /\ kept.wire = Tail(w) /\ kept.reply = Head(w)
  BY <1>4 DEF Connections
<1>8. CASE r = [c |-> Lost(sent), ok |-> FALSE]
  BY <1>6, <1>8, LostConnection DEF IsAlive
<1>9. CASE r = [c |-> kept, ok |-> TRUE]
  BY <1>2, <1>4, <1>5, <1>7, <1>9 DEF IsAlive, Backed, Empty
<1>. QED  BY <1>1, <1>8, <1>9


\* pop_reply() hands out the reply that is kept, or the next one that is owed, unless the
\* connection is lost over it.
LEMMA PoppedReply ==
  ASSUME NEW c \in Connections, Backed(c), NEW p \in PopReply(c)
  PROVE  /\ p.c \in Connections /\ p.c.open = c.open /\ p.reply \in Commands
         /\ IsAlive(p.c) => IsAlive(c) /\ Backed(p.c)
         /\ Empty(c) => p.c = c /\ p.reply = None
         /\ IsAlive(c) /\ c.wire = <<>> /\ c.need = 0 /\ c.reply # None =>
              Empty(p.c) /\ p.reply = c.reply /\ IsAlive(p.c)
<1>0. None \in Commands
  BY DEF None, Commands
<1>1. CASE ~IsAlive(c) \/ (c.reply = None /\ c.need = 0)
  <2>1. p = [c |-> c, reply |-> None]
    BY <1>1 DEF PopReply
  <2>. QED  BY <1>0, <1>1, <2>1
<1>2. CASE IsAlive(c) /\ c.reply # None
  <2>. DEFINE d == [c EXCEPT !.reply = None]
  <2>1. p = [c |-> d, reply |-> c.reply]
    BY <1>2 DEF PopReply
  <2>2. /\ d \in Connections /\ d.open = c.open /\ d.alive = c.alive /\ d.wire = c.wire
        /\ d.need = c.need /\ d.reply = None
    BY <1>0 DEF Connections
  <2>3. c.reply \in Commands
    BY DEF Connections
  <2>. QED  BY <1>2, <2>1, <2>2, <2>3 DEF Empty, IsAlive, Backed
<1>3. CASE IsAlive(c) /\ c.reply = None /\ c.need # 0
  <2>. DEFINE w == c.wire
              d == [c EXCEPT !.wire = Tail(w), !.need = @ - 1]
  <2>1. p = [c |-> Lost(c), reply |-> None] \/ p = [c |-> d, reply |-> Head(w)]
    BY <1>3 DEF PopReply
  <2>2. w \in Seq(Commands) /\ c.need \in Nat \ {0} /\ c.need <= Len(w) /\ Len(w) \in Nat
    BY <1>3, LenProperties DEF Connections, Backed
  <2>3. w # <<>>
    BY <2>2, EmptySeq
  <2>4. Head(w) \in Commands /\ Tail(w) \in Seq(Commands) /\ Len(Tail(w)) = Len(w) - 1
    BY <2>2, <2>3, HeadTailProperties
  <2>5. ~Empty(c)
    BY <1>3 DEF Empty
  <2>. HIDE DEF w
  <2>6. /\ d \in Connections /\ d.open = c.open /\ d.alive = c.alive /\ d.wire = Tail(w)
        /\ d.need = c.need - 1
    <3>. DEFINE n == c.need - 1
                t == Tail(w)
    <3>1. n \in Nat /\ t \in Seq(Commands)
      BY <2>2, <2>4
    <3>2. d = [c EXCEPT !.wire = t, !.need = n]
      OBVIOUS
    <3>. HIDE DEF n, t, d
    <3>3. d \in Connections /\ d.open = c.open /\ d.alive = c.alive /\ d.wire = t /\ d.need = n
      BY <3>1, <3>2 DEF Connections
    <3>. QED  BY <3>3 DEF n, t
  <2>. HIDE DEF d
  <2>7. CASE p = [c |-> d, reply |-> Head(w)]
    <3>1. p.c = d /\ p.reply = Head(w)
      BY <2>7
    <3>2. d.need <= Len(d.wire)
      BY <2>2, <2>4, <2>6
    <3>. QED  BY <1>3, <2>4, <2>5, <2>6, <3>1, <3>2 DEF Backed
  <2>8. CASE p = [c |-> Lost(c), reply |-> None]
    BY <1>0, <1>3, <2>5, <2>8, LostConnection DEF IsAlive
  <2>. QED  BY <2>1, <2>7, <2>8
<1>. QED  BY <1>1, <1>2, <1>3

\* A command whose reply is popped at once: on a connection where nothing is owed it is
\* answered by its own reply, or an error, and again nothing is owed.
LEMMA AnsweredCommand ==
  ASSUME NEW c \in Connections, Backed(c), NEW cmd \in Commands \ {None}, NEW ok \in BOOLEAN,
         NEW r \in Command(c, cmd, ok), NEW p \in PopReply(r.c)
  PROVE  /\ p.c \in Connections /\ p.c.open = c.open /\ Backed(p.c) /\ p.reply \in Commands
         /\ IsAlive(p.c) => IsAlive(c)
         /\ r.ok => ok /\ IsAlive(c)
         /\ Empty(c) =>
              /\ IsAlive(p.c) => Empty(p.c)
              /\ IF r.ok THEN p.reply = cmd /\ IsAlive(p.c) ELSE p.reply = None
<1>1. CASE ~IsAlive(c)
  <2>1. ~r.ok /\ p.c = c /\ p.reply = None
    BY <1>1, DeadCommand
  <2>. QED  BY <1>1, <2>1 DEF None, Commands
<1>2. CASE IsAlive(c) /\ ~ok
  <2>1. ~r.ok /\ r.c = c
    BY <1>2, RefusedCommand
  <2>2. IsAlive(p.c) => Backed(p.c)
    BY <2>1, PoppedReply
  <2>. QED  BY <1>2, <2>1, <2>2, PoppedReply DEF Backed
<1>3. CASE IsAlive(c) /\ ok
  <2>1. /\ r.c \in Connections /\ r.c.open = c.open /\ Backed(r.c)
        /\ ~r.ok => ~IsAlive(r.c)
        /\ r.ok => IsAlive(r.c)
        /\ r.ok /\ Empty(c) => r.c.wire = <<>> /\ r.c.need = 0 /\ r.c.reply = cmd
    BY <1>3, SentCommand DEF IsAlive, Backed
  <2>2. /\ p.c \in Connections /\ p.c.open = r.c.open /\ p.reply \in Commands
        /\ IsAlive(p.c) => IsAlive(r.c) /\ Backed(p.c)
        /\ IsAlive(r.c) /\ r.c.wire = <<>> /\ r.c.need = 0 /\ r.c.reply # None =>
              Empty(p.c) /\ p.reply = r.c.reply /\ IsAlive(p.c)
    BY <2>1, PoppedReply
  <2>3. ~IsAlive(r.c) => p.reply = None
    BY DEF PopReply
  <2>4. Backed(p.c)
    BY <2>2 DEF Backed
  <2>5. CASE r.ok
    BY <1>3, <2>1, <2>2, <2>4, <2>5
  <2>6. CASE ~r.ok
    BY <1>3, <2>1, <2>2, <2>3, <2>4, <2>6
  <2>. QED  BY <2>5, <2>6
<1>. QED  BY <1>1, <1>2, <1>3

\* The same of the connector's own questions.
LEMMA AskedCommand ==
  ASSUME NEW c \in Connections, Backed(c), NEW k \in {1, 2}, NEW r \in Asked(c, k)
  PROVE  /\ r.c \in Connections /\ r.c.open = c.open /\ Backed(r.c)
         /\ IsAlive(r.c) => IsAlive(c)
         /\ r.ok => IsAlive(c)
         /\ Empty(c) => (IsAlive(r.c) => Empty(r.c)) /\ (r.ok => IsAlive(r.c))
         /\ r.ok \in BOOLEAN
<1>1. Own(k) \in Commands \ {None}
  BY DEF Own, Commands, None
<1>2. PICK q \in Command(c, Own(k), TRUE) :
        r \in {Result(p.c, q.ok /\ p.reply # None) : p \in PopReply(q.c)}
  BY DEF Asked
<1>3. PICK p \in PopReply(q.c) : r = Result(p.c, q.ok /\ p.reply # None)
  BY <1>2
<1>4. r.c = p.c /\ (r.ok <=> q.ok /\ p.reply # None) /\ r.ok \in BOOLEAN
  BY <1>3 DEF Result
<1>5. /\ p.c \in Connections /\ p.c.open = c.open /\ Backed(p.c)
      /\ IsAlive(p.c) => IsAlive(c)
      /\ q.ok => IsAlive(c)
      /\ Empty(c) => (IsAlive(p.c) => Empty(p.c)) /\ (q.ok => IsAlive(p.c))
  BY <1>1, AnsweredCommand
<1>. QED  BY <1>4, <1>5


\* A connection is as good as new when it is not open, and when it is alive and no pipe
\* broke off on it (b).
Settled(c, b) == (~c.open \/ (c.alive /\ ~b)) => Empty(c)

\* close() leaves nothing.
LEMMA ClosedConnection ==
  ASSUME NEW c \in Connections, ~c.open => Empty(c)
  PROVE  Close(c) \in Connections /\ ~Close(c).open /\ Empty(Close(c))
<1>1. None \in Commands /\ <<>> \in Seq(Commands)
  BY DEF None, Commands
<1>. QED  BY <1>1 DEF Close, Closed, Connections, Empty

\* connect() is refused on a connection that is open; otherwise it leaves one that is as
\* good as new, or none.
LEMMA ConnectedOrNot ==
  ASSUME NEW c \in Connections, Backed(c), ~c.open => Empty(c), NEW r \in Connect(c)
  PROVE  /\ r.c \in Connections /\ Backed(r.c) /\ r.ok \in BOOLEAN
         /\ c.open => r.c = c /\ ~r.ok
         /\ ~c.open => (r.c.open => IsAlive(r.c)) /\ Empty(r.c)
<1>. DEFINE fresh == [c EXCEPT !.open = TRUE, !.alive = TRUE]
<1>1. CASE r = Result(c, FALSE)
  BY <1>1 DEF Result
<1>2. CASE ~c.open /\ \E q \in Asked(fresh, 1) : r = IF q.ok THEN q ELSE Result(Close(q.c), FALSE)
  <2>1. PICK q \in Asked(fresh, 1) : r = IF q.ok THEN q ELSE Result(Close(q.c), FALSE)
    BY <1>2
  <2>2. fresh \in Connections /\ Empty(fresh) /\ fresh.open /\ fresh.alive
    BY <1>2 DEF Connections, Empty
  <2>3. Backed(fresh)
    BY <2>2, LenProperties, EmptySeq DEF Backed, Empty, Connections
  <2>. HIDE DEF fresh
  <2>4. /\ q.c \in Connections /\ q.c.open /\ Backed(q.c) /\ q.ok \in BOOLEAN
        /\ (IsAlive(q.c) => Empty(q.c)) /\ (q.ok => IsAlive(q.c))
    BY <2>2, <2>3, AskedCommand
  <2>5. CASE q.ok
    BY <1>2, <2>1, <2>4, <2>5
  <2>6. CASE ~q.ok
    <3>1. r.c = Close(q.c) /\ r.ok = FALSE
      BY <2>1, <2>6 DEF Result
    <3>. QED  BY <1>2, <2>4, <3>1, ClosedConnection DEF Backed, IsAlive
  <2>. QED  BY <2>5, <2>6
<1>3. \/ r = Result(c, FALSE)
      \/ ~c.open /\ \E q \in Asked(fresh, 1) : r = IF q.ok THEN q ELSE Result(Close(q.c), FALSE)
  BY DEF Connect
<1>. QED  BY <1>1, <1>2, <1>3

\* update() asks, or tries to reconnect: neither makes a connection worse.
LEMMA KeptConnection ==
  ASSUME NEW c \in Connections, Backed(c), NEW b \in BOOLEAN, Settled(c, b), NEW d \in KeptAlive(c)
  PROVE  d \in Connections /\ Backed(d) /\ d.open = c.open /\ Settled(d, b)
<1>1. CASE d = c
  BY <1>1
<1>2. CASE IsAlive(c) /\ \E r \in Asked(c, 2) : d = r.c
  <2>1. PICK r \in Asked(c, 2) : d = r.c
    BY <1>2
  <2>2. /\ d \in Connections /\ d.open = c.open /\ Backed(d) /\ (IsAlive(d) => IsAlive(c))
        /\ Empty(c) => (IsAlive(d) => Empty(d))
    BY <2>1, AskedCommand
  <2>. QED  BY <1>2, <2>2 DEF Settled, IsAlive
<1>3. CASE c.open /\ ~c.alive /\ d \in Reconnect(c)
  <2>. DEFINE e == [c EXCEPT !.wire = <<>>]
  <2>1. e \in Connections /\ e.open = c.open /\ ~e.alive /\ ~IsAlive(e)
    <3>. DEFINE w == <<>>
    <3>1. w \in Seq(Commands)
      OBVIOUS
    <3>. HIDE DEF w
    <3>2. [c EXCEPT !.wire = w] \in Connections /\ [c EXCEPT !.wire = w].open = c.open
          /\ [c EXCEPT !.wire = w].alive = c.alive
      BY <3>1 DEF Connections
    <3>. QED  BY <1>3, <3>2 DEF w, IsAlive
  <2>2. CASE d # c
    <3>1. PICK r \in Asked(e, 1) : d = IF r.ok THEN [r.c EXCEPT !.alive = TRUE] ELSE r.c
      BY <1>3, <2>2 DEF Reconnect
    <3>. HIDE DEF e
    <3>2. Backed(e)
      BY <2>1 DEF Backed
    <3>3. /\ r.c \in Connections /\ r.c.open = e.open /\ Backed(r.c) /\ (IsAlive(r.c) => IsAlive(e))
          /\ r.ok => IsAlive(e)
      BY <3>2, <2>1, AskedCommand
    <3>. QED  BY <1>3, <2>1, <3>1, <3>3 DEF Settled, IsAlive
  <2>. QED  BY <1>1, <2>2
<1>. QED  BY <1>1, <1>2, <1>3 DEF KeptAlive, IsAlive

\* Commands put on the wire of a connection.
LEMMA PipedConnection ==
  ASSUME NEW c \in Connections, IsAlive(c), Backed(c), NEW cmds \in Seq(Commands)
  PROVE  /\ Piped(c, cmds) \in Connections /\ Piped(c, cmds).open = c.open
         /\ IsAlive(Piped(c, cmds)) /\ Backed(Piped(c, cmds))
         /\ cmds = <<>> => Piped(c, cmds) = c
         /\ Empty(c) => /\ Piped(c, cmds).wire = cmds /\ Piped(c, cmds).need = Len(cmds)
                        /\ Piped(c, cmds).reply = None
<1>. DEFINE w == c.wire \o cmds
            n == c.need + Len(cmds)
            d == [c EXCEPT !.wire = w, !.need = n]
<1>1. c.wire \in Seq(Commands) /\ c.need \in Nat /\ c.need <= Len(c.wire)
  BY DEF Connections, Backed
<1>2. w \in Seq(Commands) /\ Len(w) = Len(c.wire) + Len(cmds) /\ Len(cmds) \in Nat
  BY <1>1, ConcatProperties, LenProperties
<1>3. n \in Nat /\ n <= Len(w)
  BY <1>1, <1>2
<1>4. cmds = <<>> => w = c.wire /\ n = c.need
  BY <1>1, ConcatEmptySeq, EmptySeq
<1>5. Empty(c) => w = cmds /\ n = Len(cmds)
  BY <1>2, ConcatEmptySeq DEF Empty
<1>. HIDE DEF w, n
<1>6. /\ d \in Connections /\ d.open = c.open /\ d.alive = c.alive /\ d.wire = w /\ d.need = n
      /\ d.reply = c.reply
  BY <1>2, <1>3 DEF Connections
<1>7. w = c.wire /\ n = c.need => d = c
  BY DEF Connections
<1>8. Piped(c, cmds) = d
  BY DEF Piped, w, n
<1>. HIDE DEF d
<1>. QED  BY <1>3, <1>4, <1>5, <1>6, <1>7, <1>8 DEF IsAlive, Backed, Empty


\* Part of a sequence of commands.
LEMMA CommandsFrom ==
  ASSUME NEW w \in Seq(Commands), NEW k \in 0 .. Len(w)
  PROVE  /\ SubSeq(w, 1, k) \in Seq(Commands) /\ SubSeq(w, k + 1, Len(w)) \in Seq(Commands)
         /\ Len(SubSeq(w, 1, k)) = k /\ Len(SubSeq(w, k + 1, Len(w))) = Len(w) - k
         /\ IsPrefix(SubSeq(w, 1, k), w)
         /\ SubSeq(w, 1, Len(w)) = w /\ SubSeq(w, Len(w) + 1, Len(w)) = <<>>
<1>1. Len(w) \in Nat /\ k \in Nat /\ k <= Len(w) /\ \A i \in 1 .. Len(w) : w[i] \in Commands
  BY LenProperties, ElementOfSeq
<1>2. SubSeq(w, 1, k) \in Seq(Commands) /\ Len(SubSeq(w, 1, k)) = k
  <2>1. /\ SubSeq(w, 1, k) \in Seq(Commands)
        /\ Len(SubSeq(w, 1, k)) = IF 1 <= k THEN k - 1 + 1 ELSE 0
    BY <1>1, SubSeqProperties
  <2>. QED  BY <1>1, <2>1
<1>3. SubSeq(w, k + 1, Len(w)) \in Seq(Commands) /\ Len(SubSeq(w, k + 1, Len(w))) = Len(w) - k
  <2>. DEFINE m == k + 1
              n == Len(w)
  <2>1. m \in Int /\ n \in Int /\ \A i \in m .. n : w[i] \in Commands
    BY <1>1
  <2>. HIDE DEF m, n
  <2>2. SubSeq(w, m, n) \in Seq(Commands) /\ Len(SubSeq(w, m, n)) = IF m <= n THEN n - m + 1 ELSE 0
    BY <2>1, SubSeqProperties
  <2>. QED  BY <1>1, <2>2 DEF m, n
<1>4. IsPrefix(SubSeq(w, 1, k), w)
  <2>. DEFINE s == SubSeq(w, 1, k)
  <2>1. SubSeq(s, 1, Len(s)) = s
    BY <1>2, SubSeqFull
  <2>. QED  BY <1>1, <1>2, <2>1 DEF IsPrefix
<1>5. SubSeq(w, Len(w) + 1, Len(w)) = <<>>
  BY <1>1, SubSeqEmpty
<1>. QED  BY <1>2, <1>3, <1>4, <1>5, SubSeqFull

\* pop_reply() until it answers nothing.  Where the replies owed are all there is on the
\* wire, they are handed out in order: all of them, or the first few of a connection that
\* is lost over it.
LEMMA PoppedReplies ==
  ASSUME NEW d \in Connections, IsAlive(d), Backed(d), NEW p \in PoppedAll(d)
  PROVE  /\ p.c \in Connections /\ p.c.open = d.open /\ Backed(p.c) /\ p.got \in Seq(Commands)
         /\ d.reply = None /\ d.need = Len(d.wire) =>
              IF IsAlive(p.c) THEN Empty(p.c) /\ p.got = d.wire ELSE IsPrefix(p.got, d.wire)
<1>. DEFINE kept == IF d.reply = None THEN <<>> ELSE <<d.reply>>
            e == [d EXCEPT !.reply = None]
            w == d.wire
            n == d.need
            after == SubSeq(w, n + 1, Len(w))
<1>1. /\ w \in Seq(Commands) /\ n \in Nat /\ Len(w) \in Nat /\ n <= Len(w)
      /\ d.reply \in Commands /\ None \in Commands
  BY LenProperties DEF Connections, Backed, None, Commands
<1>2. kept \in Seq(Commands)
  BY <1>1
<1>3. e \in Connections /\ e.open = d.open /\ e.alive /\ e.wire = w /\ e.need = n /\ e.reply = None
  BY <1>1 DEF Connections, IsAlive
<1>4. \/ p = [c |-> [e EXCEPT !.wire = SubSeq(@, n + 1, Len(@)), !.need = 0],
              got |-> kept \o SubSeq(w, 1, n)]
      \/ \E k \in 0 .. (n - 1) :
           p = [c |-> Lost([e EXCEPT !.wire = SubSeq(@, k + 1, Len(@)), !.need = @ - k]),
                got |-> kept \o SubSeq(w, 1, k)]
  BY DEF PoppedAll
<1>. HIDE DEF e
<1>5. ASSUME NEW k \in 0 .. n
      PROVE  /\ kept \o SubSeq(w, 1, k) \in Seq(Commands)
             /\ IsPrefix(SubSeq(w, 1, k), w)
             /\ kept = <<>> => kept \o SubSeq(w, 1, k) = SubSeq(w, 1, k)
             /\ SubSeq(w, k + 1, Len(w)) \in Seq(Commands)
  <2>1. k \in 0 .. Len(w)
    BY <1>1
  <2>2. SubSeq(w, 1, k) \in Seq(Commands)
    BY <1>1, <2>1, CommandsFrom
  <2>. HIDE DEF kept
  <2>3. kept \o SubSeq(w, 1, k) \in Seq(Commands)
    BY <1>2, <2>2, ConcatProperties
  <2>4. kept = <<>> => kept \o SubSeq(w, 1, k) = SubSeq(w, 1, k)
    BY <2>2, ConcatEmptySeq
  <2>. QED  BY <1>1, <2>1, <2>3, <2>4, CommandsFrom
<1>6. ASSUME NEW k \in 0 .. n, NEW m \in Nat
      PROVE  LET f == [e EXCEPT !.wire = SubSeq(@, k + 1, Len(@)), !.need = m]
             IN  /\ f \in Connections /\ f.open = e.open /\ f.alive = e.alive
                 /\ f.wire = SubSeq(w, k + 1, Len(w)) /\ f.need = m /\ f.reply = e.reply
  <2>. DEFINE t == SubSeq(w, k + 1, Len(w))
              f == [e EXCEPT !.wire = t, !.need = m]
  <2>1. t \in Seq(Commands)
    BY <1>5
  <2>. HIDE DEF t
  <2>2. f \in Connections /\ f.open = e.open /\ f.alive = e.alive /\ f.wire = t /\ f.need = m /\ f.reply = e.reply
    BY <1>3, <2>1 DEF Connections
  <2>3. f = [e EXCEPT !.wire = SubSeq(@, k + 1, Len(@)), !.need = m]
    BY <1>3 DEF t
  <2>. QED  BY <2>2, <2>3 DEF t
<1>7. CASE p = [c |-> [e EXCEPT !.wire = SubSeq(@, n + 1, Len(@)), !.need = 0],
                got |-> kept \o SubSeq(w, 1, n)]
  <2>1. /\ p.c \in Connections /\ p.c.open = e.open /\ p.c.alive = e.alive
        /\ p.c.wire = after /\ p.c.need = 0 /\ p.c.reply = e.reply
    <3>. DEFINE f == [e EXCEPT !.wire = SubSeq(@, n + 1, Len(@)), !.need = 0]
    <3>1. n \in 0 .. n /\ 0 \in Nat
      BY <1>1
    <3>2. /\ f \in Connections /\ f.open = e.open /\ f.alive = e.alive
          /\ f.wire = after /\ f.need = 0 /\ f.reply = e.reply
      BY <1>6, <3>1
    <3>3. p.c = f
      BY <1>7
    <3>. HIDE DEF f
    <3>. QED  BY <3>2, <3>3
  <2>2. p.got = kept \o SubSeq(w, 1, n) /\ p.got \in Seq(Commands)
    BY <1>1, <1>5, <1>7
  <2>3. Backed(p.c)
    BY <2>1, LenProperties DEF Backed, Connections
  <2>4. ASSUME d.reply = None, n = Len(w)
        PROVE  Empty(p.c) /\ p.got = w
    <3>1. after = <<>>
      BY <1>1, <2>4, CommandsFrom
    <3>2. SubSeq(w, 1, n) = w /\ kept = <<>>
      BY <1>1, <2>4, CommandsFrom
    <3>3. p.got = SubSeq(w, 1, n)
      BY <1>1, <1>5, <2>2, <3>2
    <3>. QED  BY <1>3, <2>1, <3>1, <3>2, <3>3 DEF Empty
  <2>. QED  BY <1>3, <2>1, <2>2, <2>3, <2>4 DEF IsAlive
<1>8. ASSUME NEW k \in 0 .. (n - 1),
             p = [c |-> Lost([e EXCEPT !.wire = SubSeq(@, k + 1, Len(@)), !.need = @ - k]),
                  got |-> kept \o SubSeq(w, 1, k)]
      PROVE  /\ p.c \in Connections /\ p.c.open = d.open /\ Backed(p.c) /\ p.got \in Seq(Commands)
             /\ ~IsAlive(p.c) /\ (d.reply = None => IsPrefix(p.got, w))
  <2>. DEFINE m == e.need - k
              f == [e EXCEPT !.wire = SubSeq(@, k + 1, Len(@)), !.need = m]
  <2>1. k \in 0 .. n /\ m \in Nat
    BY <1>1, <1>3
  <2>2. p = [c |-> Lost(f), got |-> kept \o SubSeq(w, 1, k)]
    BY <1>8
  <2>. HIDE DEF m
  <2>3. f \in Connections /\ f.open = e.open
    BY <1>6, <2>1
  <2>4. p.c \in Connections /\ p.c.open = e.open /\ ~p.c.alive
    <3>. HIDE DEF f
    <3>. QED  BY <2>2, <2>3, LostConnection
  <2>5. p.got = kept \o SubSeq(w, 1, k)
    BY <2>2
  <2>6. d.reply = None => kept = <<>>
    OBVIOUS
  <2>. HIDE DEF kept, w
  <2>. QED  BY <1>3, <1>5, <2>1, <2>4, <2>5, <2>6 DEF Backed, IsAlive
<1>. QED  BY <1>4, <1>7, <1>8


-----------------------------------------------------------------------------
(* The invariant.                                                          *)

\* The items that the logic thread sends.  One of request 0 is compact()'s.
RedisRequest ==
  {req \in [id : ReqIDs, type : {"connect", "command", "pipe"}, cmds : Seq(BOOLEAN)] :
     /\ req.type = "connect" => req.cmds = <<>>
     /\ req.type = "command" => Len(req.cmds) = 1
     /\ req.type = "pipe" => req.cmds # <<>>}

LevelRequest ==
  {req \in [id : ReqIDs \cup {0}, type : L!Types] : req.id = 0 => req.type = "empty"}

Request == IF which = "redis" THEN RedisRequest ELSE LevelRequest

\* What OwnReplies says of one callback.
Proper(g) ==
  ~g.mixed /\ ~g.error => IF g.lost THEN IsPrefix(g.got, g.cmds) ELSE g.got = g.cmds

\* The items that the worker sends back.
RedisResponse ==
  {g \in [id : ReqIDs, cmds : Seq(Commands), got : Seq(Commands),
          error : BOOLEAN, lost : BOOLEAN, mixed : BOOLEAN] : Proper(g)}

LevelResponse ==
  {g \in [id : ReqIDs \cup {0}, reply : [of : ReqIDs \cup {0}, ok : BOOLEAN, done : BOOLEAN]] :
     g.reply.of = g.id}

Response == IF which = "redis" THEN RedisResponse ELSE LevelResponse

Lists ==
  /\ wnl \in Seq(Request) /\ swapReq \in Seq(Request) /\ reqQueue \in Seq(Request)
  /\ nl \in Seq(Response) /\ swapResp \in Seq(Response) /\ respQueue \in Seq(Response)

\* The two threads, and which of the lists are empty while each stands where it stands.
Control ==
  /\ which \in {"redis", "level"}
  /\ lpc \in {"idle", "resp", "sweep", "join"}
  /\ wpc \in {"none", "spawned", "top", "work", "exit"}
  /\ handle \in BOOLEAN /\ (handle <=> wpc \in {"top", "work", "exit"})
  /\ lpc # "resp" => nl = <<>>
  /\ wpc # "work" => wnl = <<>> /\ respQueue = <<>>

Outcomes == {"unused", "waiting", "answered", "timeout", "dropped"}

\* A request waits from its issue to its outcome.
Calls ==
  /\ reqGen \in Nat /\ waiting \subseteq ReqIDs /\ outcome \in [ReqIDs -> Outcomes]
  /\ \A id \in ReqIDs : id \in waiting <=> outcome[id] = "waiting"
  /\ \A id \in ReqIDs : id > reqGen => outcome[id] = "unused"

\* The connection has on the wire what it owes, and is as good as new unless it is lost
\* or a pipe broke off.
RedisInv ==
  /\ conn \in Connections /\ broken \in BOOLEAN /\ reqing \in Seq(BOOLEAN)
  /\ Backed(conn) /\ Settled(conn, broken)
  /\ DOMAIN given = ReqIDs /\ \A id \in ReqIDs : Proper(given[id])

\* The two channels.
Reqs  == (wnl \o swapReq) \o reqQueue
Resps == (nl \o swapResp) \o respQueue

\* Of lists of items, and of the list of the requests executed.
Ascends(s)   == \A i, j \in DOMAIN s : i < j /\ s[i].id # 0 /\ s[j].id # 0 => s[i].id < s[j].id
UpTo(s, n)   == \A i \in DOMAIN s : s[i].id <= n
Behind(e, s) == \A i \in DOMAIN e, j \in DOMAIN s : s[j].id # 0 => e[i] < s[j].id
Honest(s, e) == \A i \in DOMAIN s : s[i].reply.done => s[i].id \in ToSet(e)

\* The requests on the way, and those executed before them, ascend; a reply that tells of
\* success is one of a request that was executed.
LevelInv ==
  /\ mReply = L!NoReply /\ mContext \in BOOLEAN
  /\ executed \in Seq(ReqIDs)
  /\ \A i, j \in DOMAIN executed : i < j => executed[i] < executed[j]
  /\ \A i \in DOMAIN executed : executed[i] <= reqGen
  /\ Ascends(Reqs) /\ UpTo(Reqs, reqGen)
  /\ Behind(executed, Reqs) /\ Honest(Resps, executed)
  /\ DOMAIN given = ReqIDs
  /\ \A id \in ReqIDs : outcome[id] = "answered" =>
       given[id].of = id /\ (given[id].done => id \in ToSet(executed))

IInv ==
  /\ Lists /\ Control /\ Calls
  /\ which = "redis" => RedisInv
  /\ which = "level" => LevelInv

-----------------------------------------------------------------------------
(* What a step of either connector does to the lists and to the calls.     *)

\* The lists are left alone.
Quiet ==
  /\ UNCHANGED <<nl, reqQueue, waiting, reqGen, swapReq, swapResp, wnl, respQueue, outcome>>
  /\ \/ UNCHANGED <<lpc, wpc, handle>>
     \/ lpc = "idle" /\ lpc' = "join" /\ UNCHANGED <<wpc, handle>>
     \/ wpc = "none" /\ wpc' = "spawned" /\ UNCHANGED <<lpc, handle>>
     \/ wpc = "spawned" /\ wpc' = "top" /\ handle' = TRUE /\ UNCHANGED lpc
     \/ wpc = "exit" /\ wpc' = "none" /\ handle' = FALSE /\ UNCHANGED lpc

Sends(req) ==
  /\ req \in Request
  /\ reqQueue' = Append(reqQueue, req)
  /\ \/ req.id = 0 /\ UNCHANGED <<waiting, reqGen, outcome>>
     \/ /\ req.id = reqGen + 1 /\ req.id \in ReqIDs
        /\ reqGen' = req.id /\ waiting' = waiting \cup {req.id}
        /\ outcome' = [outcome EXCEPT ![req.id] = "waiting"]
  /\ UNCHANGED <<lpc, nl, swapReq, swapResp, handle, wpc, wnl, respQueue>>

Updates ==
  /\ lpc = "idle" /\ lpc' = "resp" /\ nl' = swapResp /\ swapResp' = <<>>
  /\ UNCHANGED <<reqQueue, waiting, reqGen, swapReq, handle, wpc, wnl, respQueue, outcome>>

Delivers ==
  /\ lpc = "resp" /\ nl # <<>> /\ nl' = Tail(nl)
  /\ IF Head(nl).id \in waiting
       THEN /\ waiting' = waiting \ {Head(nl).id}
            /\ outcome' = [outcome EXCEPT ![Head(nl).id] = "answered"]
       ELSE UNCHANGED <<waiting, outcome>>
  /\ UNCHANGED <<lpc, reqQueue, reqGen, swapReq, swapResp, handle, wpc, wnl, respQueue>>

Publishes ==
  /\ lpc = "resp" /\ nl = <<>> /\ lpc' = "sweep"
  /\ swapReq' = swapReq \o reqQueue /\ reqQueue' = <<>>
  /\ UNCHANGED <<nl, waiting, reqGen, swapResp, handle, wpc, wnl, respQueue, outcome>>

Sweeps ==
  /\ lpc = "sweep" /\ lpc' = "idle"
  /\ waiting' = waiting \ Swept
  /\ outcome' = [id \in ReqIDs |-> IF id \in Swept THEN "timeout" ELSE outcome[id]]
  /\ UNCHANGED <<nl, reqQueue, reqGen, swapReq, swapResp, handle, wpc, wnl, respQueue>>

Stops ==
  /\ lpc = "join" /\ ~handle /\ lpc' = "idle"
  /\ waiting' = {}
  /\ outcome' = [id \in ReqIDs |-> IF id \in waiting THEN "dropped" ELSE outcome[id]]
  /\ reqQueue' = <<>> /\ swapReq' = <<>> /\ swapResp' = <<>>
  /\ UNCHANGED <<nl, reqGen, handle, wpc, wnl, respQueue>>

Fetches ==
  /\ wpc = "top" /\ wpc' = "work" /\ wnl' = swapReq /\ swapReq' = <<>>
  /\ UNCHANGED <<lpc, nl, reqQueue, waiting, reqGen, swapResp, handle, respQueue, outcome>>

Works(g) ==
  /\ wpc = "work" /\ wnl # <<>> /\ wnl' = Tail(wnl)
  /\ g \in Response /\ respQueue' = Append(respQueue, g)
  /\ UNCHANGED <<lpc, nl, reqQueue, waiting, reqGen, swapReq, swapResp, handle, wpc, outcome>>

Reports ==
  /\ \/ wpc = "work" /\ wnl = <<>> /\ wpc' = "top"
     \/ wpc = "top" /\ wpc' = "exit"
  /\ swapResp' = swapResp \o respQueue /\ respQueue' = <<>>
  /\ UNCHANGED <<lpc, nl, reqQueue, waiting, reqGen, swapReq, handle, wnl, outcome>>

BridgeStep ==
  \/ Quiet \/ Updates \/ Delivers \/ Publishes \/ Sweeps \/ Stops \/ Fetches \/ Reports
  \/ \E req \in Request : Sends(req)
  \/ \E g \in Response : Works(g)

\* The lists keep their types and the threads their phases.
LEMMA StepLists ==
  ASSUME Lists, Control, BridgeStep, which' = which
  PROVE  Lists' /\ Control'
<1>1. Request' = Request /\ Response' = Response
  BY DEF Request, Response, RedisRequest, LevelRequest, RedisResponse, LevelResponse, L!Types
<1>2. <<>> \in Seq(Request) /\ <<>> \in Seq(Response)
  OBVIOUS
<1>. USE DEF Lists, Control
<1>3. CASE Quiet
  <2>1. Lists'
    BY <1>1, <1>3 DEF Quiet
  <2>2. UNCHANGED <<nl, wnl, respQueue>>
    BY <1>3 DEF Quiet
  <2>3. CASE UNCHANGED <<lpc, wpc, handle>>
    BY <2>1, <2>2, <2>3
  <2>4. CASE lpc = "idle" /\ lpc' = "join" /\ UNCHANGED <<wpc, handle>>
    BY <2>1, <2>2, <2>4
  <2>5. CASE wpc = "none" /\ wpc' = "spawned" /\ UNCHANGED <<lpc, handle>>
    BY <2>1, <2>2, <2>5
  <2>6. CASE wpc = "spawned" /\ wpc' = "top" /\ handle' = TRUE /\ UNCHANGED lpc
    BY <2>1, <2>2, <2>6
  <2>7. CASE wpc = "exit" /\ wpc' = "none" /\ handle' = FALSE /\ UNCHANGED lpc
    BY <2>1, <2>2, <2>7
  <2>. QED  BY <1>3, <2>3, <2>4, <2>5, <2>6, <2>7 DEF Quiet
<1>4. CASE Updates
  BY <1>1, <1>2, <1>4 DEF Updates
<1>5. CASE Delivers
  <2>1. Tail(nl) \in Seq(Response)
    BY <1>5, HeadTailProperties DEF Delivers
  <2>. QED  BY <1>1, <1>5, <2>1 DEF Delivers
<1>6. CASE Publishes
  <2>1. swapReq \o reqQueue \in Seq(Request)
    BY ConcatProperties
  <2>. QED  BY <1>1, <1>2, <1>6, <2>1 DEF Publishes
<1>7. CASE Sweeps
  BY <1>1, <1>7 DEF Sweeps
<1>8. CASE Stops
  BY <1>1, <1>2, <1>8 DEF Stops
<1>9. CASE Fetches
  BY <1>1, <1>2, <1>9 DEF Fetches
<1>10. CASE Reports
  <2>1. swapResp \o respQueue \in Seq(Response)
    BY ConcatProperties
  <2>. QED  BY <1>1, <1>2, <1>10, <2>1 DEF Reports
<1>11. ASSUME NEW req \in Request, Sends(req)
       PROVE  Lists' /\ Control'
  <2>1. Append(reqQueue, req) \in Seq(Request)
    BY AppendProperties
  <2>. QED  BY <1>1, <1>11, <2>1 DEF Sends
<1>12. ASSUME NEW g \in Response, Works(g)
       PROVE  Lists' /\ Control'
  <2>1. Append(respQueue, g) \in Seq(Response)
    BY AppendProperties
  <2>2. Tail(wnl) \in Seq(Request)
    BY <1>12, HeadTailProperties DEF Works
  <2>. QED  BY <1>1, <1>12, <2>1, <2>2 DEF Works
<1>. QED  BY <1>3, <1>4, <1>5, <1>6, <1>7, <1>8, <1>9, <1>10, <1>11, <1>12 DEF BridgeStep

\* A request waits from its issue to its outcome.
LEMMA StepCalls ==
  ASSUME Calls, BridgeStep
  PROVE  Calls'
<1>. USE DEF Calls, Outcomes
<1>1. CASE Quiet \/ Updates \/ Publishes \/ Fetches \/ Reports \/ \E g \in Response : Works(g)
  BY <1>1 DEF Quiet, Updates, Publishes, Fetches, Reports, Works
<1>2. CASE Delivers
  BY <1>2 DEF Delivers
<1>3. CASE Sweeps
  <2>1. waiting' = waiting \ Swept /\ reqGen' = reqGen
        /\ outcome' = [id \in ReqIDs |-> IF id \in Swept THEN "timeout" ELSE outcome[id]]
    BY <1>3 DEF Sweeps
  <2>2. Swept \subseteq waiting
    BY DEF Swept
  <2>. QED  BY <2>1, <2>2
<1>4. CASE Stops
  BY <1>4 DEF Stops
<1>5. ASSUME NEW req \in Request, Sends(req)
      PROVE  Calls'
  <2>1. CASE req.id = 0 /\ UNCHANGED <<waiting, reqGen, outcome>>
    BY <2>1
  <2>2. CASE /\ req.id = reqGen + 1 /\ req.id \in ReqIDs
             /\ reqGen' = req.id /\ waiting' = waiting \cup {req.id}
             /\ outcome' = [outcome EXCEPT ![req.id] = "waiting"]
    BY <2>2 DEF ReqIDs
  <2>. QED  BY <1>5, <2>1, <2>2 DEF Sends
<1>. QED  BY <1>1, <1>2, <1>3, <1>4, <1>5 DEF BridgeStep


-----------------------------------------------------------------------------
(* The worker of RedisAsync.                                               *)

\* The commands of a request.
LEMMA CommandsOf ==
  ASSUME NEW req \in RedisRequest
  PROVE  /\ Cmds(req) \in Seq(Commands) /\ Len(Cmds(req)) = Len(req.cmds)
         /\ req.type = "connect" => Cmds(req) = <<>>
         /\ req.type = "command" => Cmds(req) = <<Cmd(req, 1)>> /\ req.cmds[1] \in BOOLEAN
         /\ Cmd(req, 1) \in Commands \ {None}
<1>1. req.id \in Nat \ {0} /\ req.cmds \in Seq(BOOLEAN)
  BY DEF RedisRequest, ReqIDs
<1>2. Len(req.cmds) \in Nat /\ \A k \in 1 .. Len(req.cmds) : req.cmds[k] \in BOOLEAN
  BY <1>1, LenProperties, ElementOfSeq
<1>3. \A k \in Nat : Cmd(req, k) \in Commands /\ Cmd(req, k) # None
  BY <1>1 DEF Cmd, Commands, None
<1>4. Cmds(req) \in Seq(Commands) /\ Len(Cmds(req)) = Len(req.cmds)
      /\ \A k \in 1 .. Len(req.cmds) : Cmds(req)[k] = Cmd(req, k)
  BY <1>2, <1>3 DEF Cmds
<1>5. req.type = "connect" => Len(req.cmds) = 0
  BY DEF RedisRequest
<1>6. req.type = "command" => Len(req.cmds) = 1
  BY DEF RedisRequest
<1>7. req.type = "command" => Cmds(req) = <<Cmd(req, 1)>>
  <2>. HAVE req.type = "command"
  <2>1. <<Cmd(req, 1)>> \in Seq(Commands) /\ Len(<<Cmd(req, 1)>>) = 1
        /\ <<Cmd(req, 1)>>[1] = Cmd(req, 1)
    BY <1>3
  <2>. QED  BY <1>4, <1>6, <2>1, SeqEqual
<1>8. req.type = "connect" => Cmds(req) = <<>>
  BY <1>4, <1>5, EmptySeq
<1>. QED  BY <1>2, <1>3, <1>4, <1>6, <1>7, <1>8

\* The worker answers a request, and its operations leave connection c.
LEMMA AnsweredItem ==
  ASSUME NEW req \in RedisRequest, NEW got \in Seq(Commands), NEW error \in BOOLEAN,
         NEW c \in Connections, NEW half \in BOOLEAN, broken \in BOOLEAN,
         Answered(req, got, error, c, half),
         Backed(c), Settled(c, c.open /\ (broken \/ half)),
         ~broken /\ ~error => IF IsAlive(c) THEN got = Cmds(req) ELSE IsPrefix(got, Cmds(req))
  PROVE  /\ conn' \in Connections /\ broken' \in BOOLEAN
         /\ Backed(conn') /\ Settled(conn', broken')
         /\ \E g \in RedisResponse : respQueue' = Append(respQueue, g)
<1>. DEFINE g == Reply(req, got, error, c)
<1>1. /\ conn' = c /\ broken' = (c.open /\ (broken \/ half)) /\ respQueue' = Append(respQueue, g)
  BY DEF Answered
<1>2. c.open \in BOOLEAN /\ IsAlive(c) \in BOOLEAN
  BY DEF Connections, IsAlive
<1>3. req.id \in ReqIDs /\ Cmds(req) \in Seq(Commands)
  BY CommandsOf DEF RedisRequest
<1>4. /\ g.id = req.id /\ g.cmds = Cmds(req) /\ g.got = got /\ g.error = error
      /\ g.lost = ~IsAlive(c) /\ g.mixed = broken
  BY DEF Reply
<1>5. g \in [id : ReqIDs, cmds : Seq(Commands), got : Seq(Commands),
             error : BOOLEAN, lost : BOOLEAN, mixed : BOOLEAN]
  BY <1>2, <1>3 DEF Reply
<1>6. Proper(g)
  BY <1>2, <1>4 DEF Proper
<1>7. g \in RedisResponse
  BY <1>5, <1>6 DEF RedisResponse
<1>. HIDE DEF g
<1>. QED  BY <1>1, <1>2, <1>7

\* How many commands of a pipe the connector accepts.
LEMMA AcceptedCommands ==
  ASSUME NEW c, NEW req \in RedisRequest
  PROVE  /\ Accepted(c, req) \in 0 .. Len(req.cmds)
         /\ ~IsAlive(c) => Accepted(c, req) = 0
<1>1. Len(req.cmds) \in Nat /\ DOMAIN req.cmds = 1 .. Len(req.cmds)
  BY LenProperties DEF RedisRequest
<1>. DEFINE S == {k \in DOMAIN req.cmds : \A j \in 1 .. k : req.cmds[j]}
<1>2. S \subseteq 1 .. Len(req.cmds)
  BY <1>1
<1>. HIDE DEF S
<1>3. IsFiniteSet(1 .. Len(req.cmds)) /\ Cardinality(1 .. Len(req.cmds)) = Len(req.cmds)
  BY <1>1, FS_Interval
<1>4. IsFiniteSet(S) /\ Cardinality(S) <= Len(req.cmds)
  BY <1>2, <1>3, FS_Subset
<1>5. Cardinality(S) \in Nat
  BY <1>4, FS_CardinalityType
<1>6. Accepted(c, req) = IF ~IsAlive(c) THEN 0 ELSE Cardinality(S)
  BY DEF Accepted, S
<1>. QED  BY <1>1, <1>4, <1>5, <1>6

\* work_req's loop body: every request is answered, by the replies to its own commands
\* as long as no pipe broke off on the connection.
LEMMA RedisWorks ==
  ASSUME which = "redis", Lists, RedisInv, WorkItem
  PROVE  RedisInv' /\ \E g \in Response : Works(g)
<1>. DEFINE req == Head(wnl)
<1>. USE DEF logicVars, sharedVars, histVars
<1>1. /\ wpc = "work" /\ wnl # <<>> /\ wnl' = Tail(wnl)
      /\ WorkConnect(req) \/ WorkCommand(req) \/ WorkPipeBroken(req) \/ WorkPipe(req)
      /\ UNCHANGED <<lpc, nl, reqQueue, waiting, reqGen, expired, reqing, swapReq, swapResp, handle,
                     running, wpc, starts, outcome, given>>
  BY DEF WorkItem
<1>2. req \in RedisRequest
  BY <1>1, HeadTailProperties DEF Lists, Request
<1>3. /\ conn \in Connections /\ broken \in BOOLEAN /\ Backed(conn) /\ Settled(conn, broken)
      /\ ~conn.open => Empty(conn)
  BY DEF RedisInv, Settled
<1>4. IsAlive(conn) /\ ~broken => Empty(conn)
  BY <1>3 DEF Settled, IsAlive
<1>5. SUFFICES /\ conn' \in Connections /\ broken' \in BOOLEAN
               /\ Backed(conn') /\ Settled(conn', broken')
               /\ \E g \in RedisResponse : respQueue' = Append(respQueue, g)
  <2>1. Response = RedisResponse
    BY DEF Response
  <2>. HIDE DEF req
  <2>2. PICK g \in RedisResponse : respQueue' = Append(respQueue, g)
    BY <1>5
  <2>3. Works(g)
    BY <1>1, <2>1, <2>2 DEF Works
  <2>4. RedisInv'
    BY <1>1, <1>5 DEF RedisInv
  <2>. QED  BY <2>1, <2>3, <2>4
<1>. HIDE DEF req
<1>6. <<>> \in Seq(Commands)
  OBVIOUS
<1>7. CASE WorkConnect(req)
  <2>1. PICK r \in Connect(conn) : Answered(req, <<>>, ~r.ok, r.c, FALSE)
    BY <1>7 DEF WorkConnect
  <2>2. /\ r.c \in Connections /\ Backed(r.c) /\ r.ok \in BOOLEAN
        /\ conn.open => r.c = conn /\ ~r.ok
        /\ ~conn.open => (r.c.open => IsAlive(r.c)) /\ Empty(r.c)
    BY <1>3, ConnectedOrNot
  <2>3. Cmds(req) = <<>> /\ IsPrefix(<<>>, <<>>)
    <3>1. Cmds(req) = <<>>
      BY <1>2, <1>7, CommandsOf DEF WorkConnect
    <3>2. SubSeq(<<>>, 1, Len(<<>>)) = SubSeq(<<>>, 1, Len(<<>>)) /\ Len(<<>>) = 0
      OBVIOUS
    <3>. QED  BY <3>1, <3>2 DEF IsPrefix
  <2>4. Settled(r.c, r.c.open /\ (broken \/ FALSE))
    BY <1>3, <2>2 DEF Settled
  <2>. QED  BY <1>2, <1>3, <1>6, <2>1, <2>2, <2>3, <2>4, AnsweredItem
<1>8. CASE WorkCommand(req)
  <2>. DEFINE cmd == Cmd(req, 1)
              ok == req.cmds[1]
  <2>1. PICK r \in Command(conn, cmd, ok) :
          \E p \in PopReply(r.c) :
            IF p.reply = None THEN Answered(req, <<>>, ~r.ok, p.c, FALSE)
                              ELSE Answered(req, <<p.reply>>, FALSE, p.c, FALSE)
    BY <1>8 DEF WorkCommand
  <2>2. PICK p \in PopReply(r.c) :
            IF p.reply = None THEN Answered(req, <<>>, ~r.ok, p.c, FALSE)
                              ELSE Answered(req, <<p.reply>>, FALSE, p.c, FALSE)
    BY <2>1
  <2>3. Cmds(req) = <<cmd>> /\ ok \in BOOLEAN /\ cmd \in Commands \ {None}
    BY <1>2, <1>8, CommandsOf DEF WorkCommand
  <2>. HIDE DEF cmd, ok
  <2>4. /\ p.c \in Connections /\ p.c.open = conn.open /\ Backed(p.c) /\ p.reply \in Commands
        /\ IsAlive(p.c) => IsAlive(conn)
        /\ r.ok => ok /\ IsAlive(conn)
        /\ Empty(conn) =>
             /\ IsAlive(p.c) => Empty(p.c)
             /\ IF r.ok THEN p.reply = cmd /\ IsAlive(p.c) ELSE p.reply = None
    BY <1>3, <2>3, AnsweredCommand
  <2>5. Settled(p.c, p.c.open /\ (broken \/ FALSE))
    <3>1. ~conn.open => p.c = conn
      <4>1. ~conn.open => ~IsAlive(conn)
        BY DEF IsAlive
      <4>. QED  BY <1>3, <4>1, DeadCommand
    <3>. QED  BY <1>3, <1>4, <2>4, <3>1 DEF Settled, IsAlive
  <2>6. r.ok \in BOOLEAN
    <3>1. r.ok = FALSE \/ r.ok = TRUE
      BY DEF Command, Result
    <3>. QED  BY <3>1
  <2>7. CASE p.reply = None
    <3>1. Answered(req, <<>>, ~r.ok, p.c, FALSE)
      BY <2>2, <2>7
    <3>2. ~broken => ~r.ok
      BY <1>4, <2>3, <2>4, <2>7
    <3>. QED  BY <1>2, <1>3, <1>6, <2>4, <2>5, <2>6, <3>1, <3>2, AnsweredItem
  <2>8. CASE p.reply # None
    <3>0. Answered(req, <<p.reply>>, FALSE, p.c, FALSE)
      BY <2>2, <2>8
    <3>1. <<p.reply>> \in Seq(Commands)
      BY <2>4
    <3>2. IsAlive(conn)
      <4>1. ~IsAlive(conn) => p.reply = None
        BY <1>3, DeadCommand
      <4>. QED  BY <2>8, <4>1
    <3>3. ~broken => p.reply = cmd /\ IsAlive(p.c)
      BY <1>4, <2>4, <2>8, <3>2
    <3>. QED  BY <1>2, <1>3, <2>3, <2>4, <2>5, <3>0, <3>1, <3>3, AnsweredItem
  <2>. QED  BY <2>7, <2>8
<1>9. CASE WorkPipeBroken(req)
  <2>. DEFINE n == Accepted(conn, req)
              cmds == SubSeq(Cmds(req), 1, n)
              c == Piped(conn, cmds)
  <2>1. Answered(req, <<>>, TRUE, c, n > 0) /\ n < Len(req.cmds)
    BY <1>9 DEF WorkPipeBroken
  <2>2. /\ n \in 0 .. Len(Cmds(req)) /\ (~IsAlive(conn) => n = 0)
        /\ Cmds(req) \in Seq(Commands) /\ Len(Cmds(req)) = Len(req.cmds)
    BY <1>2, AcceptedCommands, CommandsOf
  <2>. HIDE DEF n
  <2>3. cmds \in Seq(Commands) /\ Len(cmds) = n
    BY <2>2, CommandsFrom
  <2>4. n = 0 => cmds = <<>>
    BY <2>3, EmptySeq
  <2>. HIDE DEF cmds
  <2>5. n = 0 => c = conn
    <3>1. c = [conn EXCEPT !.wire = conn.wire \o cmds, !.need = conn.need + Len(cmds)]
      BY DEF Piped
    <3>2. conn.wire \in Seq(Commands) /\ conn.need \in Nat
      BY <1>3 DEF Connections
    <3>3. n = 0 => conn.wire \o cmds = conn.wire /\ conn.need + Len(cmds) = conn.need
      BY <2>3, <2>4, <3>2, ConcatEmptySeq
    <3>. QED  BY <1>3, <3>1, <3>3 DEF Connections
  <2>6. CASE n = 0
    <3>1. Settled(conn, conn.open /\ (broken \/ FALSE))
      BY <1>3 DEF Settled
    <3>2. (n > 0) = FALSE
      BY <2>6
    <3>. QED  BY <1>2, <1>3, <1>6, <2>1, <2>5, <2>6, <3>1, <3>2, AnsweredItem
  <2>7. CASE n # 0
    <3>1. /\ c \in Connections /\ c.open = conn.open /\ Backed(c) /\ IsAlive(conn)
      BY <1>3, <2>2, <2>3, <2>7, PipedConnection
    <3>2. Settled(c, c.open /\ (broken \/ TRUE)) /\ (n > 0) = TRUE
      BY <2>2, <2>7, <3>1 DEF Settled, IsAlive
    <3>. QED  BY <1>2, <1>3, <1>6, <2>1, <3>1, <3>2, AnsweredItem
  <2>. QED  BY <2>6, <2>7
<1>10. CASE WorkPipe(req)
  <2>. DEFINE cmds == Cmds(req)
              d == Piped(conn, cmds)
  <2>1. PICK p \in PoppedAll(d) : Answered(req, p.got, FALSE, p.c, FALSE)
    BY <1>10 DEF WorkPipe
  <2>2. req.type = "pipe" /\ Accepted(conn, req) = Len(req.cmds)
    BY <1>10 DEF WorkPipe
  <2>3. IsAlive(conn)
    <3>1. Len(req.cmds) # 0
      BY <1>2, <2>2, EmptySeq DEF RedisRequest
    <3>. QED  BY <1>2, <2>2, <3>1, AcceptedCommands
  <2>4. cmds \in Seq(Commands)
    BY <1>2, CommandsOf
  <2>. HIDE DEF cmds
  <2>5. /\ d \in Connections /\ d.open = conn.open /\ IsAlive(d) /\ Backed(d)
        /\ Empty(conn) => d.wire = cmds /\ d.need = Len(cmds) /\ d.reply = None
    BY <1>3, <2>3, <2>4, PipedConnection
  <2>. HIDE DEF d
  <2>6. /\ p.c \in Connections /\ p.c.open = d.open /\ Backed(p.c) /\ p.got \in Seq(Commands)
        /\ d.reply = None /\ d.need = Len(d.wire) =>
             IF IsAlive(p.c) THEN Empty(p.c) /\ p.got = d.wire ELSE IsPrefix(p.got, d.wire)
    BY <2>5, PoppedReplies
  <2>7. ~broken => IF IsAlive(p.c) THEN Empty(p.c) /\ p.got = cmds ELSE IsPrefix(p.got, cmds)
    BY <1>4, <2>3, <2>5, <2>6
  <2>8. Settled(p.c, p.c.open /\ (broken \/ FALSE))
    BY <2>3, <2>5, <2>6, <2>7 DEF Settled, IsAlive
  <2>. QED  BY <1>2, <1>3, <2>1, <2>6, <2>7, <2>8, AnsweredItem DEF cmds
<1>. QED  BY <1>1, <1>7, <1>8, <1>9, <1>10


\* A request is made: a connect, a command or a pipe.
LEMMA RedisSends ==
  ASSUME which = "redis", Calls, NEW type, NEW cmds, Queued(type, cmds),
         \A id \in ReqIDs : [id |-> id, type |-> type, cmds |-> cmds] \in RedisRequest
  PROVE  \E req \in Request : Sends(req)
<1>. DEFINE req == [id |-> reqGen + 1, type |-> type, cmds |-> cmds]
<1>1. reqGen + 1 \in ReqIDs
  BY RedisBounds DEF Queued, Calls, ReqIDs
<1>2. req \in Request
  BY <1>1 DEF Request
<1>3. /\ reqQueue' = Append(reqQueue, req) /\ req.id = reqGen + 1
      /\ reqGen' = reqGen + 1 /\ waiting' = waiting \cup {reqGen + 1}
      /\ outcome' = [outcome EXCEPT ![reqGen + 1] = "waiting"]
      /\ UNCHANGED <<lpc, nl, swapReq, swapResp, handle, wpc, wnl, respQueue>>
  BY DEF Queued, sharedVars, workVars
<1>. HIDE DEF req
<1>4. Sends(req)
  BY <1>1, <1>2, <1>3 DEF Sends
<1>. QED  BY <1>2, <1>4

\* The steps of RedisAsync.
LEMMA RedisSteps ==
  ASSUME IInv, which = "redis", Next
  PROVE  RedisInv' /\ BridgeStep
<1>. USE DEF logicVars, sharedVars, workVars, histVars
<1>0. Lists /\ Control /\ Calls /\ RedisInv
  BY DEF IInv
<1>1. ASSUME UNCHANGED <<conn, broken, given>>, reqing' \in Seq(BOOLEAN)
      PROVE  RedisInv'
  BY <1>0, <1>1 DEF RedisInv
<1>2. <<>> \in Seq(BOOLEAN) /\ reqing \in Seq(BOOLEAN) /\ \A ok \in BOOLEAN : <<ok>> \in Seq(BOOLEAN)
  BY <1>0 DEF RedisInv
<1>3. CASE IssueConnect
  <2>1. Queued("connect", <<>>) /\ reqing' = reqing
    BY <1>3 DEF IssueConnect
  <2>2. \A id \in ReqIDs : [id |-> id, type |-> "connect", cmds |-> <<>>] \in RedisRequest
    BY <1>2 DEF RedisRequest
  <2>3. \E req \in Request : Sends(req)
    BY <1>0, <2>1, <2>2, RedisSends
  <2>4. UNCHANGED <<conn, broken, given>>
    BY <2>1 DEF Queued
  <2>. QED  BY <1>1, <1>2, <2>1, <2>3, <2>4 DEF BridgeStep
<1>4. CASE CommitPipe
  <2>1. Queued("pipe", reqing) /\ reqing' = <<>> /\ reqing # <<>>
    BY <1>4 DEF CommitPipe
  <2>2. \A id \in ReqIDs : [id |-> id, type |-> "pipe", cmds |-> reqing] \in RedisRequest
    BY <1>2, <2>1 DEF RedisRequest
  <2>3. \E req \in Request : Sends(req)
    BY <1>0, <2>1, <2>2, RedisSends
  <2>4. UNCHANGED <<conn, broken, given>>
    BY <2>1 DEF Queued
  <2>. QED  BY <1>1, <1>2, <2>1, <2>3, <2>4 DEF BridgeStep
<1>5. ASSUME NEW ok \in BOOLEAN, IssueCommand(ok)
      PROVE  RedisInv' /\ BridgeStep
  <2>1. Queued("command", <<ok>>) /\ reqing' = <<>>
    BY <1>5 DEF IssueCommand
  <2>. DEFINE cmds == <<ok>>
  <2>2. cmds \in Seq(BOOLEAN) /\ Len(cmds) = 1
    OBVIOUS
  <2>. HIDE DEF cmds
  <2>3. \A id \in ReqIDs : [id |-> id, type |-> "command", cmds |-> cmds] \in RedisRequest
    BY <2>2 DEF RedisRequest
  <2>4. \E req \in Request : Sends(req)
    BY <1>0, <2>1, <2>3, RedisSends DEF cmds
  <2>5. UNCHANGED <<conn, broken, given>>
    BY <2>1 DEF Queued
  <2>. QED  BY <1>1, <1>2, <2>1, <2>4, <2>5 DEF BridgeStep
<1>6. CASE CancelPipe \/ Start \/ StopBegin \/ Tick \/ WorkBegin \/ WorkGone
           \/ \E ok \in BOOLEAN : AddPipe(ok)
  <2>1. reqing' \in Seq(BOOLEAN)
    <3>1. ASSUME NEW ok \in BOOLEAN, AddPipe(ok) PROVE reqing' \in Seq(BOOLEAN)
      BY <1>2, <3>1, AppendProperties DEF AddPipe
    <3>. QED  BY <1>2, <1>6, <3>1 DEF CancelPipe, Start, StopBegin, Tick, WorkBegin, WorkGone
  <2>2. UNCHANGED <<conn, broken, given>>
    BY <1>6 DEF CancelPipe, AddPipe, Start, StopBegin, Tick, WorkBegin, WorkGone
  <2>3. Quiet
    BY <1>6 DEF CancelPipe, AddPipe, Start, StopBegin, Tick, WorkBegin, WorkGone, Quiet
  <2>. QED  BY <1>1, <2>1, <2>2, <2>3 DEF BridgeStep
<1>7. CASE StopEnd
  <2>1. Stops
    BY <1>7 DEF StopEnd, Stops
  <2>. QED  BY <1>1, <1>2, <1>7, <2>1 DEF StopEnd, BridgeStep
<1>8. CASE UpdateBegin
  <2>1. Updates
    BY <1>8 DEF UpdateBegin, Updates
  <2>. QED  BY <1>1, <1>2, <1>8, <2>1 DEF UpdateBegin, BridgeStep
<1>9. CASE LogicReq
  <2>1. Publishes
    BY <1>9 DEF LogicReq, Publishes
  <2>. QED  BY <1>1, <1>2, <1>9, <2>1 DEF LogicReq, BridgeStep
<1>10. CASE Sweep
  <2>1. Sweeps
    BY <1>10 DEF Sweep, Sweeps
  <2>. QED  BY <1>1, <1>2, <1>10, <2>1 DEF Sweep, BridgeStep
<1>11. CASE WorkReq
  <2>1. Fetches
    BY <1>11 DEF WorkReq, SwapReqTaken, Fetches
  <2>. QED  BY <1>1, <1>2, <1>11, <2>1 DEF WorkReq, BridgeStep
<1>12. CASE DeliverReply
  <2>1. Delivers
    BY <1>12 DEF DeliverReply, Delivers
  <2>2. Head(nl) \in RedisResponse
    BY <1>0, <1>12, HeadTailProperties DEF DeliverReply, Lists, Response
  <2>3. Proper(Head(nl))
    BY <2>2 DEF RedisResponse
  <2>4. UNCHANGED <<conn, broken, reqing>>
        /\ given' \in {given, [given EXCEPT ![Head(nl).id] = Head(nl)]}
    BY <1>12 DEF DeliverReply
  <2>5. RedisInv'
    <3>1. DOMAIN given' = ReqIDs
      BY <1>0, <2>4 DEF RedisInv
    <3>2. ASSUME NEW id \in ReqIDs PROVE given'[id] \in {given[id], Head(nl)}
      BY <1>0, <2>4 DEF RedisInv
    <3>. QED  BY <1>0, <2>3, <2>4, <3>1, <3>2 DEF RedisInv
  <2>. QED  BY <2>1, <2>5 DEF BridgeStep
<1>13. CASE WorkItem
  BY <1>0, <1>13, RedisWorks DEF BridgeStep
<1>14. CASE WorkResp
  <2>1. Reports
    BY <1>14 DEF WorkResp, Reports
  <2>2. conn' \in KeptAlive(conn) /\ UNCHANGED <<broken, reqing, given>>
    BY <1>14 DEF WorkResp
  <2>3. conn' \in Connections /\ Backed(conn') /\ Settled(conn', broken)
    BY <1>0, <2>2, KeptConnection DEF RedisInv
  <2>. QED  BY <1>0, <2>1, <2>2, <2>3 DEF RedisInv, BridgeStep
<1>15. CASE WorkEnd
  <2>1. Reports
    BY <1>15 DEF WorkEnd, Reports
  <2>2. conn' = Close(conn) /\ broken' = FALSE /\ UNCHANGED <<reqing, given>>
    BY <1>15 DEF WorkEnd
  <2>3. conn' \in Connections /\ ~conn'.open /\ Empty(conn')
    BY <1>0, <2>2, ClosedConnection DEF RedisInv, Settled
  <2>4. Backed(conn') /\ Settled(conn', broken')
    BY <2>3 DEF Backed, IsAlive, Settled
  <2>. QED  BY <1>0, <2>1, <2>2, <2>3, <2>4 DEF RedisInv, BridgeStep
<1>. QED  BY <1>3, <1>4, <1>5, <1>6, <1>7, <1>8, <1>9, <1>10, <1>11, <1>12, <1>13, <1>14, <1>15
          DEF Next, Logic, Update, Worker


-----------------------------------------------------------------------------
(* The splices are invisible: what a step does to the two channels.        *)

\* Lists written out.
LEMMA ShortType ==
  ASSUME NEW S
  PROVE  /\ <<>> \in Seq(S)
         /\ \A x \in S : <<x>> \in Seq(S)
         /\ \A x, y \in S : <<x, y>> \in Seq(S)
OBVIOUS

LEMMA Associative ==
  ASSUME NEW S, NEW s \in Seq(S), NEW t \in Seq(S), NEW u \in Seq(S)
  PROVE  s \o (t \o u) = (s \o t) \o u
OBVIOUS

\* Lists spliced together.
LEMMA Spliced ==
  ASSUME NEW S, NEW s \in Seq(S), NEW t \in Seq(S), NEW u \in Seq(S)
  PROVE  /\ (s \o t) \o u \in Seq(S)
         /\ (s \o (t \o u)) \o <<>> = (s \o t) \o u
         /\ (t \o <<>>) \o u = (<<>> \o t) \o u
         /\ (<<>> \o <<>>) \o <<>> = <<>>
         /\ (s \o <<>>) \o <<>> = s
         /\ \A v \in Seq(S) : (s \o t) \o (u \o v) = ((s \o t) \o u) \o v
<1>1. s \o t \in Seq(S) /\ t \o u \in Seq(S) /\ <<>> \in Seq(S)
  BY ConcatProperties, EmptySeq
<1>2. (s \o t) \o u \in Seq(S) /\ s \o (t \o u) \in Seq(S)
  BY <1>1, ConcatProperties
<1>3. (s \o (t \o u)) \o <<>> = (s \o t) \o u
  BY <1>2, ConcatAssociative, ConcatEmptySeq
<1>4. t \o <<>> = t /\ <<>> \o t = t /\ s \o <<>> = s
  BY ConcatEmptySeq
<1>5. <<>> \o <<>> = <<>>
  BY <1>1, ConcatEmptySeq
<1>6. ASSUME NEW v \in Seq(S), NEW w \in Seq(S)
      PROVE  w \o (u \o v) = (w \o u) \o v
  BY Associative
<1>. QED  BY <1>1, <1>2, <1>3, <1>4, <1>5, <1>6

\* Adding an item at the end of spliced lists.
LEMMA SplicedAppend ==
  ASSUME NEW S, NEW s \in Seq(S), NEW t \in Seq(S), NEW x \in S
  PROVE  s \o Append(t, x) = Append(s \o t, x)
<1>1. <<x>> \in Seq(S) /\ s \o t \in Seq(S)
  BY ShortType, ConcatProperties
<1>2. Append(t, x) = t \o <<x>> /\ Append(s \o t, x) = (s \o t) \o <<x>>
  BY <1>1, AppendIsConcat
<1>. QED  BY <1>1, <1>2, ConcatAssociative

\* Taking the first item of spliced lists.
LEMMA SplicedTail ==
  ASSUME NEW S, NEW s \in Seq(S), NEW t \in Seq(S), s # <<>>
  PROVE  /\ s \o t # <<>>
         /\ Head(s \o t) = Head(s)
         /\ Tail(s \o t) = Tail(s) \o t
<1>1. /\ s \o t \in Seq(S) /\ Len(s \o t) = Len(s) + Len(t)
      /\ \A i \in 1 .. Len(s) + Len(t) :
           (s \o t)[i] = IF i <= Len(s) THEN s[i] ELSE t[i - Len(s)]
  BY ConcatProperties
<1>2. Len(s) \in Nat \ {0} /\ Len(t) \in Nat
  BY EmptySeq, LenProperties
<1>3. s \o t # <<>>
  BY <1>1, <1>2, EmptySeq
<1>4. /\ Tail(s) \in Seq(S) /\ Len(Tail(s)) = Len(s) - 1
      /\ \A i \in 1 .. Len(Tail(s)) : Tail(s)[i] = s[i + 1]
  BY HeadTailProperties
<1>5. /\ Tail(s \o t) \in Seq(S) /\ Len(Tail(s \o t)) = Len(s \o t) - 1
      /\ \A i \in 1 .. Len(Tail(s \o t)) : Tail(s \o t)[i] = (s \o t)[i + 1]
  BY <1>1, <1>3, HeadTailProperties
<1>6. /\ Tail(s) \o t \in Seq(S) /\ Len(Tail(s) \o t) = Len(Tail(s)) + Len(t)
      /\ \A i \in 1 .. Len(Tail(s)) + Len(t) :
           (Tail(s) \o t)[i] = IF i <= Len(Tail(s)) THEN Tail(s)[i] ELSE t[i - Len(Tail(s))]
  BY <1>4, ConcatProperties
<1>7. Len(Tail(s \o t)) = Len(Tail(s) \o t)
  BY <1>1, <1>2, <1>4, <1>5, <1>6
<1>8. ASSUME NEW i \in 1 .. Len(Tail(s \o t))
      PROVE  Tail(s \o t)[i] = (Tail(s) \o t)[i]
  BY <1>1, <1>2, <1>4, <1>5, <1>6
<1>9. Tail(s \o t) = Tail(s) \o t
  BY <1>5, <1>6, <1>7, <1>8, SeqEqual
<1>10. Head(s \o t) = Head(s)
  BY <1>1, <1>2, <1>3
<1>. QED  BY <1>3, <1>9, <1>10

LEMMA Channels == ASSUME Lists PROVE Reqs \in Seq(Request) /\ Resps \in Seq(Response)
BY Spliced DEF Lists, Reqs, Resps

\* Items go from one list to the next, or stay.
LEMMA StillSteps ==
  ASSUME Lists, Control, Quiet \/ Updates \/ Publishes \/ Sweeps \/ Fetches \/ Reports
  PROVE  Reqs' = Reqs /\ Resps' = Resps
<1>r. wnl \in Seq(Request) /\ swapReq \in Seq(Request) /\ reqQueue \in Seq(Request)
  BY DEF Lists
<1>s. nl \in Seq(Response) /\ swapResp \in Seq(Response) /\ respQueue \in Seq(Response)
  BY DEF Lists
<1>1. CASE Quiet \/ Sweeps
  BY <1>1 DEF Quiet, Sweeps, Reqs, Resps
<1>2. CASE Updates
  <2>1. nl = <<>> /\ nl' = swapResp /\ swapResp' = <<>> /\ UNCHANGED <<respQueue, wnl, swapReq, reqQueue>>
    BY <1>2 DEF Updates, Control
  <2>2. (swapResp \o <<>>) \o respQueue = (<<>> \o swapResp) \o respQueue
    BY <1>s, Spliced
  <2>. QED  BY <2>1, <2>2 DEF Reqs, Resps
<1>3. CASE Publishes
  <2>1. swapReq' = swapReq \o reqQueue /\ reqQueue' = <<>> /\ UNCHANGED <<nl, swapResp, respQueue, wnl>>
    BY <1>3 DEF Publishes
  <2>2. (wnl \o (swapReq \o reqQueue)) \o <<>> = (wnl \o swapReq) \o reqQueue
    BY <1>r, Spliced
  <2>. QED  BY <2>1, <2>2 DEF Reqs, Resps
<1>4. CASE Fetches
  <2>1. wnl = <<>> /\ wnl' = swapReq /\ swapReq' = <<>> /\ UNCHANGED <<nl, swapResp, respQueue, reqQueue>>
    BY <1>4 DEF Fetches, Control
  <2>2. (swapReq \o <<>>) \o reqQueue = (<<>> \o swapReq) \o reqQueue
    BY <1>r, Spliced
  <2>. QED  BY <2>1, <2>2 DEF Reqs, Resps
<1>5. CASE Reports
  <2>1. swapResp' = swapResp \o respQueue /\ respQueue' = <<>> /\ UNCHANGED <<nl, wnl, swapReq, reqQueue>>
    BY <1>5 DEF Reports
  <2>2. (nl \o (swapResp \o respQueue)) \o <<>> = (nl \o swapResp) \o respQueue
    BY <1>s, Spliced
  <2>. QED  BY <2>1, <2>2 DEF Reqs, Resps
<1>. QED  BY <1>1, <1>2, <1>3, <1>4, <1>5

\* A request goes behind all others.
LEMMA SendSteps ==
  ASSUME Lists, NEW req \in Request, Sends(req)
  PROVE  Reqs' = Append(Reqs, req) /\ Resps' = Resps
<1>1. wnl \o swapReq \in Seq(Request) /\ reqQueue \in Seq(Request)
  BY ConcatProperties DEF Lists
<1>2. reqQueue' = Append(reqQueue, req) /\ UNCHANGED <<nl, swapReq, swapResp, wnl, respQueue>>
  BY DEF Sends
<1>. QED  BY <1>1, <1>2, SplicedAppend DEF Reqs, Resps

\* The oldest response is taken.
LEMMA DeliverSteps ==
  ASSUME Lists, Delivers
  PROVE  Resps # <<>> /\ Head(Resps) = Head(nl) /\ Resps' = Tail(Resps) /\ Reqs' = Reqs
<1>. DEFINE s == nl \o swapResp
<1>0. nl \in Seq(Response) /\ swapResp \in Seq(Response) /\ respQueue \in Seq(Response)
  BY DEF Lists
<1>1. nl # <<>> /\ nl' = Tail(nl) /\ UNCHANGED <<reqQueue, swapReq, swapResp, wnl, respQueue>>
  BY DEF Delivers
<1>2. s # <<>> /\ Head(s) = Head(nl) /\ Tail(s) = Tail(nl) \o swapResp /\ s \in Seq(Response)
  BY <1>0, <1>1, SplicedTail, ConcatProperties
<1>3. Resps = s \o respQueue /\ Resps' = (Tail(nl) \o swapResp) \o respQueue /\ Reqs' = Reqs
  BY <1>1 DEF Reqs, Resps
<1>. HIDE DEF s
<1>4. s \o respQueue # <<>> /\ Head(s \o respQueue) = Head(s) /\ Tail(s \o respQueue) = Tail(s) \o respQueue
  BY <1>0, <1>2, SplicedTail
<1>. QED  BY <1>2, <1>3, <1>4

\* The oldest request is handled, and answered behind all other responses.
LEMMA WorkSteps ==
  ASSUME Lists, NEW g \in Response, Works(g)
  PROVE  /\ Reqs # <<>> /\ Head(Reqs) = Head(wnl) /\ Reqs' = Tail(Reqs)
         /\ Resps' = Append(Resps, g)
<1>. DEFINE s == wnl \o swapReq
<1>0. /\ wnl \in Seq(Request) /\ swapReq \in Seq(Request) /\ reqQueue \in Seq(Request)
      /\ nl \o swapResp \in Seq(Response) /\ respQueue \in Seq(Response)
  BY ConcatProperties DEF Lists
<1>1. /\ wnl # <<>> /\ wnl' = Tail(wnl) /\ respQueue' = Append(respQueue, g)
      /\ UNCHANGED <<nl, reqQueue, swapReq, swapResp>>
  BY DEF Works
<1>2. s # <<>> /\ Head(s) = Head(wnl) /\ Tail(s) = Tail(wnl) \o swapReq /\ s \in Seq(Request)
  BY <1>0, <1>1, SplicedTail, ConcatProperties
<1>3. Reqs = s \o reqQueue /\ Reqs' = (Tail(wnl) \o swapReq) \o reqQueue
  BY <1>1 DEF Reqs
<1>4. Resps' = Append(Resps, g)
  BY <1>0, <1>1, SplicedAppend DEF Resps
<1>. HIDE DEF s
<1>5. s \o reqQueue # <<>> /\ Head(s \o reqQueue) = Head(s) /\ Tail(s \o reqQueue) = Tail(s) \o reqQueue
  BY <1>0, <1>2, SplicedTail
<1>. QED  BY <1>2, <1>3, <1>4, <1>5

\* stop() leaves nothing in either direction.
LEMMA StopSteps ==
  ASSUME Lists, Control, Stops
  PROVE  Reqs' = <<>> /\ Resps' = <<>>
<1>1. nl' = <<>> /\ wnl' = <<>> /\ respQueue' = <<>>
  BY DEF Stops, Control
<1>2. swapReq' = <<>> /\ reqQueue' = <<>> /\ swapResp' = <<>>
  BY DEF Stops
<1>. QED  BY <1>1, <1>2, Spliced DEF Reqs, Resps


-----------------------------------------------------------------------------
(* LevelAsync.                                                             *)

LEMMA AppendedItem ==
  ASSUME NEW S, NEW s \in Seq(S), NEW x \in S
  PROVE  /\ DOMAIN Append(s, x) = DOMAIN s \cup {Len(s) + 1} /\ Append(s, x)[Len(s) + 1] = x
         /\ \A i \in DOMAIN s : Append(s, x)[i] = s[i] /\ i \in Nat /\ i <= Len(s) /\ s[i] \in S
         /\ Len(s) \in Nat
         /\ ToSet(Append(s, x)) = ToSet(s) \cup {x}
<1>1. Len(s) \in Nat /\ DOMAIN s = 1 .. Len(s) /\ \A i \in 1 .. Len(s) : s[i] \in S
  BY LenProperties, ElementOfSeq
<1>2. /\ DOMAIN Append(s, x) = 1 .. (Len(s) + 1) /\ Append(s, x)[Len(s) + 1] = x
      /\ \A i \in 1 .. Len(s) : Append(s, x)[i] = s[i]
  BY <1>1, AppendProperties, LenProperties
<1>3. ToSet(Append(s, x)) = ToSet(s) \cup {x}
  BY <1>1, <1>2 DEF ToSet
<1>. QED  BY <1>1, <1>2, <1>3

LEMMA TailItems ==
  ASSUME NEW S, NEW s \in Seq(S), s # <<>>
  PROVE  /\ 1 \in DOMAIN s /\ Head(s) = s[1] /\ Head(s) \in S
         /\ DOMAIN Tail(s) \subseteq Nat
         /\ \A i \in DOMAIN Tail(s) : i + 1 \in DOMAIN s /\ Tail(s)[i] = s[i + 1] /\ i + 1 > 1
<1>1. Len(s) \in Nat \ {0} /\ DOMAIN s = 1 .. Len(s)
  BY LenProperties, EmptySeq
<1>2. /\ Tail(s) \in Seq(S) /\ Len(Tail(s)) = Len(s) - 1 /\ Head(s) \in S
      /\ \A i \in 1 .. Len(Tail(s)) : Tail(s)[i] = s[i + 1]
  BY HeadTailProperties
<1>3. DOMAIN Tail(s) = 1 .. Len(Tail(s))
  BY <1>2, LenProperties
<1>. QED  BY <1>1, <1>2, <1>3

\* The items a worker has not handled, when one more is sent.
LEMMA SentInOrder ==
  ASSUME NEW S, \A x \in S : x.id \in Nat, NEW s \in Seq(S), NEW x \in S, NEW n \in Nat, NEW m \in Nat,
         NEW e \in Seq(Nat), \A i \in DOMAIN e : e[i] <= n,
         Ascends(s), UpTo(s, n), Behind(e, s),
         \/ x.id = 0 /\ m = n
         \/ x.id = n + 1 /\ m = n + 1
  PROVE  /\ Ascends(Append(s, x)) /\ UpTo(Append(s, x), m) /\ Behind(e, Append(s, x))
         /\ \A i \in DOMAIN e : e[i] <= m
<1>1. /\ DOMAIN Append(s, x) = DOMAIN s \cup {Len(s) + 1} /\ Append(s, x)[Len(s) + 1] = x
      /\ \A i \in DOMAIN s : Append(s, x)[i] = s[i] /\ i \in Nat /\ i <= Len(s) /\ s[i] \in S
      /\ Len(s) \in Nat
  BY AppendedItem
<1>2. x.id \in Nat /\ \A i \in DOMAIN s : s[i].id \in Nat /\ s[i].id <= n
  BY <1>1 DEF UpTo
<1>3. \A i \in DOMAIN e : e[i] \in Nat /\ e[i] <= n
  BY LenProperties, ElementOfSeq
<1>4. Ascends(Append(s, x))
  BY <1>1, <1>2 DEF Ascends
<1>5. UpTo(Append(s, x), m)
  BY <1>1, <1>2 DEF UpTo
<1>6. Behind(e, Append(s, x))
  BY <1>1, <1>2, <1>3 DEF Behind
<1>. QED  BY <1>3, <1>4, <1>5, <1>6

\* When the first is handled, executed or not.
LEMMA HandledInOrder ==
  ASSUME NEW S, \A x \in S : x.id \in Nat, NEW s \in Seq(S), s # <<>>, NEW n \in Nat,
         NEW e \in Seq(Nat), \A i \in DOMAIN e : e[i] <= n,
         \A i, j \in DOMAIN e : i < j => e[i] < e[j],
         Ascends(s), UpTo(s, n), Behind(e, s),
         NEW d, d = e \/ (Head(s).id # 0 /\ d = Append(e, Head(s).id))
  PROVE  /\ Ascends(Tail(s)) /\ UpTo(Tail(s), n) /\ Behind(d, Tail(s))
         /\ \A i \in DOMAIN d : d[i] <= n
         /\ \A i, j \in DOMAIN d : i < j => d[i] < d[j]
<1>1. /\ 1 \in DOMAIN s /\ Head(s) = s[1] /\ Head(s).id \in Nat
      /\ DOMAIN Tail(s) \subseteq Nat
      /\ \A i \in DOMAIN Tail(s) : i + 1 \in DOMAIN s /\ Tail(s)[i] = s[i + 1] /\ i + 1 > 1
  BY TailItems
<1>2. Ascends(Tail(s)) /\ UpTo(Tail(s), n)
  <2>. DEFINE t == Tail(s)
  <2>1. \A i \in DOMAIN t : i \in Nat /\ i + 1 \in DOMAIN s /\ t[i] = s[i + 1]
    BY <1>1
  <2>. HIDE DEF t
  <2>2. ASSUME NEW i \in DOMAIN t, NEW j \in DOMAIN t, i < j, t[i].id # 0, t[j].id # 0
        PROVE  t[i].id < t[j].id
    <3>1. i + 1 < j + 1
      BY <2>1, <2>2
    <3>. QED  BY <2>1, <2>2, <3>1 DEF Ascends
  <2>3. Ascends(t)
    BY <2>2 DEF Ascends
  <2>4. UpTo(t, n)
    BY <2>1 DEF UpTo
  <2>. QED  BY <2>3, <2>4 DEF t
<1>3. CASE d = e
  BY <1>1, <1>2, <1>3 DEF Behind
<1>4. CASE Head(s).id # 0 /\ d = Append(e, Head(s).id)
  <2>. DEFINE h == Head(s).id
  <2>1. /\ DOMAIN d = DOMAIN e \cup {Len(e) + 1} /\ d[Len(e) + 1] = h
        /\ \A i \in DOMAIN e : d[i] = e[i] /\ i \in Nat /\ i <= Len(e) /\ e[i] \in Nat
        /\ Len(e) \in Nat
    BY <1>1, <1>4, AppendedItem
  <2>2. h <= n /\ \A i \in DOMAIN e : e[i] < h
    BY <1>1, <1>4 DEF UpTo, Behind
  <2>3. \A j \in DOMAIN Tail(s) : Tail(s)[j].id # 0 => h < Tail(s)[j].id
    BY <1>1, <1>4 DEF Ascends
  <2>. HIDE DEF h
  <2>4. Behind(d, Tail(s))
    BY <1>1, <2>1, <2>3 DEF Behind
  <2>5. \A i \in DOMAIN d : d[i] <= n
    BY <2>1, <2>2
  <2>6. \A i, j \in DOMAIN d : i < j => d[i] < d[j]
    BY <2>1, <2>2
  <2>. QED  BY <1>2, <2>4, <2>5, <2>6
<1>. QED  BY <1>3, <1>4

\* The worker's replies: that of an operation tells whether it was executed.
LEMMA LevelWorks ==
  ASSUME which = "level", Lists, LevelInv, L!WorkItem
  PROVE  \E g \in Response :
           /\ Works(g) /\ mReply' = L!NoReply /\ mContext' \in BOOLEAN /\ given' = given
           /\ g.reply.done => g.id \in ToSet(executed')
           /\ \/ executed' = executed
              \/ Head(wnl).id # 0 /\ executed' = Append(executed, Head(wnl).id)
<1>. DEFINE req == Head(wnl)
            g(ok) == [id |-> req.id, reply |-> L!Made(req, ok)]
<1>1. /\ wpc = "work" /\ wnl # <<>> /\ wnl' = Tail(wnl)
      /\ L!Refuse(req) \/ L!Size(req) \/ L!Connect(req) \/ L!Operation(req)
      /\ UNCHANGED <<lpc, nl, reqQueue, waiting, reqGen, swapReq, swapResp, handle, wpc, outcome, given>>
  BY DEF L!WorkItem, L!logicVars, L!sharedVars, L!histVars
<1>2. req \in LevelRequest
  BY <1>1, HeadTailProperties DEF Lists, Request
<1>3. req.id \in ReqIDs \cup {0} /\ (req.type = "operation" => req.id # 0)
  BY <1>2 DEF LevelRequest
<1>. HIDE DEF req
<1>4. ASSUME NEW ok \in BOOLEAN
      PROVE  /\ g(ok) \in Response /\ g(ok).id = req.id
             /\ g(ok).reply.done => ok /\ req.type = "operation"
  <2>1. L!Made(req, ok) = [of |-> req.id, ok |-> ok, done |-> ok /\ req.type = "operation"]
    BY DEF L!Made
  <2>2. (ok /\ req.type = "operation") \in BOOLEAN /\ req.id \in ReqIDs \cup {0}
    BY <1>3
  <2>3. L!Made(req, ok) \in [of : ReqIDs \cup {0}, ok : BOOLEAN, done : BOOLEAN]
    BY <2>1, <2>2
  <2>4. L!Made(req, ok).of = req.id /\ L!Made(req, ok).done = (ok /\ req.type = "operation")
    BY <2>1
  <2>5. L!Made(req, ok).done => ok /\ req.type = "operation"
    BY <2>4, Zenon
  <2>. QED  BY <2>2, <2>3, <2>4, <2>5 DEF Response, LevelResponse
<1>5. ASSUME NEW ok \in BOOLEAN, respQueue' = Append(respQueue, g(ok))
      PROVE  Works(g(ok))
  BY <1>1, <1>4, <1>5 DEF Works, req
<1>6. mReply = L!NoReply /\ mContext \in BOOLEAN
  BY DEF LevelInv
<1>7. CASE L!Refuse(req)
  <2>1. respQueue' = Append(respQueue, g(FALSE)) /\ UNCHANGED <<mContext, mReply, executed>>
    BY <1>7 DEF L!Refuse, L!Answer
  <2>. QED  BY <1>1, <1>4, <1>5, <1>6, <2>1
<1>8. CASE L!Size(req)
  <2>1. respQueue' = Append(respQueue, g(TRUE)) /\ UNCHANGED <<mContext, mReply, executed>>
        /\ req.type = "size"
    BY <1>8 DEF L!Size, L!Answer
  <2>. QED  BY <1>1, <1>4, <1>5, <1>6, <2>1
<1>9. CASE L!Connect(req)
  <2>1. PICK ok \in {FALSE, ~mContext} :
          /\ mContext' = (mContext \/ ok)
          /\ L!Popped(req, IF ok THEN mReply ELSE L!Made(req, FALSE))
    BY <1>9 DEF L!Connect
  <2>2. mContext' \in BOOLEAN /\ ok \in BOOLEAN
    BY <1>6, <2>1
  <2>3. respQueue' = Append(respQueue, g(FALSE)) /\ mReply' = L!NoReply
    BY <1>6, <2>1, <2>2 DEF L!Popped, L!Answer
  <2>4. executed' = executed
    BY <1>9 DEF L!Connect
  <2>. QED  BY <1>1, <1>4, <1>5, <2>2, <2>3, <2>4
<1>10. CASE L!Operation(req)
  <2>1. PICK ok \in {FALSE, mContext} :
          /\ executed' = IF ok THEN Append(executed, req.id) ELSE executed
          /\ L!Popped(req, L!Made(req, ok))
    BY <1>10 DEF L!Operation
  <2>2. ok \in BOOLEAN /\ mContext' \in BOOLEAN /\ req.type = "operation"
    BY <1>6, <1>10, <2>1 DEF L!Operation
  <2>3. ok => L!Made(req, ok) # L!NoReply
    BY DEF L!Made, L!NoReply
  <2>4. respQueue' = Append(respQueue, g(ok)) /\ mReply' = L!NoReply
    <3>1. CASE ok
      BY <2>1, <2>3, <3>1 DEF L!Popped, L!Answer
    <3>2. CASE ~ok
      <4>1. ok = FALSE
        BY <2>2, <3>2
      <4>. QED  BY <2>1, <4>1 DEF L!Popped, L!Answer
    <3>. QED  BY <3>1, <3>2
  <2>5. ok => req.id \in ToSet(executed')
    <3>. HAVE ok
    <3>1. executed \in Seq(ReqIDs) /\ req.id \in ReqIDs /\ executed' = Append(executed, req.id)
      BY <1>3, <2>1, <2>2 DEF LevelInv
    <3>2. ToSet(Append(executed, req.id)) = ToSet(executed) \cup {req.id}
      BY <3>1, AppendedItem
    <3>. QED  BY <3>1, <3>2
  <2>6. executed' = executed \/ (req.id # 0 /\ executed' = Append(executed, req.id))
    BY <1>3, <2>1, <2>2
  <2>. QED  BY <1>1, <1>4, <1>5, <2>2, <2>4, <2>5, <2>6 DEF req
<1>. QED  BY <1>1, <1>7, <1>8, <1>9, <1>10


\* The channels stay as they are, and no callback runs.
LEMMA LevelKept ==
  ASSUME LevelInv, mReply' = L!NoReply, mContext' \in BOOLEAN,
         UNCHANGED <<executed, reqGen, Reqs, Resps, given>>,
         \A id \in ReqIDs : outcome'[id] = "answered" => outcome[id] = "answered"
  PROVE  LevelInv'
BY DEF LevelInv, Ascends, UpTo, Behind, Honest

\* A request is sent.
LEMMA LevelSends ==
  ASSUME IInv, which = "level", NEW req \in LevelRequest, Sends(req),
         UNCHANGED <<mReply, mContext, executed, given>>
  PROVE  LevelInv'
<1>0. Lists /\ Calls /\ LevelInv
  BY DEF IInv
<1>1. /\ Request = LevelRequest /\ Reqs \in Seq(LevelRequest) /\ reqGen \in Nat
      /\ \A x \in LevelRequest : x.id \in Nat
  BY <1>0, Channels DEF Request, LevelRequest, ReqIDs, Calls
<1>2. executed \in Seq(Nat)
  <2>1. executed \in Seq(ReqIDs) /\ Len(executed) \in Nat
    BY <1>0, LenProperties DEF LevelInv
  <2>2. \A i \in 1 .. Len(executed) : executed[i] \in ReqIDs
    BY <2>1, ElementOfSeq
  <2>. QED  BY <2>1, <2>2 DEF ReqIDs
<1>3. Reqs' = Append(Reqs, req) /\ Resps' = Resps
  BY <1>0, <1>1, SendSteps
<1>4. \/ req.id = 0 /\ reqGen' = reqGen
      \/ req.id = reqGen + 1 /\ reqGen' = reqGen + 1
  BY DEF Sends
<1>5. reqGen' \in Nat
  BY <1>1, <1>4
<1>6. /\ Ascends(Reqs) /\ UpTo(Reqs, reqGen) /\ Behind(executed, Reqs) /\ Honest(Resps, executed)
      /\ \A i \in DOMAIN executed : executed[i] <= reqGen
  BY <1>0 DEF LevelInv
<1>7. /\ Ascends(Append(Reqs, req)) /\ UpTo(Append(Reqs, req), reqGen')
      /\ Behind(executed, Append(Reqs, req))
      /\ \A i \in DOMAIN executed : executed[i] <= reqGen'
  BY <1>1, <1>2, <1>4, <1>5, <1>6, SentInOrder
<1>8. Ascends(Reqs)' /\ UpTo(Reqs, reqGen)' /\ Behind(executed, Reqs)' /\ Honest(Resps, executed)'
  BY <1>3, <1>6, <1>7 DEF Ascends, UpTo, Behind, Honest
<1>9. \A id \in ReqIDs : outcome'[id] = "answered" => outcome[id] = "answered"
  BY <1>0 DEF Sends, Calls
<1>. QED  BY <1>0, <1>7, <1>8, <1>9 DEF LevelInv

\* stop() empties both channels.
LEMMA LevelStops ==
  ASSUME IInv, which = "level", Stops, UNCHANGED <<mReply, mContext, executed, given>>
  PROVE  LevelInv'
<1>1. Lists /\ Control /\ Calls /\ LevelInv
  BY DEF IInv
<1>2. Reqs' = <<>> /\ Resps' = <<>>
  BY <1>1, StopSteps
<1>3. Ascends(Reqs)' /\ UpTo(Reqs, reqGen)' /\ Behind(executed, Reqs)' /\ Honest(Resps, executed)'
  BY <1>2 DEF Ascends, UpTo, Behind, Honest
<1>4. \A id \in ReqIDs : outcome'[id] = "answered" => outcome[id] = "answered"
  BY DEF Stops
<1>5. reqGen' = reqGen
  BY DEF Stops
<1>. QED  BY <1>1, <1>3, <1>4, <1>5 DEF LevelInv

\* A callback runs: the reply is of its own request.
LEMMA LevelDelivers ==
  ASSUME IInv, which = "level", L!DeliverReply
  PROVE  LevelInv' /\ Delivers
<1>. DEFINE item == Head(nl)
<1>1. Lists /\ Control /\ Calls /\ LevelInv
  BY DEF IInv
<1>2. Delivers /\ UNCHANGED <<mReply, mContext, executed, reqGen>>
  BY DEF L!DeliverReply, Delivers, L!sharedVars, L!workVars
<1>3. Resps # <<>> /\ item = Head(Resps) /\ Resps' = Tail(Resps) /\ Reqs' = Reqs
  BY <1>1, <1>2, DeliverSteps
<1>4. Resps \in Seq(LevelResponse)
  BY <1>1, Channels DEF Response
<1>5. /\ 1 \in DOMAIN Resps /\ item = Resps[1] /\ item \in LevelResponse
      /\ \A i \in DOMAIN Tail(Resps) : i + 1 \in DOMAIN Resps /\ Tail(Resps)[i] = Resps[i + 1]
  BY <1>3, <1>4, TailItems
<1>6. Honest(Resps, executed)
  BY <1>1 DEF LevelInv
<1>7. Honest(Tail(Resps), executed) /\ (item.reply.done => item.id \in ToSet(executed))
  BY <1>5, <1>6 DEF Honest
<1>8. item.reply.of = item.id
  BY <1>5 DEF LevelResponse
<1>9. \/ UNCHANGED <<outcome, given>>
      \/ /\ outcome' = [outcome EXCEPT ![item.id] = "answered"]
         /\ given' = [given EXCEPT ![item.id] = item.reply]
  BY DEF L!DeliverReply
<1>. HIDE DEF item
<1>10. DOMAIN given' = ReqIDs
  BY <1>1, <1>9 DEF LevelInv
<1>11. ASSUME NEW id \in ReqIDs, outcome'[id] = "answered"
       PROVE  given'[id].of = id /\ (given'[id].done => id \in ToSet(executed))
  <2>1. CASE UNCHANGED <<outcome, given>>
    BY <1>1, <1>11, <2>1 DEF LevelInv
  <2>2. CASE /\ outcome' = [outcome EXCEPT ![item.id] = "answered"]
             /\ given' = [given EXCEPT ![item.id] = item.reply]
    <3>1. CASE id = item.id
      <4>1. given'[id] = item.reply
        BY <1>1, <2>2, <3>1 DEF LevelInv
      <4>. QED  BY <1>7, <1>8, <3>1, <4>1
    <3>2. CASE id # item.id
      <4>1. given'[id] = given[id] /\ outcome[id] = "answered"
        BY <1>1, <1>11, <2>2, <3>2 DEF LevelInv, Calls
      <4>. QED  BY <1>1, <4>1 DEF LevelInv
    <3>. QED  BY <3>1, <3>2
  <2>. QED  BY <1>9, <2>1, <2>2
<1>12. Ascends(Reqs)' /\ UpTo(Reqs, reqGen)' /\ Behind(executed, Reqs)' /\ Honest(Resps, executed)'
  BY <1>1, <1>2, <1>3, <1>7 DEF LevelInv, Ascends, UpTo, Behind, Honest
<1>. QED  BY <1>1, <1>2, <1>10, <1>11, <1>12 DEF LevelInv

\* The worker handles the oldest request.
LEMMA LevelHandles ==
  ASSUME IInv, which = "level", L!WorkItem
  PROVE  LevelInv' /\ \E g \in Response : Works(g)
<1>0. Lists /\ Control /\ Calls /\ LevelInv
  BY DEF IInv
<1>1. PICK g \in Response :
        /\ Works(g) /\ mReply' = L!NoReply /\ mContext' \in BOOLEAN /\ given' = given
        /\ g.reply.done => g.id \in ToSet(executed')
        /\ \/ executed' = executed
           \/ Head(wnl).id # 0 /\ executed' = Append(executed, Head(wnl).id)
  BY <1>0, LevelWorks
<1>2. reqGen' = reqGen /\ outcome' = outcome
  BY <1>1 DEF Works
<1>3. /\ Reqs # <<>> /\ Head(Reqs) = Head(wnl) /\ Reqs' = Tail(Reqs)
      /\ Resps' = Append(Resps, g)
  BY <1>0, <1>1, WorkSteps
<1>4. /\ Reqs \in Seq(LevelRequest) /\ Resps \in Seq(Response) /\ reqGen \in Nat
      /\ \A x \in LevelRequest : x.id \in Nat
  BY <1>0, Channels DEF Request, LevelRequest, ReqIDs, Calls
<1>5. executed \in Seq(ReqIDs) /\ executed \in Seq(Nat)
  <2>1. executed \in Seq(ReqIDs) /\ Len(executed) \in Nat
    BY <1>0, LenProperties DEF LevelInv
  <2>2. \A i \in 1 .. Len(executed) : executed[i] \in ReqIDs
    BY <2>1, ElementOfSeq
  <2>. QED  BY <2>1, <2>2 DEF ReqIDs
<1>6. Head(Reqs) \in LevelRequest
  BY <1>3, <1>4, TailItems
<1>7. /\ executed' \in Seq(ReqIDs)
      /\ ToSet(executed) \subseteq ToSet(executed')
  <2>1. CASE executed' = executed
    BY <1>5, <2>1
  <2>2. CASE Head(wnl).id # 0 /\ executed' = Append(executed, Head(wnl).id)
    <3>1. Head(wnl).id \in ReqIDs
      BY <1>3, <1>6, <2>2 DEF LevelRequest
    <3>2. ToSet(Append(executed, Head(wnl).id)) = ToSet(executed) \cup {Head(wnl).id}
      BY <1>5, <3>1, AppendedItem
    <3>. QED  BY <1>5, <2>2, <3>1, <3>2, AppendProperties
  <2>. QED  BY <1>1, <2>1, <2>2
<1>8. /\ Ascends(Reqs) /\ UpTo(Reqs, reqGen) /\ Behind(executed, Reqs) /\ Honest(Resps, executed)
      /\ \A i \in DOMAIN executed : executed[i] <= reqGen
      /\ \A i, j \in DOMAIN executed : i < j => executed[i] < executed[j]
  BY <1>0 DEF LevelInv
<1>9. /\ Ascends(Tail(Reqs)) /\ UpTo(Tail(Reqs), reqGen) /\ Behind(executed', Tail(Reqs))
      /\ \A i \in DOMAIN executed' : executed'[i] <= reqGen
      /\ \A i, j \in DOMAIN executed' : i < j => executed'[i] < executed'[j]
  BY <1>1, <1>3, <1>4, <1>5, <1>8, HandledInOrder
<1>10. Honest(Append(Resps, g), executed')
  <2>1. /\ DOMAIN Append(Resps, g) = DOMAIN Resps \cup {Len(Resps) + 1}
        /\ Append(Resps, g)[Len(Resps) + 1] = g
        /\ \A i \in DOMAIN Resps : Append(Resps, g)[i] = Resps[i]
    BY <1>4, AppendedItem
  <2>. QED  BY <1>1, <1>7, <1>8, <2>1 DEF Honest
<1>11. Ascends(Reqs)' /\ UpTo(Reqs, reqGen)' /\ Behind(executed, Reqs)' /\ Honest(Resps, executed)'
  BY <1>2, <1>3, <1>9, <1>10 DEF Ascends, UpTo, Behind, Honest
<1>12. \A id \in ReqIDs : outcome[id] = "answered" =>
         given[id].of = id /\ (given[id].done => id \in ToSet(executed'))
  BY <1>0, <1>7 DEF LevelInv
<1>13. LevelInv'
  BY <1>0, <1>1, <1>2, <1>7, <1>9, <1>11, <1>12 DEF LevelInv
<1>. QED  BY <1>1, <1>13


\* The steps of LevelAsync.
LEMMA LevelSteps ==
  ASSUME IInv, which = "level", L!Next
  PROVE  LevelInv' /\ BridgeStep
<1>. USE DEF L!logicVars, L!sharedVars, L!workVars, L!histVars
<1>0. Lists /\ Control /\ Calls /\ LevelInv
  BY DEF IInv
<1>1. mReply = L!NoReply /\ mContext \in BOOLEAN /\ reqGen \in Nat
      /\ Request = LevelRequest
  BY <1>0 DEF LevelInv, Calls, Request
<1>2. ASSUME Quiet \/ Updates \/ Publishes \/ Sweeps \/ Fetches \/ Reports,
             mReply' = L!NoReply, mContext' \in BOOLEAN, UNCHANGED <<executed, given>>
      PROVE  LevelInv' /\ BridgeStep
  <2>1. Reqs' = Reqs /\ Resps' = Resps
    BY <1>0, <1>2, StillSteps
  <2>2. \A id \in ReqIDs : outcome'[id] = "answered" => outcome[id] = "answered"
    BY <1>2 DEF Quiet, Updates, Publishes, Sweeps, Fetches, Reports
  <2>3. reqGen' = reqGen
    BY <1>2 DEF Quiet, Updates, Publishes, Sweeps, Fetches, Reports
  <2>4. LevelInv'
    BY <1>0, <1>2, <2>1, <2>2, <2>3, LevelKept
  <2>. QED  BY <1>2, <2>4 DEF BridgeStep
<1>3. ASSUME NEW type \in L!Types, L!MakeReq(type)
      PROVE  LevelInv' /\ BridgeStep
  <2>. DEFINE req == [id |-> reqGen + 1, type |-> type]
  <2>1. reqGen + 1 \in ReqIDs
    BY <1>1, <1>3, LevelBounds, RedisBounds DEF L!MakeReq, ReqIDs
  <2>2. req \in LevelRequest
    BY <2>1 DEF LevelRequest, ReqIDs
  <2>3. /\ reqQueue' = Append(reqQueue, req) /\ req.id = reqGen + 1
        /\ reqGen' = reqGen + 1 /\ waiting' = waiting \cup {reqGen + 1}
        /\ outcome' = [outcome EXCEPT ![reqGen + 1] = "waiting"]
        /\ UNCHANGED <<lpc, nl, swapReq, swapResp, handle, wpc, wnl, respQueue>>
        /\ UNCHANGED <<mReply, mContext, executed, given>>
    BY <1>3 DEF L!MakeReq
  <2>. HIDE DEF req
  <2>4. Sends(req)
    BY <1>1, <2>1, <2>2, <2>3 DEF Sends
  <2>. QED  BY <1>1, <2>2, <2>3, <2>4, LevelSends DEF BridgeStep
<1>4. CASE L!Compact
  <2>. DEFINE req == [id |-> 0, type |-> "empty"]
  <2>1. req \in LevelRequest /\ req.id = 0
    BY DEF LevelRequest, L!Types
  <2>2. /\ reqQueue' = Append(reqQueue, req)
        /\ UNCHANGED <<reqGen, waiting, outcome, lpc, nl, swapReq, swapResp, handle, wpc, wnl, respQueue>>
        /\ UNCHANGED <<mReply, mContext, executed, given>>
    BY <1>4 DEF L!Compact
  <2>. HIDE DEF req
  <2>3. Sends(req)
    BY <1>1, <2>1, <2>2 DEF Sends
  <2>. QED  BY <1>1, <2>1, <2>2, <2>3, LevelSends DEF BridgeStep
<1>5. CASE L!Start \/ L!StopBegin \/ L!Tick \/ L!WorkBegin \/ L!WorkGone
  <2>1. UNCHANGED <<mReply, mContext, executed, given>>
    BY <1>5 DEF L!Start, L!StopBegin, L!Tick, L!WorkBegin, L!WorkGone
  <2>2. Quiet
    BY <1>5 DEF L!Start, L!StopBegin, L!Tick, L!WorkBegin, L!WorkGone, Quiet
  <2>. QED  BY <1>1, <1>2, <2>1, <2>2
<1>6. CASE L!UpdateBegin
  BY <1>1, <1>2, <1>6 DEF L!UpdateBegin, Updates
<1>7. CASE L!LogicReq
  BY <1>1, <1>2, <1>7 DEF L!LogicReq, Publishes
<1>8. CASE L!Sweep
  BY <1>1, <1>2, <1>8 DEF L!Sweep, L!Swept, Sweeps, Swept
<1>9. CASE L!WorkReq
  BY <1>1, <1>2, <1>9 DEF L!WorkReq, L!SwapReqTaken, Fetches
<1>10. CASE L!WorkResp
  BY <1>1, <1>2, <1>10 DEF L!WorkResp, Reports
<1>11. CASE L!WorkEnd
  BY <1>2, <1>11 DEF L!WorkEnd, Reports
<1>12. CASE L!StopEnd
  <2>1. Stops /\ UNCHANGED <<mReply, mContext, executed, given>>
    BY <1>12 DEF L!StopEnd, Stops
  <2>. QED  BY <2>1, LevelStops DEF BridgeStep
<1>13. CASE L!DeliverReply
  BY <1>13, LevelDelivers DEF BridgeStep
<1>14. CASE L!WorkItem
  BY <1>14, LevelHandles DEF BridgeStep
<1>. QED  BY <1>3, <1>4, <1>5, <1>6, <1>7, <1>8, <1>9, <1>10, <1>11, <1>12, <1>13, <1>14 DEF L!Next


-----------------------------------------------------------------------------
(* The theorem.                                                            *)

LEMMA InitIInv ==
  ASSUME ConnectorsInit
  PROVE  IInv
<1>1. /\ lpc = "idle" /\ nl = <<>> /\ reqQueue = <<>> /\ waiting = {} /\ reqGen = 0
      /\ swapReq = <<>> /\ swapResp = <<>> /\ handle = FALSE
      /\ wpc = "none" /\ wnl = <<>> /\ respQueue = <<>>
      /\ outcome = [id \in ReqIDs |-> "unused"]
  BY DEF ConnectorsInit, Init, L!Init
<1>2. which \in {"redis", "level"}
  BY DEF ConnectorsInit
<1>3. Lists /\ Control
  <2>1. <<>> \in Seq(Request) /\ <<>> \in Seq(Response)
    BY ShortType
  <2>2. Lists
    BY <1>1, <2>1 DEF Lists
  <2>3. Control
    BY <1>1, <1>2 DEF Control
  <2>. QED  BY <2>2, <2>3
<1>4. Calls
  BY <1>1 DEF Calls, Outcomes
<1>5. ASSUME which = "redis" PROVE RedisInv
  <2>1. conn = Closed /\ broken = FALSE /\ reqing = <<>> /\ given = [id \in ReqIDs |-> NothingYet]
    BY <1>5 DEF ConnectorsInit, Init
  <2>2. None \in Commands /\ <<>> \in Seq(Commands) /\ <<>> \in Seq(BOOLEAN)
    BY ShortType DEF None, Commands
  <2>3. conn \in Connections /\ Empty(conn) /\ ~conn.open
    BY <2>1, <2>2 DEF Closed, Connections, Empty
  <2>4. Backed(conn) /\ Settled(conn, broken)
    BY <2>3 DEF Backed, Settled, IsAlive
  <2>5. Proper(NothingYet)
    BY DEF Proper, NothingYet
  <2>6. DOMAIN given = ReqIDs /\ \A id \in ReqIDs : Proper(given[id])
    BY <2>1, <2>5
  <2>. QED  BY <2>1, <2>2, <2>3, <2>4, <2>6 DEF RedisInv
<1>6. ASSUME which = "level" PROVE LevelInv
  <2>1. mContext = FALSE /\ mReply = L!NoReply /\ executed = <<>> /\ given = [id \in ReqIDs |-> L!NoReply]
    BY <1>6 DEF ConnectorsInit, L!Init
  <2>2. Reqs = <<>> /\ Resps = <<>>
    BY <1>1, Spliced DEF Reqs, Resps
  <2>3. Ascends(Reqs) /\ UpTo(Reqs, reqGen) /\ Behind(executed, Reqs) /\ Honest(Resps, executed)
    BY <2>1, <2>2 DEF Ascends, UpTo, Behind, Honest
  <2>4. executed \in Seq(ReqIDs) /\ DOMAIN executed = {}
    BY <2>1, ShortType
  <2>5. \A id \in ReqIDs : outcome[id] # "answered"
    BY <1>1
  <2>6. DOMAIN given = ReqIDs
    BY <2>1
  <2>. QED  BY <2>1, <2>3, <2>4, <2>5, <2>6 DEF LevelInv
<1>. QED  BY <1>3, <1>4, <1>5, <1>6 DEF IInv

\* Every step of either connector is one of the shapes above, and keeps the invariant.
LEMMA NextIInv ==
  ASSUME IInv, ConnectorsNext
  PROVE  IInv' /\ BridgeStep
<1>1. Lists /\ Control /\ Calls /\ which' = which
  BY DEF IInv, ConnectorsNext
<1>2. CASE which = "redis" /\ Next
  <2>1. RedisInv' /\ BridgeStep
    BY <1>2, RedisSteps
  <2>. QED  BY <1>1, <1>2, <2>1, StepLists, StepCalls DEF IInv
<1>3. CASE which = "level" /\ L!Next
  <2>1. LevelInv' /\ BridgeStep
    BY <1>3, LevelSteps
  <2>. QED  BY <1>1, <1>3, <2>1, StepLists, StepCalls DEF IInv
<1>. QED  BY <1>2, <1>3 DEF ConnectorsNext

LEMMA StillIInv ==
  ASSUME IInv, UNCHANGED <<vars, levelVars, which>>
  PROVE  IInv'
<1>. USE DEF vars, logicVars, sharedVars, workVars, histVars, levelVars
<1>1. Request' = Request /\ Response' = Response
  BY DEF Request, Response, RedisRequest, LevelRequest, RedisResponse, LevelResponse, L!Types
<1>2. Lists' /\ Control' /\ Calls'
  BY <1>1 DEF IInv, Lists, Control, Calls
<1>3. which = "redis" => RedisInv'
  BY DEF IInv, RedisInv
<1>4. which = "level" => LevelInv'
  BY DEF IInv, LevelInv, Reqs, Resps, Ascends, UpTo, Behind, Honest
<1>. QED  BY <1>2, <1>3, <1>4 DEF IInv

LEMMA IInvAnswers == ASSUME IInv PROVE OwnAnswers
<1>1. CASE which = "redis"
  <2>1. \A id \in ReqIDs : Proper(given[id])
    BY <1>1 DEF IInv, RedisInv
  <2>2. OwnReplies
    BY <2>1 DEF OwnReplies, Proper
  <2>3. Drained
    BY <1>1 DEF IInv, RedisInv, Drained, Settled, Empty, IsAlive
  <2>. QED  BY <1>1, <2>2, <2>3 DEF OwnAnswers
<1>2. CASE which = "level"
  BY <1>2 DEF IInv, LevelInv, OwnAnswers, L!OwnAnswers, ToSet, L!ToSet
<1>. QED  BY <1>1, <1>2 DEF IInv, Control

\* Whatever the application sends, however often the store or the server fails and whenever
\* the connectors are stopped and started: a callback of RedisAsyncConnector is given the
\* replies to its own commands, with nothing owed or kept between two requests, and one of
\* LevelAsyncConnector the reply of its own request, executed at most once and in order.
THEOREM AlwaysOwnAnswers == ConnectorsSpec => []OwnAnswers
<1>1. ConnectorsInit => IInv
  BY InitIInv
<1>2. IInv /\ [ConnectorsNext]_<<vars, levelVars, which>> => IInv'
  BY NextIInv, StillIInv
<1>3. IInv => OwnAnswers
  BY IInvAnswers
<1>. QED  BY <1>1, <1>2, <1>3, PTL DEF ConnectorsSpec


-----------------------------------------------------------------------------
(* Both implement AsyncCall.                                               *)

LEMMA PrefixOfConcat ==
  ASSUME NEW S, NEW s \in Seq(S), NEW t \in Seq(S)
  PROVE  IsPrefix(s, s \o t)
<1>1. /\ Len(s) \in Nat /\ Len(t) \in Nat /\ Len(s \o t) = Len(s) + Len(t) /\ s \o t \in Seq(S)
      /\ \A i \in 1 .. Len(s) + Len(t) : (s \o t)[i] = IF i <= Len(s) THEN s[i] ELSE t[i - Len(s)]
  BY ConcatProperties, LenProperties
<1>2. \A i \in 1 .. Len(s) : s[i] \in S /\ (s \o t)[i] = s[i]
  BY <1>1, ElementOfSeq
<1>3. /\ SubSeq(s, 1, Len(s)) \in Seq(S) /\ Len(SubSeq(s, 1, Len(s))) = Len(s)
      /\ \A i \in 1 .. Len(s) : SubSeq(s, 1, Len(s))[i] = s[i]
  BY SubSeqFull
<1>4. /\ SubSeq(s \o t, 1, Len(s)) \in Seq(S)
      /\ Len(SubSeq(s \o t, 1, Len(s))) = Len(s)
      /\ \A i \in 1 .. Len(s) : SubSeq(s \o t, 1, Len(s))[i] = s[i]
  <2>. DEFINE a == s \o t
              n == Len(s)
  <2>1. n \in Nat /\ \A i \in 1 .. n : a[i] \in S /\ a[i] = s[i]
    BY <1>1, <1>2
  <2>. HIDE DEF a, n
  <2>2. 1 \in Int /\ n \in Int /\ (1 <= n => n - 1 + 1 = n) /\ (~(1 <= n) => n = 0)
    BY <2>1
  <2>3. /\ SubSeq(a, 1, n) \in Seq(S)
        /\ Len(SubSeq(a, 1, n)) = IF 1 <= n THEN n - 1 + 1 ELSE 0
        /\ \A i \in 1 .. n - 1 + 1 : SubSeq(a, 1, n)[i] = a[1 + i - 1]
    BY <2>1, <2>2, SubSeqProperties
  <2>4. \A i \in 1 .. n : i \in 1 .. n - 1 + 1 /\ 1 + i - 1 = i
    BY <2>1
  <2>. QED  BY <2>1, <2>2, <2>3, <2>4 DEF a, n
<1>5. SubSeq(s, 1, Len(s)) = SubSeq(s \o t, 1, Len(s))
  BY <1>3, <1>4, SeqEqual
<1>. QED  BY <1>1, <1>5 DEF IsPrefix

\* Adding one item at the end.
LEMMA PrefixOfAppend ==
  ASSUME NEW S, NEW s \in Seq(S), NEW x \in S
  PROVE  /\ Len(Append(s, x)) = Len(s) + 1 /\ Last(Append(s, x)) = x
         /\ IsPrefix(s, Append(s, x)) /\ Append(s, x) # s
<1>1. Append(s, x) = s \o <<x>> /\ <<x>> \in Seq(S)
  BY AppendIsConcat, ShortType
<1>2. IsPrefix(s, Append(s, x))
  BY <1>1, PrefixOfConcat
<1>3. Len(Append(s, x)) = Len(s) + 1 /\ Append(s, x)[Len(s) + 1] = x /\ Len(s) \in Nat
  BY AppendProperties, LenProperties
<1>. QED  BY <1>2, <1>3 DEF Last

\* AsyncCall's channels are these, and so are its operators on sequences.
LEMMA SameChannels ==
  /\ Reqs = wnl \o swapReq \o reqQueue /\ Resps = nl \o swapResp \o respQueue
  /\ \A s, t : Call!IsPrefix(s, t) <=> IsPrefix(s, t)
  /\ \A s : Call!Last(s) = Last(s)
BY DEF Reqs, Resps, Call!IsPrefix, IsPrefix, Call!Last, Last

\* What waits for AsyncCall is what mReqWaiting holds.
LEMMA WaitingAgrees == ASSUME Calls PROVE Call!Waiting = waiting
BY DEF Call!Waiting, Calls

LEMMA InitBridge == ASSUME ConnectorsInit PROVE Call!Init
<1>1. /\ nl = <<>> /\ reqQueue = <<>> /\ swapReq = <<>> /\ swapResp = <<>>
      /\ wnl = <<>> /\ respQueue = <<>> /\ outcome = [id \in ReqIDs |-> "unused"]
  BY DEF ConnectorsInit, Init, L!Init
<1>2. Reqs = <<>> /\ Resps = <<>>
  BY <1>1, Spliced DEF Reqs, Resps
<1>. QED  BY <1>1, <1>2, SameChannels DEF Call!Init

\* Each step is a step of AsyncCall or is invisible to it.
LEMMA NextBridge ==
  ASSUME Lists, Control, Calls, BridgeStep
  PROVE  Call!Next \/ UNCHANGED Call!vars
<1>0. Reqs \in Seq(Request) /\ Resps \in Seq(Response) /\ Len(Reqs) \in Nat /\ Len(Resps) \in Nat
  BY Channels, LenProperties
<1>v. UNCHANGED <<outcome, Reqs, Resps>> => UNCHANGED Call!vars
  BY SameChannels DEF Call!vars, Reqs, Resps
<1>1. CASE Quiet \/ Updates \/ Publishes \/ Fetches \/ Reports
  <2>1. outcome' = outcome
    BY <1>1 DEF Quiet, Updates, Publishes, Fetches, Reports
  <2>. QED  BY <1>1, <1>v, <2>1, StillSteps
<1>2. CASE Sweeps
  <2>1. UNCHANGED <<Reqs, Resps>>
    BY <1>2, StillSteps
  <2>2. outcome' = [id \in ReqIDs |-> IF id \in Swept THEN "timeout" ELSE outcome[id]]
    BY <1>2 DEF Sweeps
  <2>3. CASE Swept = {}
    <3>1. outcome' = outcome
      BY <2>2, <2>3 DEF Calls
    <3>. QED  BY <1>v, <2>1, <3>1
  <2>4. CASE Swept # {}
    <3>1. Swept \in (SUBSET Call!Waiting) \ {{}}
      BY <2>4, WaitingAgrees DEF Swept
    <3>2. Call!Expire
      BY <2>1, <2>2, <3>1 DEF Call!Expire, Reqs, Resps
    <3>. QED  BY <3>2 DEF Call!Next
  <2>. QED  BY <2>3, <2>4
<1>3. CASE Delivers
  <2>1. Resps # <<>> /\ Head(Resps) = Head(nl) /\ Resps' = Tail(Resps) /\ Reqs' = Reqs
    BY <1>3, DeliverSteps
  <2>2. outcome' = IF Head(Resps).id \in Call!Waiting
                     THEN [outcome EXCEPT ![Head(Resps).id] = "answered"] ELSE outcome
    BY <1>3, <2>1, WaitingAgrees DEF Delivers
  <2>3. Call!Take
    BY <2>1, <2>2 DEF Call!Take, Reqs, Resps
  <2>. QED  BY <2>3 DEF Call!Next
<1>4. CASE Stops
  <2>1. Reqs' = <<>> /\ Resps' = <<>>
    BY <1>4, StopSteps
  <2>2. IsPrefix(Resps', Resps)
    <3>1. <<>> \in Seq(Response) /\ <<>> \o Resps = Resps
      BY <1>0, ShortType, ConcatEmptySeq
    <3>. QED  BY <1>0, <2>1, <3>1, PrefixOfConcat
  <2>3. outcome' = [id \in ReqIDs |-> IF id \in Call!Waiting THEN "dropped" ELSE outcome[id]]
    BY <1>4, WaitingAgrees DEF Stops
  <2>4. Call!Shutdown
    BY <2>1, <2>2, <2>3, SameChannels DEF Call!Shutdown, Reqs, Resps
  <2>. QED  BY <2>4 DEF Call!Next
<1>5. ASSUME NEW g \in Response, Works(g)
      PROVE  Call!Next
  <2>1. Reqs # <<>> /\ Reqs' = Tail(Reqs) /\ Resps' = Append(Resps, g)
    BY <1>5, WorkSteps
  <2>2. outcome' = outcome
    BY <1>5 DEF Works
  <2>3. IsPrefix(Resps, Resps')
    BY <1>0, <2>1, PrefixOfAppend
  <2>4. Call!Handle
    BY <2>1, <2>2, <2>3, SameChannels DEF Call!Handle, Reqs, Resps
  <2>. QED  BY <2>4 DEF Call!Next
<1>6. ASSUME NEW req \in Request, Sends(req)
      PROVE  Call!Next
  <2>1. Reqs' = Append(Reqs, req) /\ Resps' = Resps
    BY <1>6, SendSteps
  <2>2. Len(Reqs') = Len(Reqs) + 1 /\ IsPrefix(Reqs, Reqs') /\ Last(Reqs') = req
    BY <1>0, <2>1, PrefixOfAppend
  <2>3. CASE req.id = 0 /\ outcome' = outcome
    <3>1. Call!Cast
      BY <2>1, <2>2, <2>3, SameChannels DEF Call!Cast, Reqs, Resps
    <3>. QED  BY <3>1 DEF Call!Next
  <2>4. CASE /\ req.id = reqGen + 1 /\ req.id \in ReqIDs
             /\ outcome' = [outcome EXCEPT ![req.id] = "waiting"]
    <3>1. outcome[req.id] = "unused"
      BY <2>4 DEF Calls
    <3>2. Call!Call(req.id)
      BY <2>1, <2>2, <2>4, <3>1, SameChannels DEF Call!Call, Reqs, Resps
    <3>. QED  BY <2>4, <3>2 DEF Call!Next
  <2>. QED  BY <1>6, <2>3, <2>4 DEF Sends
<1>. QED  BY <1>1, <1>2, <1>3, <1>4, <1>5, <1>6 DEF BridgeStep

\* The threads of either connector with their lists and mutexes behave like a caller and a
\* worker joined by two first-in first-out channels.
THEOREM BothImplement == ConnectorsSpec => BothBridges
<1>1. ConnectorsInit => IInv /\ Call!Init
  BY InitIInv, InitBridge
<1>2. IInv /\ [ConnectorsNext]_<<vars, levelVars, which>> => IInv'
  BY NextIInv, StillIInv
<1>3. IInv /\ [ConnectorsNext]_<<vars, levelVars, which>> => [Call!Next]_(Call!vars)
  <2>1. ASSUME IInv, ConnectorsNext PROVE Call!Next \/ UNCHANGED Call!vars
    BY <2>1, NextIInv, NextBridge DEF IInv
  <2>2. ASSUME UNCHANGED <<vars, levelVars, which>> PROVE UNCHANGED Call!vars
    BY <2>2 DEF vars, logicVars, sharedVars, workVars, histVars, Call!vars
  <2>. QED  BY <2>1, <2>2
<1>. QED  BY <1>1, <1>2, <1>3, PTL DEF ConnectorsSpec, BothBridges, RedisBridge, Call!Spec
=============================================================================
