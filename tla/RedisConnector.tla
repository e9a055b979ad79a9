--------------------------- MODULE RedisConnector ---------------------------
(***************************************************************************)
(* RedisConnector: a blocking connection to a redis server.  A connection  *)
(* is a record; each operation of the class is the set of results it may   *)
(* have, since any read or write of the socket may fail.                   *)
(*                                                                         *)
(* hiredis matches replies to commands by position only: a command is      *)
(* added to the wire, and a reply taken from it is the oldest one there.   *)
(* A reply is represented by the command it answers.  The server answers   *)
(* every command it is sent; out of memory is left out.                    *)
(***************************************************************************)
EXTENDS Naturals, SequencesExt

\* Of commands: one of request 0 is the connector's own.
None == <<0, 0>>
Own(k) == <<0, k>>

Closed == [open |-> FALSE,      \* mContext # nullptr
           alive |-> FALSE,     \* mAlive
           wire |-> <<>>,       \* commands whose reply was not taken, oldest first
           need |-> 0,          \* mNeedReply
           reply |-> None]      \* mReply

IsAlive(c) == c.open /\ c.alive

\* What an operation leaves and answers.
Result(c, ok) == [c |-> c, ok |-> ok]

\* check_alive() after a failed read or write; it is a timeout, too.
Lost(c) == [c EXCEPT !.alive = FALSE]

\* A command or a parameter that is empty is refused by push_cmd and push_param
\* before anything is sent.
Refused(c, ok) == ~IsAlive(c) \/ ~ok

\* real_pipe() for each of some commands: they wait in the output buffer, nothing is
\* read.
Piped(c, cmds) == [c EXCEPT !.wire = @ \o cmds, !.need = @ + Len(cmds)]

\* real_command() and command_format(): the reply read is the oldest outstanding
\* one, and takes the place of a reply nobody has popped.
Command(c, cmd, ok) ==
  LET sent == [c EXCEPT !.wire = Append(@, cmd)] IN
  IF Refused(c, ok) THEN {Result(c, FALSE)}
  ELSE {Result(Lost(sent), FALSE),
        Result([sent EXCEPT !.reply = Head(sent.wire), !.wire = Tail(@)], TRUE)}

\* pop_reply(): the reply kept by a command, or else the next one owed to a pipe
\* (get_reply).  Handing a reply out empties mReply.
PopReply(c) ==
  IF ~IsAlive(c) \/ (c.reply = None /\ c.need = 0) THEN {[c |-> c, reply |-> None]}
  ELSE IF c.reply # None THEN {[c |-> [c EXCEPT !.reply = None], reply |-> c.reply]}
  ELSE {[c |-> Lost(c), reply |-> None],
        [c |-> [c EXCEPT !.wire = Tail(@), !.need = @ - 1], reply |-> Head(c.wire)]}

\* A command whose reply is popped at once: auth, select and ping.
Asked(c, k) == UNION {{Result(p.c, r.ok /\ p.reply # None) : p \in PopReply(r.c)}
                       : r \in Command(c, Own(k), TRUE)}

\* close(): mAlive is left alone; without a context it says nothing.
Close(c) == IF c.open THEN [Closed EXCEPT !.alive = c.alive] ELSE c

\* connect(): refused on a context that exists; check_auth is one more question of
\* the same kind as select_db and is left out.
Connect(c) ==
  LET fresh == [c EXCEPT !.open = TRUE, !.alive = TRUE] IN
  IF c.open THEN {Result(c, FALSE)}
  ELSE {Result(c, FALSE)}
         \cup {IF r.ok THEN r ELSE Result(Close(r.c), FALSE) : r \in Asked(fresh, 1)}

\* reconnect(): a new socket, with nothing outstanding.  It asks select_db while
\* mAlive is still false, and every command is refused until it is true.
Reconnect(c) ==
  {c} \cup {IF r.ok THEN [r.c EXCEPT !.alive = TRUE] ELSE r.c
             : r \in Asked([c EXCEPT !.wire = <<>>], 1)}

\* update(): every so often a ping, or on a lost connection an attempt to reconnect.
KeptAlive(c) ==
  IF ~c.open THEN {c}
  ELSE IF c.alive THEN {c} \cup {r.c : r \in Asked(c, 2)}
  ELSE {c} \cup Reconnect(c)
=============================================================================
