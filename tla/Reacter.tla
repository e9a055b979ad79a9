------------------------------- MODULE Reacter -------------------------------
(***************************************************************************)
(* PureNetReacter with its links (Link, LinkTcp, LinkMgr) and listeners,   *)
(* over the libuv loop: how a link object is taken from the pool, opened,  *)
(* closed and given back, while timers, writes, connects, a shutdown and   *)
(* next-frame callbacks hold pointers to it.  One thread runs all of it;   *)
(* what interleaves is the order of callbacks.                             *)
(*                                                                         *)
(* update() is walked phase by phase:                                      *)
(*   out -> timer (mTimer.update) -> uv (uv_run: events) -> close (uv_run: *)
(*   closing handles) -> out (mWorkFrame runs, the two frames are swapped) *)
(*                                                                         *)
(* libuv is external: its handle is the up, writable, shut, closing, conn  *)
(* and writes fields.  A handle closed twice fails an assertion of libuv;  *)
(* the process is then dead and the fault is recorded.                     *)
(***************************************************************************)
EXTENDS Integers, FiniteSets, SequencesExt

CONSTANTS
  Objs,        \* link objects of the LinkFactory pool
  Conns,       \* connect_tcp calls
  NoConn,      \* a handle that is not connecting
  Listeners,   \* ListenTcpReq objects
  MaxLinks,    \* bound: link ids given out
  MaxWrites,   \* bound: writes under way on one handle
  MaxInits     \* bound: calls of init()

ASSUME NoConnAssumption == NoConn \notin Conns
ASSUME KindsAssumption == Objs \cap Listeners = {}
ASSUME BoundsAssumption == MaxLinks \in Nat /\ MaxWrites \in Nat \ {0} /\ MaxInits \in Nat

VARIABLES
  rstate,      \* mState
  phase,       \* where update() is
  obj,         \* the link objects and their handles
  links,       \* mLinks: pairs of a link id and its object
  gen,         \* mLinkIDGen
  timers,      \* keep-alive timers in mTimer: pairs of an object and the id it had
  ready,       \* mReadyFrame: the objects on_close asked to free
  work,        \* mWorkFrame
  lsn,         \* the listeners' handles
  resolving,   \* connects whose uv_getaddrinfo is under way
  closeq,      \* handles uv__run_closing_handles has yet to finish
  fault,       \* which double uv_close killed the process
  \* history
  inits,       \* calls of init()
  called,      \* how often each connect's callback ran; -1 before the call
  evs          \* Open, Start and Close events of each link

vars == <<rstate, phase, obj, links, gen, timers, ready, work, lsn, resolving,
          closeq, fault, inits, called, evs>>

LinkIDs == 1..MaxLinks

\* The process lives and update() is in phase p.
At(p) == fault = "none" /\ phase = p

\* The process lives and the reacter takes calls.
Running == fault = "none" /\ rstate = "Valid"

\* A pooled object: Link::clear has reset the link, nothing refers to the handle.
Pooled == [id |-> 0, st |-> "Invalid", timer |-> FALSE, data |-> FALSE,
           up |-> FALSE, writable |-> FALSE, shut |-> "no", closing |-> FALSE,
           conn |-> NoConn, writes |-> 0]

\* Link::clear leaves the handle alone; when that is closed, nothing of it remains.
Cleared(x) == [x EXCEPT !.id = 0, !.st = "Invalid", !.timer = FALSE, !.data = FALSE]
Closed(x)  == [Pooled EXCEPT !.id = x.id, !.st = "Close", !.data = x.data]

TypeOK ==
  /\ rstate \in {"Invalid", "Valid", "Closing"}
  /\ phase \in {"out", "timer", "uv", "close"}
  /\ obj \in [Objs -> [id : 0..MaxLinks, timer : BOOLEAN, data : BOOLEAN,
                       st : {"Invalid", "Opening", "Open", "Start", "End", "Close"},
                       up : BOOLEAN, writable : BOOLEAN, closing : BOOLEAN,
                       shut : {"no", "armed", "stuck"},
                       conn : Conns \cup {NoConn}, writes : 0..MaxWrites]]
  /\ links \subseteq LinkIDs \X Objs
  /\ gen \in 0..MaxLinks
  /\ timers \subseteq Objs \X LinkIDs
  /\ ready \subseteq Objs \X LinkIDs
  /\ work \subseteq Objs \X LinkIDs
  /\ lsn \in [Listeners -> {"none", "listening", "closing"}]
  /\ resolving \subseteq Conns
  /\ closeq \subseteq Objs \cup Listeners
  /\ fault \in {"none", "listener", "link"}
  /\ inits \in 0..MaxInits
  /\ called \in [Conns -> -1..2]
  /\ evs \in [LinkIDs -> Seq({"Open", "Start", "Close"})]

Init ==
  /\ rstate = "Invalid" /\ phase = "out"
  /\ obj = [o \in Objs |-> Pooled]
  /\ links = {} /\ gen = 0 /\ timers = {} /\ ready = {} /\ work = {}
  /\ lsn = [x \in Listeners |-> "none"]
  /\ resolving = {} /\ closeq = {} /\ fault = "none"
  /\ inits = 0 /\ called = [c \in Conns |-> -1] /\ evs = [i \in LinkIDs |-> <<>>]

-----------------------------------------------------------------------------
(* A link and its handle.                                                  *)

\* Link::valid
Valid(x) == x.st \in {"Opening", "Open", "Start"}

\* uv_shutdown: waits for the writes; on a handle that is connecting the loop
\* consumes its wake-up for the connect and never comes back to it.
UvShutdown(x) ==
  [x EXCEPT !.writable = FALSE, !.shut = IF x.conn = NoConn THEN "armed" ELSE "stuck"]

\* Mutant of CloseTcp: a handle that cannot be shut down is not closed either.
CloseTcpIfWritable(x) == IF x.writable /\ ~x.closing THEN UvShutdown(x) ELSE x

\* PureNetReacter::close_tcp
CloseTcp(x) ==
  IF x.writable /\ ~x.closing THEN UvShutdown(x) ELSE [x EXCEPT !.closing = TRUE]

\* LinkTcp::close: the protocols end, Link::on_end changes the state of an open
\* link only, then the handle is closed.
LinkClose(x) ==
  IF Valid(x) THEN CloseTcp([x EXCEPT !.st = IF x.st = "Opening" THEN x.st ELSE "End"])
              ELSE x

\* Link::on_open and what ProtocolStack::on_start makes of it: a handshake is
\* awaited or written, the link starts at once, or the protocol fails.
LinkOnOpen(x) ==
  LET y == [x EXCEPT !.st = "Open", !.timer = TRUE] IN
  { [x |-> y,                               ev |-> <<"Open">>],
    [x |-> [y EXCEPT !.data = TRUE],        ev |-> <<"Open">>],
    [x |-> [y EXCEPT !.st = "Start"],       ev |-> <<"Open", "Start">>],
    [x |-> LinkClose(y),                    ev |-> <<"Open">>] }

\* LinkTcp::flush_data; uv_write refuses a handle that is not writable.
LinkFlush(x) ==
  IF ~Valid(x) \/ ~x.data THEN x
  ELSE [x EXCEPT !.data = FALSE, !.writes = IF x.writable THEN @ + 1 ELSE @]

\* LinkTcp::push_data: a writer that is full is flushed and filled again.
LinkPush(x) == {y \in {[x EXCEPT !.data = TRUE], [LinkFlush(x) EXCEPT !.data = TRUE]} :
                  y.writes < MaxWrites}

\* mConnected
Callback(c) == called' = [called EXCEPT ![c] = @ + 1]

NewLink(id) == [Pooled EXCEPT !.id = id, !.st = "Opening", !.up = TRUE]

\* LinkFactory::get, Link::init and LinkMgr::add_link give object o to a new link
\* (that the pool is exhausted or the protocols do not initialise is left out).
AddLink(o) ==
  /\ obj[o].id = 0 /\ gen < MaxLinks
  /\ gen' = gen + 1
  /\ links' = links \cup {<<gen + 1, o>>}

\* on_link_open: the keep-alive timer of a link that has just opened (mKeepAlive > 0).
AddTimer(o) == timers' = timers \cup {<<o, obj'[o].id>>}

\* on_link_close: the timer of a link that still has one.
KeepTimer(o)   == timers                  \* mutant: it is not removed
RemoveTimer(o) == IF obj[o].timer THEN timers \ {<<o, obj[o].id>>} ELSE timers

-----------------------------------------------------------------------------
(* The application's calls: between two updates, or in a handler of an     *)
(* event, of a connect or of a timer, in any phase of update().            *)

InitReacter ==
  /\ fault = "none" /\ rstate = "Invalid" /\ inits < MaxInits
  /\ rstate' = "Valid" /\ inits' = inits + 1
  /\ UNCHANGED <<phase, obj, links, gen, timers, ready, work, lsn, resolving, closeq,
                 fault, called, evs>>

\* listen_tcp (a listener that cannot listen is closed again and not kept)
ListenTcp(x) ==
  /\ Running /\ lsn[x] = "none"
  /\ lsn' = [lsn EXCEPT ![x] = "listening"]
  /\ UNCHANGED <<rstate, phase, obj, links, gen, timers, ready, work, resolving, closeq,
                 fault, inits, called, evs>>

\* stop_listen_tcp_req: uv_close; the node leaves mListenTcp only when the close
\* callback deletes it.
StopListenReq(S) ==
  /\ fault' = IF \E x \in S : lsn[x] = "closing" THEN "listener" ELSE fault
  /\ lsn' = [x \in Listeners |-> IF x \in S THEN "closing" ELSE lsn[x]]

\* stop_listen_tcp of the group of listener x
StopListenTcp(x) ==
  /\ Running /\ lsn[x] # "none"
  /\ StopListenReq({x})
  /\ UNCHANGED <<rstate, phase, obj, links, gen, timers, ready, work, resolving, closeq,
                 inits, called, evs>>

\* connect_tcp: the host is resolved first; uv_getaddrinfo may refuse.
ConnectTcp(c) ==
  /\ Running /\ called[c] = -1
  /\ \/ resolving' = resolving \cup {c} /\ called' = [called EXCEPT ![c] = 0]
     \/ called' = [called EXCEPT ![c] = 1] /\ UNCHANGED resolving
  /\ UNCHANGED <<rstate, phase, obj, links, gen, timers, ready, work, lsn, closeq, fault,
                 inits, evs>>

\* LinkMgr::close_link, for a link the application was told of.
CloseLink(id, o) ==
  /\ Running /\ <<id, o>> \in links /\ evs[id] # <<>>
  /\ obj' = [obj EXCEPT ![o] = LinkClose(@)]
  /\ UNCHANGED <<rstate, phase, links, gen, timers, ready, work, lsn, resolving, closeq,
                 fault, inits, called, evs>>

\* LinkMgr::send_msg: Link::send_msg refuses a link that has not started.
SendMsg(id, o) ==
  /\ Running /\ <<id, o>> \in links /\ obj[o].st = "Start"
  /\ \E y \in LinkPush(obj[o]) : obj' = [obj EXCEPT ![o] = y]
  /\ UNCHANGED <<rstate, phase, links, gen, timers, ready, work, lsn, resolving, closeq,
                 fault, inits, called, evs>>

\* release(), called outside update(): every listener and every link is closed, then
\* update(0) runs until nothing is alive in the loop.
Release ==
  /\ Running /\ At("out")
  /\ rstate' = "Closing"
  /\ StopListenReq({x \in Listeners : lsn[x] # "none"})
  /\ obj' = [o \in Objs |-> IF \E i \in LinkIDs : <<i, o>> \in links
                              THEN LinkClose(obj[o]) ELSE obj[o]]
  /\ UNCHANGED <<phase, links, gen, timers, ready, work, resolving, closeq, inits,
                 called, evs>>

\* uv_loop_alive
LoopAlive ==
  \/ resolving # {}
  \/ \E o \in Objs : obj[o].up
  \/ \E x \in Listeners : lsn[x] # "none"

\* LinkMgr::release: the links whose next-frame callback was discarded are freed.
LinksForgotten == obj                     \* mutant: the table is only emptied
LinksReleased ==
  [o \in Objs |-> IF \E i \in LinkIDs : <<i, o>> \in links THEN Cleared(obj[o]) ELSE obj[o]]

\* The rest of release().
ReleaseEnd ==
  /\ rstate = "Closing" /\ At("out") /\ ~LoopAlive
  /\ rstate' = "Invalid"
  /\ timers' = {} /\ ready' = {} /\ work' = {} /\ links' = {}
  /\ obj' = LinksReleased
  /\ UNCHANGED <<phase, gen, lsn, resolving, closeq, fault, inits, called, evs>>

-----------------------------------------------------------------------------
(* update()                                                                *)

UpdateBegin ==
  /\ At("out")
  /\ rstate = "Valid" \/ (rstate = "Closing" /\ LoopAlive)
  /\ phase' = "timer"
  /\ UNCHANGED <<rstate, obj, links, gen, timers, ready, work, lsn, resolving, closeq,
                 fault, inits, called, evs>>

\* The keep-alive timer finds its link dead: the link is closed, the timer ends.
\* release() updates with a delta of 0, which fires no timer.
KeepAliveTimeout(o, id) ==
  /\ At("timer") /\ rstate = "Valid" /\ <<o, id>> \in timers
  /\ obj' = [obj EXCEPT ![o] = LinkClose([@ EXCEPT !.timer = FALSE])]
  /\ timers' = timers \ {<<o, id>>}
  /\ UNCHANGED <<rstate, phase, links, gen, ready, work, lsn, resolving, closeq, fault,
                 inits, called, evs>>

\* LinkMgr::flush_link, then uv_run.
FlushLink ==
  /\ At("timer")
  /\ phase' = "uv"
  /\ obj' = [o \in Objs |-> LinkFlush(obj[o])]
  /\ UNCHANGED <<rstate, links, gen, timers, ready, work, lsn, resolving, closeq, fault,
                 inits, called, evs>>

\* uv__run_closing_handles takes the handles that are closing by now.
CloseBegin ==
  /\ At("uv")
  /\ phase' = "close"
  /\ closeq' = {o \in Objs : obj[o].closing} \cup {x \in Listeners : lsn[x] = "closing"}
  /\ UNCHANGED <<rstate, obj, links, gen, timers, ready, work, lsn, resolving, fault,
                 inits, called, evs>>

\* update()'s last lines: what on_close asked for in this frame runs in the next.
ClearFrames == work' = {} /\ ready' = {}  \* mutant: it is forgotten
SwapFrames  == work' = ready /\ ready' = {}

\* mWorkFrame: remove_link and Link::free for each link closed a frame ago.
FrameEnd ==
  /\ At("close") /\ closeq = {}
  /\ phase' = "out"
  /\ links' = {p \in links : \A w \in work : p[1] # obj[w[1]].id}
  /\ obj' = [o \in Objs |-> IF \E w \in work : w[1] = o THEN Cleared(obj[o]) ELSE obj[o]]
  /\ SwapFrames
  /\ UNCHANGED <<rstate, gen, timers, lsn, resolving, closeq, fault, inits, called, evs>>

-----------------------------------------------------------------------------
(* Callbacks of the loop.                                                  *)

InUv(o) == At("uv") /\ obj[o].up /\ ~obj[o].closing

\* get_host_addr's callback: the host is unknown.
ResolveFailed(c) ==
  /\ At("uv") /\ c \in resolving
  /\ resolving' = resolving \ {c}
  /\ Callback(c)
  /\ UNCHANGED <<rstate, phase, obj, links, gen, timers, ready, work, lsn, closeq, fault,
                 inits, evs>>

\* get_host_addr's callback: a link is made and starts to connect ...
Resolved(c, o) ==
  /\ At("uv") /\ c \in resolving
  /\ AddLink(o)
  /\ resolving' = resolving \ {c}
  /\ obj' = [obj EXCEPT ![o] = [NewLink(gen + 1) EXCEPT !.writable = TRUE, !.conn = c]]
  /\ UNCHANGED <<rstate, phase, timers, ready, work, lsn, closeq, fault, inits, called,
                 evs>>

\* ... or uv_tcp_connect refuses, with or without a socket, and the link is closed.
ConnectRefused(c, o) ==
  /\ At("uv") /\ c \in resolving
  /\ AddLink(o)
  /\ resolving' = resolving \ {c}
  /\ \E socket \in BOOLEAN :
       obj' = [obj EXCEPT ![o] = LinkClose([NewLink(gen + 1) EXCEPT !.writable = socket])]
  /\ Callback(c)
  /\ UNCHANGED <<rstate, phase, timers, ready, work, lsn, closeq, fault, inits, evs>>

\* The connect callback: open_tcp_link, then mConnected.
Connected(o) ==
  /\ InUv(o) /\ obj[o].conn # NoConn
  /\ \E r \in LinkOnOpen([obj[o] EXCEPT !.conn = NoConn]) :
       /\ obj' = [obj EXCEPT ![o] = r.x]
       /\ evs' = [evs EXCEPT ![obj[o].id] = @ \o r.ev]
  /\ AddTimer(o)
  /\ Callback(obj[o].conn)
  /\ UNCHANGED <<rstate, phase, links, gen, ready, work, lsn, resolving, closeq, fault,
                 inits>>

\* Mutant of ConnectFailed: the caller is not told.
ConnectFailedSilently(o) ==
  /\ InUv(o) /\ obj[o].conn # NoConn
  /\ obj' = [obj EXCEPT ![o] = LinkClose([@ EXCEPT !.conn = NoConn])]
  /\ UNCHANGED <<rstate, phase, links, gen, timers, ready, work, lsn, resolving, closeq,
                 fault, inits, called, evs>>

\* The connect callback with an error: mConnected, then the link is closed.
ConnectFailed(o) ==
  /\ InUv(o) /\ obj[o].conn # NoConn
  /\ obj' = [obj EXCEPT ![o] = LinkClose([@ EXCEPT !.conn = NoConn])]
  /\ Callback(obj[o].conn)
  /\ UNCHANGED <<rstate, phase, links, gen, timers, ready, work, lsn, resolving, closeq,
                 fault, inits, evs>>

\* on_accept_tcp: the new link opens at once, or uv_accept or uv_read_start fails
\* and it is closed.
Accept(x, o) ==
  /\ At("uv") /\ lsn[x] = "listening"
  /\ AddLink(o)
  /\ LET new == NewLink(gen + 1) IN
     \/ /\ \E r \in LinkOnOpen([new EXCEPT !.writable = TRUE]) :
             /\ obj' = [obj EXCEPT ![o] = r.x]
             /\ evs' = [evs EXCEPT ![gen + 1] = @ \o r.ev]
        /\ AddTimer(o)
     \/ /\ \E accepted \in BOOLEAN :
             obj' = [obj EXCEPT ![o] = LinkClose([new EXCEPT !.writable = accepted])]
        /\ UNCHANGED <<timers, evs>>
  /\ UNCHANGED <<rstate, phase, ready, work, lsn, resolving, closeq, fault, inits, called>>

\* Link::on_start's check of the state.
MayStartAgain(x) == Valid(x)              \* mutant: of any live link
MayStart(x)      == x.st = "Open"

\* on_read_tcp: the handshake completes ...
ReadStart(o) ==
  /\ InUv(o) /\ MayStart(obj[o])
  /\ obj' = [obj EXCEPT ![o].st = "Start"]
  /\ evs' = [evs EXCEPT ![obj[o].id] = Append(@, "Start")]
  /\ UNCHANGED <<rstate, phase, links, gen, timers, ready, work, lsn, resolving, closeq,
                 fault, inits, called>>

\* ... or what was read is answered at once, by the protocol or a handler ...
ReadReply(o) ==
  /\ InUv(o) /\ obj[o].st \in {"Open", "Start"}
  /\ \E y \in LinkPush(obj[o]) : obj' = [obj EXCEPT ![o] = y]
  /\ UNCHANGED <<rstate, phase, links, gen, timers, ready, work, lsn, resolving, closeq,
                 fault, inits, called, evs>>

\* ... or the peer is gone, or the protocol rejects what was read.
ReadFailed(o) ==
  /\ InUv(o) /\ obj[o].st \in {"Open", "Start"}
  /\ obj' = [obj EXCEPT ![o] = LinkClose(@)]
  /\ UNCHANGED <<rstate, phase, links, gen, timers, ready, work, lsn, resolving, closeq,
                 fault, inits, called, evs>>

\* flush_data's callback; a write that failed closes the link.
Written(o) ==
  /\ InUv(o) /\ obj[o].writes > 0
  /\ \E ok \in BOOLEAN : LET x == [obj[o] EXCEPT !.writes = @ - 1] IN
       obj' = [obj EXCEPT ![o] = IF ok THEN x ELSE LinkClose(x)]
  /\ UNCHANGED <<rstate, phase, links, gen, timers, ready, work, lsn, resolving, closeq,
                 fault, inits, called, evs>>

\* on_tcp_shutdown, when the writes are done: uv_close.
ShutdownDone(o) ==
  /\ InUv(o) /\ obj[o].shut = "armed" /\ obj[o].writes = 0
  /\ obj' = [obj EXCEPT ![o].shut = "no", ![o].closing = TRUE]
  /\ UNCHANGED <<rstate, phase, links, gen, timers, ready, work, lsn, resolving, closeq,
                 fault, inits, called, evs>>

\* uv__finish_close of a link's handle: the connect and the writes under way are
\* cancelled (their callbacks run, and can only close a link that is closing), a
\* shutdown under way too: on_tcp_shutdown then closes the handle once more.
\* The close callback is on_close.
HandleClosed(o) ==
  LET x == obj[o] IN
  /\ At("close") /\ o \in closeq
  /\ closeq' = closeq \ {o}
  /\ IF x.shut # "no"
       THEN fault' = "link" /\ UNCHANGED <<obj, timers, ready, called, evs>>
       ELSE /\ evs' = [evs EXCEPT ![x.id] = Append(@, "Close")]
            /\ timers' = RemoveTimer(o)
            /\ obj' = [obj EXCEPT ![o] = Closed(x)]
            /\ ready' = ready \cup {<<o, x.id>>}
            /\ IF x.conn # NoConn THEN Callback(x.conn) ELSE UNCHANGED called
            /\ UNCHANGED fault
  /\ UNCHANGED <<rstate, phase, links, gen, work, lsn, resolving, inits>>

\* The close callback of a listener deletes it.
ListenerClosed(x) ==
  /\ At("close") /\ x \in closeq
  /\ closeq' = closeq \ {x}
  /\ lsn' = [lsn EXCEPT ![x] = "none"]
  /\ UNCHANGED <<rstate, phase, obj, links, gen, timers, ready, work, resolving, fault,
                 inits, called, evs>>

-----------------------------------------------------------------------------
Calls ==
  \/ InitReacter \/ Release
  \/ \E x \in Listeners : ListenTcp(x) \/ StopListenTcp(x)
  \/ \E c \in Conns : ConnectTcp(c)
  \/ \E p \in links : CloseLink(p[1], p[2]) \/ SendMsg(p[1], p[2])

Loop ==
  \/ UpdateBegin \/ FlushLink \/ CloseBegin \/ FrameEnd \/ ReleaseEnd
  \/ \E o \in Objs : HandleClosed(o)
  \/ \E x \in Listeners : ListenerClosed(x)

Peers ==
  \/ \E t \in timers : KeepAliveTimeout(t[1], t[2])
  \/ \E c \in Conns : ResolveFailed(c)
  \/ \E c \in Conns, o \in Objs : Resolved(c, o) \/ ConnectRefused(c, o)
  \/ \E x \in Listeners, o \in Objs : Accept(x, o)
  \/ \E o \in Objs : \/ Connected(o) \/ ConnectFailed(o) \/ ReadStart(o) \/ ReadReply(o)
                     \/ ReadFailed(o) \/ Written(o) \/ ShutdownDone(o)

Next == Calls \/ Loop \/ Peers

Spec == Init /\ [][Next]_vars

-----------------------------------------------------------------------------
(* Fairness: update() is called again and again and finishes; inside the   *)
(* loop a resolver, a connect and a write end (each has a timeout of its   *)
(* own in the system) and a shutdown whose writes are done completes.      *)
(* A callback may be late: it misses any number of rounds of the loop.     *)

Fairness ==
  /\ WF_vars(Loop)
  /\ \A c \in Conns : SF_vars(ResolveFailed(c))
  /\ \A o \in Objs : /\ SF_vars(Connected(o) \/ ConnectFailed(o))
                      /\ SF_vars(Written(o))
                      /\ SF_vars(ShutdownDone(o))

FairSpec == Spec /\ Fairness

-----------------------------------------------------------------------------
(* What holds.                                                             *)

\* No stale pointer: a timer, a next-frame callback and the link table refer to
\* the link they were made for, never to a pooled object or to its next user; an
\* object is pooled only when nothing is under way on its handle, and every
\* object in use can be found in the link table.
NoDangling ==
  /\ \A t \in timers : obj[t[1]].id = t[2] /\ obj[t[1]].timer
  /\ \A t \in ready \cup work : obj[t[1]].id = t[2] /\ ~obj[t[1]].up
  /\ \A p \in links : obj[p[2]].id = p[1]
  /\ \A o \in Objs : IF obj[o].id = 0 THEN obj[o] = Pooled ELSE <<obj[o].id, o>> \in links

\* The events of one link: opened at most once, started only when open, closed
\* once and last, whatever the order of the callbacks; a link that never opened
\* is only closed.
EventLegal ==
  \A id \in LinkIDs : evs[id] \in {<<>>, <<"Open">>, <<"Open", "Start">>, <<"Close">>,
                                   <<"Open", "Close">>, <<"Open", "Start", "Close">>}

\* The callback of connect_tcp runs at most once, and until it has run the connect
\* is in the resolver or in exactly one handle that will run it.
ConnectAnsweredOnce ==
  \A c \in Conns :
    LET holders == {o \in Objs : obj[o].conn = c} IN
    /\ called[c] <= 1
    /\ called[c] = 0 => (c \in resolving) # (Cardinality(holders) = 1)
    /\ called[c] # 0 => c \notin resolving /\ holders = {}

\* When release() returns every link was reported closed, every connect was
\* answered, and every object is back in the pool with an idle handle.
ReleaseComplete ==
  [][rstate = "Closing" /\ rstate' = "Invalid" =>
       /\ \A id \in 1..gen : evs[id] # <<>> /\ Last(evs[id]) = "Close"
       /\ \A c \in Conns : called[c] # 0
       /\ \A o \in Objs : obj'[o] = Pooled]_vars

\* A link that was reported closed leaves the table: its object is used again.
LinkFreed ==
  \A id \in LinkIDs : (evs[id] # <<>> /\ Last(evs[id]) = "Close") ~>
                        (fault # "none" \/ \A o \in Objs : obj[o].id # id)

\* A peer can hold release(): a link that opened after release() had closed the
\* links it found, or a shutdown that never completes.
HeldByPeer ==
  /\ rstate = "Closing"
  /\ \E o \in Objs : obj[o].st \in {"Open", "Start"} \/ obj[o].shut = "stuck"

\* release() returns, unless a peer holds it or the process has died.
ReleaseReturns ==
  rstate = "Closing" ~> (rstate = "Invalid" \/ HeldByPeer \/ fault # "none")

\* libuv's precondition of uv_close, for the links: never closed twice.
LinkClosedOnce == fault # "link"
=============================================================================
