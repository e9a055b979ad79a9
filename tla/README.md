# The PureGame concurrency core in TLA+

PureGame is a C++ game-server framework: a core library (threads, tasks, timers,
events, id generators, containers), a message codec, a network library over
libuv, database connectors for Redis and LevelDB, crypto wrappers, a Lua binding
and an executable that ties them together. This directory holds TLA+ models of
the parts in which the program's own concurrency, object lifetimes and data
structures are decided: the network library, the task pool, the two timer
queues, the event, the id generators and the two database connectors, with TLC
configurations and TLAPS proofs.

## 1. The system

### Components and their state

| component | code | state | operations | interacts with |
|---|---|---|---|---|
| `PureNetThread` | `PureNet/src/PureNetThread.cpp` | five item lists (`mReqQueue`, `mSwapReqQueue`, `mRespQueue`, `mSwapRespQueue`, and a local list on each side), `mReqWaiting`, `mReqGen`, `mReqTimeOut`, `mReacterRunning`, the application's event handlers | `start`, `stop`, `update`, `listen`, `stop_listen`, `connect`, `get_host_ip`, `close_link`, `send_msg`, `broadcast_msg`; on the worker `work`, `work_req`, `work_resp`, `on_net_*`, `on_link_*` | two mutexes shared by two threads; owns a `PureNetReacter` on the worker |
| `Thread` | `PureCore/src/Thread.cpp` | `mHandle` | `run`, `join` | base class of `PureNetThread` and of the async connectors |
| `PureNetReacter` | `PureNet/src/PureNetReacter.cpp` | `mState`, `mListenTcp`, `mTimer`, `mReadyFrame`, `mWorkFrame`, the libuv loop | `init`, `release`, `update`, `listen_tcp`, `stop_listen_tcp`, `connect_tcp`, `get_host_ip`, `close_link`, the loop's callbacks | libuv by callbacks; links; timers |
| `Link`, `LinkTcp`, `LinkMgr`, `LinkFactory` | `PureNet/src/Link*.cpp` | a link's state, id, timer and buffers; the table of links; pools of link objects | `on_open`, `on_start`, `on_close`, `close`, `flush_data`, `send_msg`, `add_link`, `remove_link`, `close_all_link`, `free` | reacter and protocol stack |
| `RouteMgr` | `PureNet/src/RouteMgr.cpp` | six hash maps from users and servers to links | `add_route_by_user`, `add_route_by_server`, `remove_route`, `clear`, four finds | the application |
| protocols | `PureNet/src/Protocol*` | parse state per link | `on_start`, `on_data`, `on_end` of Msg, Text and WebSocket | link buffers |
| task pool | `PureCore/src/Task.cpp` | queue, mutex, condition variable, running flag, count of running tasks | `run`, `stop`, `add_task`; on the workers `work` | a fixed set of threads |
| timers | `PureCore/src/TWTimer.cpp`, `RBTimer.cpp`, `TimerNode.cpp` | wheels and an overflow list, or a tree ordered by time; the timers by id; the clock | `init`, `release`, `add_timer`, `remove_timer`, `clear_timer`, `update` | callbacks that call the same operations |
| `Event` | `PureCore/Event.h` | callbacks by id, whether a walk is under way | `bind`, `unbind`, `clear`, `notify` | callbacks that call the same operations |
| id generators | `PureCore/src/ReuseIDGen.cpp`, `SnowIDGen.cpp` | a cursor and the ids in use; a second and a number within it | `gen_id`, `use_id`, `free_id`, `reset` | the system clock |
| Redis connector | `PureDb/src/Redis` | a connection with replies outstanding; a bridge like `PureNetThread`'s | `connect`, `command`, `add_pipe`, `req_commit`, `init`, `stop`, `update` | a worker thread, a server |
| LevelDB connector | `PureDb/src/LevelDb` | one ordered map; a kept reply; a bridge | operations on values, hashes and lists; `connect`, `compact`, `init`, `stop`, `update` | a worker thread, a file |
| object pools | `PureCore/src/Memory` | chunks in three lists, a chain of free blocks inside each chunk | `get`, `free` | timers, requests, trees |
| `NodeList`, buffers | `PureCore/src/NodeList.cpp`, `Buffer` | two pointers in every node; a read and a write position | push, pop, splice, swap, clear, leave; write, read | queues, timers, pools; links |
| `PureMsg`, `PureEncrypt`, `PureLua`, `PureApp` | own directories | none that matters here | codecs, wrappers, bindings, frame loop | none |

`PROJECT.json` ("components") lists all of them with their sources and says of
each what is modelled.

### What is hard

* **Two threads, four queues.** The logic thread and the worker share two lists
  and two booleans. A request travels `mReqQueue` -> `mSwapReqQueue` -> a local
  list -> the reacter (or a database) -> `mRespQueue` -> `mSwapRespQueue` -> a
  local list, and a timeout, `stop()` or a restart may come between any two of
  these.
* **Late answers.** A request that has timed out may still be answered.
* **Shutdown.** `stop()` polls for a worker that runs `release()`, which waits
  for the event loop to die while links, connects and resolvers are under way.
* **Flags outside mutexes.** The task pool tests and clears its running flag
  without the mutex, so a push or a sleep may fall between two steps of `stop()`.
* **Pooled objects behind pointers.** A link object is referred to by libuv
  callbacks, a keep-alive timer, next-frame callbacks and the link table, and
  it is reused.
* **Several ways to close.** Peer, application, keep-alive timer, failed
  connect, protocol failure and `release()` all end at one `uv_close`.
* **Callbacks that change what is being walked**: timers and events.
* **Replies matched by position.** A Redis reply belongs to the oldest command on
  the wire; one left behind would answer the wrong command.
* **Memory that is reused while something still reads it**: regions of a link's
  write buffer that libuv has not written, and the first byte of pooled blocks.
* **One fact in several places**: the maps of `RouteMgr`, the multimap of
  `RBTimer` and the times in its nodes, the keys of a list in LevelDB.

The list "hazards" of `PROJECT.json` names each hazard at its line with the
properties that watch it, and says of the others why none does.

## 2. The modules

```
AsyncCall <-implements- NetThread, RedisAsync, LevelAsync      RedisAsync EXTENDS RedisConnector
Timer     <-implements- TWTimer, RBTimer
ListStore <-implements- LevelStore                 NodeSeqs <-implements- NodeList

NetThread  <- MC_NetThread, NetThread_proofs       TaskPool <- MC_TaskPool, TaskPool_proofs
Reacter    <- MC_Reacter, Reacter_proofs
MsgProtocol <- MC_MsgProtocol, MsgProtocol_proofs
RBTimer, TWTimer, FixedAllocator, NodeList, Event, SnowIDGen <- PureCore
                                                   PureCore <- MC_Timers, PureCore_proofs
LinkWriter, MsgProtocol <- Framing                 Framing  <- MC_Framing, Framing_proofs
RedisAsync, LevelAsync <- Connectors               Connectors <- MC_Connectors, Connectors_proofs
RouteMgr, ReuseIDGen, LevelStore <- Tables         Tables   <- MC_Tables, Tables_proofs
```

`Framing`, `Connectors`, `PureCore` and `Tables` put components
that share nothing side by side: a variable chosen in the initial state (`cut`, `which`, `runs`)
says which of them a behaviour is of, and the others stand still. Their state spaces
add up; they do not multiply. A property that asks for a value of that variable is
about that component; the others hold of a component at rest trivially.

### NetThread

`PureNetThread` with `Thread`: the queues, the request table, `start` and `stop`,
the frame update, the worker's loop and the reacter's contract.

| code | model |
|---|---|
| `listen`, `connect`, `get_host_ip` | `Issue(call)` |
| `stop_listen`, `close_link`, `send_msg` | `IssueOneWay(type, l)` |
| `start`; `Thread::run` | `Start`, `WorkBegin` (publishes `mHandle`), `WorkExit` (clears it) |
| `stop` | `StopBegin` (up to `join(0)`), `StopEnd` (after it) |
| `update` | `UpdateBegin`, `DeliverEvent`, `DeliverAnswer`, `AppReturns`, `LogicReq`, `Sweep` |
| `work` | `WorkInit`, `WorkReq`, `WorkItem`, `WorkUpdate`, `WorkResp`, `WorkRelease`, `WorkReleased` |
| `on_net_*` | `OnNetListen`, `OnNetAsync`, `OnNetStopListen`, `OnNetCloseLink`, `OnNetSendMsg` |
| `on_link_*`, callbacks of connects and resolvers | `NetAccept`, `NetConnected`, `NetConnectFailed`, `NetFinish`, `NetStart`, `NetMsg`, `NetEnd`, `NetClosed` |

A critical section is one step. Between two of them the list a thread works on
is its own, so its items are taken one step each: the application's handlers run
between those steps and may issue requests and, in an event handler, call
`stop()`. Time is the age of each waiting request (`Tick`), saturated one above
the timeout. `session`, `outcome`, `seen` and the field `sess` of a response are
history variables; no guard of the code's steps reads them, except that the
application names a link only after it was told of it.

The reacter in this module is a contract: it answers what it was asked, in any
order and at any time while the loop runs, and a link's life is
none, open, start, closing, close. `Reacter` models the code behind it.

`AsyncCall` is what the bridge promises: two first-in first-out channels and one
outcome per call. `NetThread!Bridge` maps it: the requests are the worker's local
list, the shared list and the logic's list, concatenated; the responses likewise.
A splice under a mutex is then a stuttering step.

Assumptions on the caller: `start()` is called outside `update()` and not again before
the worker it spawned has published `mHandle`, and `stop()` is not called from a
request's callback. They are recorded as hazards.

### Reacter

`PureNetReacter`, `Link`, `LinkTcp`, `LinkMgr` and the listeners, all of which run
in one thread. What interleaves is the order of the loop's callbacks and the
application's calls in handlers. `update()` is walked in phases: timers, flush,
`uv_run` with its closing handles, next-frame callbacks. A link object is a
record of the link's fields (`id`, `st`, `timer`, `data`) and its handle's
(`up`, `writable`, `shut`, `closing`, `conn`, `writes`); `links`, `timers`, `ready`
and `work` hold pairs of an object and the link id it stood for when the
reference was made, so a stale reference can be told from a good one.

libuv is modelled from its contract as the code relies on it: `uv_shutdown` waits
for the writes and is cancelled by a close; `uv_close` of a closing handle fails
an assertion (the process ends: `fault`); the loop lives while a handle or a
resolver request does.

### RouteMgr

Every operation of `RouteMgr`. A map is a total function with a value for an
absent key. The packing of a server into a route is arithmetic with the field
widths as constants (`IDSpan` = 2^32, `IndexSpan` = 2^16 in the code), and the
unpacking of `remove_route` is floor division, which is what an arithmetic right
shift computes.

### MsgProtocol

`MsgProtocol::read` and `TextProtocol::read` (the same code with other tags), from the
read of the socket to the message handed to the next protocol. A byte is its
number among all that arrived on the link, and a message is given by the length of its
head (2, 3 or 5, and 1 for a short text) and its last
byte; `reading` is `mReading` with `mNeedSize`. One action is one
pass of `read_to_msg`, by its outcome: the head is wrong (`ReadBad`), the head is
incomplete (`ReadShort`), the body is (`ReadPart`), a message is complete (`ReadMsg`).
`BackPos` is what `BufferView::read_pos` makes of a negative position. The link is
a pooled object: `Start` begins its next connection with what the last one left.

A body holds any bytes, and after a body was cut short (section 6) they are met where a
head is looked for. So a byte that does not begin a message may read as no tag or as any
head with a body of any length (`Heads`; the run takes the lengths `Lengths`): a false
message may begin inside a message and run into the next ones. What holds then is
`OnceInOrder`: what is given on is what arrived, each byte once, in order. And
`SoundUntilTorn`: a connection that begins with nothing left goes well until a read ends
inside a message, and every message that was complete by then is given on as it was sent.
`Legal` says what that asks of a stream; the streams of the run are such.

### LinkWriter

The other direction: `LinkTcp::push_data` and `flush_data` with the callback of
`uv_write`, `LinkMgr::flush_link`, and the buffers' pool. A byte is its number on the
connection, and 0 a byte of somebody else: a buffer that goes back to the pool is
filled with those at once, as another link may do. `left` is what `push_data` has yet
to put; `PutAll` is its first branch, with the `need_flush` of `on_write`, and `PutSome`
its second, which fills the buffer, hands it over with everything unread
(`HandOver`) and goes on. `Written` gives `wire` what the region holds at that moment,
which is the latest moment libuv may read it. `Reopen` is `LinkTcp::clear` and the next
life of the pooled link. `WritesInOrder` reads each region from the buffers as they are
now, and asks that it goes on where the one before it ends (`EndOf`).

### TaskPool

`TaskPool` of `Task.cpp`. Every call is split where another thread can run: a worker's
loop is `Check` (the flag), `Take` (one critical section: pop, or sleep), `Call` and
`Return`; `add_task` is `Offer` (the flag, outside the mutex) and `Push` (append and
`notify_one`); `stop` is `Stop` (clear the flag), `StopClear` (one critical section:
delete the queue, `notify_all`) and the poll of the counter, which ends at zero
(`StopReturn`) or, with a timeout, earlier (`StopGiveUp`). `Spurious` is a wait that
returns unasked. `begun`, `awaited` and `overtaken` are history: how many tasks a
worker began since the last `stop`, what ran when it was called, and which tasks
were offered before it and pushed after.

What the code does not do is as visible: a worker that sees the flag clear leaves
for good, the constructor starts the workers before the first `run` sets it, and
nothing starts them again. `Served` and `NoLostWakeup` name that exception (`Live`).

### Timer, TWTimer, RBTimer

`Timer` is what both queues offer: the clock, the timers by id, and an `update` that
calls whatever is due until nothing is. It includes `TimerNode`, which both share:
how a timer counts its calls, when it is due next, when it ends. `TWTimer` adds the
four wheels and the overflow list, `RBTimer` the multimap with its own copy of each
time; both INSTANCE `Timer` and are shown to implement it. In `TWTimer` one tick of the
loop of `update` is one action; `Turned` turns the wheels above, from the lowest to the
last, and `HandDown` empties a slot timer by timer. A callback runs between `Fire` and `Return`, and in it any operation may
be called.

### NodeList implementing NodeSeqs, FixedAllocator

What both timer queues stand on. `NodeList` is the pointers: `Join` is the two assignments that
make one node follow another, and every operation is a composition of joins, in the
code's order where the order matters (`Emptied` before the rest of a splice). A node is
pushed only when it is alone, which is what the callers see to. `NodeSeqs` is what
is promised, and `Contents` the refinement mapping: the sequence of nodes that the pointers
join from one end of the list to the other in both directions. A list of which there is
none, because the pointers disagree or lead elsewhere, maps to a value that no step of
`NodeSeqs` reaches. `NodeSeqs` does not say which operation a step is of, so a splice that lost
all its nodes would pass for a clear; nodes out of order or in two lists would not pass.
`FixedAllocator` is `ObjectPool` with its chunks; a block given out holds
`Junk` in its first byte, since that byte is its owner's.

### Event

`bind`, `unbind`, `clear` and `notify` of `Event.h`. The walk stands on an entry (`iter`);
a function runs between `Call` and `Return`. `bound` and `owed` are history: what is
bound, and what the running walk has yet to call.

### ReuseIDGen, SnowIDGen

The two generators, with their widths as constants. In `ReuseIDGen` each number that a
loop looks at is one step, so that a loop that never ends can be seen. In `SnowIDGen`
the two members the constructor leaves uninitialised start with any value, and
the clock may be set back.

### RedisConnector, RedisAsync

`RedisConnector` is a module of operators: a connection is a record, an operation the
set of results it may have, since any read or write may fail. hiredis matches
replies to commands by position, so `wire` is the sequence of commands whose reply
is still to be taken, and a reply is represented by the command it answers.

`RedisAsync` is `RedisAsyncConnector`: the bridge of `PureNetThread` once more, with
`connect`, `command` and pipes as requests, and the worker's loop body split by
what becomes of an item (`WorkConnect`, `WorkCommand`, `WorkPipe`, `WorkPipeBroken`). It
implements `AsyncCall` (`RedisBridge`).

What the model showed of the code, without contradicting anything the repository
says: a pipe with an empty parameter is refused half way and leaves the
commands before it on the wire, so a later pipe is given replies that are not
its own; `OwnReplies` therefore excludes connections on which that happened
(`broken`). And `reconnect` asks `select_db` before it sets the connection alive, so it is
refused, and a lost connection is not used again.

### LevelStore implementing ListStore

`LevelConnector` keeps values, hashes and lists in one ordered map. A key is its
bytes. A list has no head or tail stored: the keys of its elements are fixed-width
numbers counted up on the right of a middle and down on its left, and the ends are
found by looking. `LevelStore` models the keys, their order, the counting with its
carry (`Carried`), the ranges and every write. What an iterator visits is a set of keys
(`Between`) in the order of LevelDB (`InOrder`, the one sequence of them that ascends).
`ListStore` is the sequence a list is meant to be, with one operation for each of the code:
`Only` says that one list becomes something and no other changes. `ListsImplement` is the
refinement, with the list of a name read off the map as the mapping. It is stated by
operation (`OnLists`), so that a step of `lpop` has to be a `Pop` of that list and nothing else.

`ListStore` says what stays of a sequence by its indices (`Kept`). An `ltrim` that breaks off
leaves the list from some element on or, once what is before the interval is gone, the
interval and, perhaps not next to it, the rest that it did not come to (`Trim`). A gap takes
four elements, which the bound of the run on the keys does not allow; the theorem
covers every bound.

An operation of several deletes may break off after any of them, because a write
may fail or the process may end. The digits of a key run from `Mid` to below `Top`
(0x80, 0xff) and a key has `Width` (8) of them; both are shrunk to make carries
happen. `LastDigits` bounds how far a list gets. Names are one byte; the
header asks that they be free of `\0`, which they are in the run. Fields are any bytes.

The model keeps what the code does where that is unexpected: `ltrim` deletes
two ranges of the store that are not bounded by the name (`LevelConnector.cpp:886`,
`:896`), so it removes values, hashes and elements of other lists too, of each list some
first ones (`Trim`); `hdrop` deletes keys from which everything but the field has been
stripped (`:648`), so the hash stays, and a value, a field or a list element goes whose key
is a field of the hash (`Lose`). The field of the run is such a key. (Replies
are not part of it: that of `lpop` does not hold the value.) `vmset`, `hmset` and `smset`
are left out: their batches hold references to temporaries that are gone when they are
written (`:369`), so what they write is undefined.

Nothing is claimed of what becomes of values and hashes.

### LevelAsync

`LevelAsyncConnector`, the third implementation of `AsyncCall` (`LevelBridge`). What
differs is the reply: an operation leaves it in the connector (`mReply`), from where
it is popped; others make it themselves; a successful `connect` leaves none and is
answered with `ErrorDbReplyNotFound`; `compact` and `approximate_size` send a message
without a body, which the worker refuses (`LevelAsyncConnector.cpp:641`), so `compact`
never runs.

## 3. The runs

| run | configuration | what it shows |
|---|---|---|
| `requests` | `MC_NetThreadReq.cfg` | no request is lost or doubled (`NoLostRequest`), a request ends once (`EndsOnce`), the sweep is complete (`SweepComplete`) |
| `links` | `MC_NetThreadLink.cfg` | per-link event order through all queues (`EventOrder`), no event of an old session (`NoStaleEvent`), a clean `stop()` (`StopLeavesNothing`), refinement of `AsyncCall` (`BridgeSpec`); under fairness, `stop()` returns (`StopReturns`) and every request ends (`RequestEnds`) |
| `reacter` | `MC_ReacterSafe.cfg` | no stale pointer (`NoDangling`), legal events (`EventLegal`), one answer per connect (`ConnectAnsweredOnce`), `release()` gives everything back (`ReleaseComplete`) |
| `reacter_live` | `MC_ReacterLive.cfg` | a closed link is freed (`LinkFreed`), `release()` returns (`ReleaseReturns`) |
| `framing` | `MC_Framing.cfg` | reads that end where messages end: whole messages, at once, and no false protocol error (`DeliversWhole`); any cut of the stream, any bodies, several connections through one link: no byte twice or out of order (`NeverTwice`), and all goes well until a read ends inside a message (`GoodUntilTorn`); on the way out the bytes keep their order while buffers are filled, handed over and reused (`WritesInOrder`) |
| `task_pool` | `MC_TaskPool.cfg` | no wake-up is lost (`NoLostWakeup`), after `stop` a worker begins one more task at most (`OneMoreTask`), `stop` waits for what ran (`StopWaits`), only late pushes stay in a stopped pool (`OnlyOvertakenLeft`); under fairness every queued task is taken or dropped (`Served`) and `stop` returns (`StopReturns`) |
| `timers` | `MC_Timers.cfg` | in the wheels every timer lies where it is looked at in time, in the tree multimap and nodes agree (`TimersInPlace`), how far calls may be out of order (`BoundedDisorder`), both queues implement the abstract one (`ImplementsTimer`); the lists implement sequences (`NodesImplement`), the pool gives no block out twice and loses none (`BlocksAgree`); `Event`: no call after unbind (`NeverAfterUnbind`), nothing left out (`WalkComplete`); `SnowIDGen`: ids ascend (`Ascending`) |
| `tables` | `MC_Tables.cfg` | `RouteMgr`: the six maps tell one story (`MapsAgree`), listings and finds agree (`FindsAgree`); `ReuseIDGen`: searches end (`SearchEnds`); lists in LevelDB: each operation makes of its list what `ListStore` says and of the others what is said of `ltrim` and `hdrop`, or nothing (`ListsImplement`); ranges are exact (`RangesAgree`) |
| `connectors` | `MC_Connectors.cfg` | a callback is given the replies to its own commands, or the reply of its own request, executed once and in order (`OwnAnswers`); both connectors implement `AsyncCall` (`BothBridges`) |
| `link_closed_twice` | `MC_ReacterLink.cfg` | finding: see section 6 |
| `framing_head`, `framing_body` | `MC_MsgProtocolHead.cfg`, `MC_MsgProtocolBody.cfg` | findings: see section 6 |

Each property has a mutant of a mapped definition in the module, named in a
comment, that violates it in the same run.

### Bounds

* `requests`: three requests let the sweep stop between an expired and a live
  one and still leave one to be answered late; two sessions let a request be
  dropped and another one be issued into the next; a timeout of one tick gives
  the ages 0, 1 and 2 (expired). Links are left out here because nothing a link does
  touches a request.
* `links`: one link shows every order of its own events, since the order property
  is per link; two sessions are what a stale event needs; `MaxBacklog` = 2 lets an
  Open and a Msg be in different queues at once. Requests are kept to one.
* `reacter`: two objects and three links make reuse of an object while another
  is being closed possible; two lives of the reacter show what the first leaves
  behind; one write under way is enough to delay a shutdown. `reacter_live` allows
  two writes, so that a full writer is flushed in the middle of a message.
* `framing`: read whole, the eight messages have every length of head and bodies
  below, at and above the bytes a first take reads beyond the head, and any
  number of them comes in one read. Cut anywhere, three messages are cut at every
  byte, and two connections let the second meet what the first left. A false head may
  have any width and tell a body of 0 or 3 bytes, which ends before, at or behind the
  end of the message. On the way out a
  buffer of three bytes and messages of up to four make a message fill one buffer and
  go on in the next; seven bytes let two regions of one buffer be with libuv while a
  third is filled, and three buffers are as many as a link holds at these bounds.
* `task_pool`: with three workers one may sleep, one work and one be in between; two
  callers and two tasks let a push be overtaken while another is queued; two
  calls of `run` let a task outlive a stop into the next session.
* `timers`: wheels of two slots turn every wheel, and 16 ticks bring the last
  one round, so a start of 17 goes to the overflow list and comes back within
  `MaxNow`. Deltas of 3 and 7 are late updates; the intervals are below and above
  the size of a wheel. The two numbers of calls are one with an end and one without.
  Two lists of four nodes splice lists of two nodes each; three chunks of three blocks
  let two chunks be empty at once beside one that is in use.
  Five binds and three walks let a callback bind behind and ahead of the walk and
  leave an emptied entry to the next one. Two numbers in each of three seconds use a
  second up.
* `tables`: two server ids and two indexes per type make every prefix map of
  `RouteMgr` hold more than one route, and a negative type makes the sign matter.
  Six ids let the cursor of `ReuseIDGen` go round both ways. In the
  store two digits that carry at 4 make a push carry at the second element on either
  side; two names next to each other show what an operation does to its neighbour; three keys at most, which may be a list of three, two lists, or a list and a
  hash. The one field is the key that the first push on the right gives the
  second list, so a `hdrop` takes that element. Elements are set and lists trimmed at -1 and 1.
* `connectors`: Redis with three requests, pipes of two and one session; LevelDB with
  two requests, one `compact` and two sessions. Three requests let one answer be late,
  one be in work and one wait. The two connectors share the ids of requests, so those of
  LevelDB are a part of those of Redis (`LevelBounds`).

`CHECK_DEADLOCK FALSE` is set for `Reacter` (after a double close the process is dead,
and after the last `release()` nothing is left to do) and for the `framing` runs (the
last connection ends). Every other run checks for deadlock.

### Fairness

`NetThread`: the application keeps calling `update()` and its handlers return; the
clock advances; the operating system schedules the worker; inside `uv_run` a
resolver or a connect ends (each has a timeout of its own in the system) and a
closing handle is closed. Nothing is assumed of a peer that keeps a link open,
nor that the application ever issues anything. `StopReturns` and `RequestEnds`
therefore name the exception the code leaves: a link that opened during
`release()` is not closed by it (`HeldByPeer`).

`Reacter`: the loop's steps are weakly fair. Callbacks for resolvers, connects,
writes and shutdowns are strongly fair, since one that is due is disabled
whenever the loop is in another phase and may miss any number of rounds.

`TaskPool`: a thread that can run is scheduled, a caller past the flag gets the
mutex, and a task's function returns. Nothing is assumed of the callers, of `run`
and `stop`, or of spurious wake-ups: that a sleeper is woken is for `notify_one`.
`ReuseIDGen`: its loops go on. The timers, the event and the connectors are checked
for safety only.

## 4. The proofs

All proofs hold for every value of the constants that satisfies the named
assumptions (`NoLinkAssumption`, `UsesAssumption`, `BoundsAssumption`;
`LinksAssumption`, `ServerTypesAssumption`, `SpanAssumption`; `PoolAssumption`;
`NoConnAssumption`, `KindsAssumption` and the bounds of `Reacter`; `SizeAssumption` and
`MsgAssumption`, that a buffer of a link has room for a byte; `RedisBounds` and
`LevelBounds`). The theorems about `PureCore` state what they need as hypotheses: that the
bounds are natural numbers, that a chunk has a block (`N`) and a wheel a slot (`StepCount`,
which `init` refuses to be zero), and that times and intervals of timers are not negative
and no timer is added for zero calls (`TimerConstants`); that nodes and lists are named by
numbers from 1, the nodes are finitely many, and `Temp`, the list on the stack of `swap`, is
none of the lists (`ListConstants`, which is how pointers are encoded). Those
about `MsgProtocol` say what they need of a stream (`Stream`, `Legal`), and those about
`Tables` of names, fields and digits (`StoreConstants`).

### NetThread_proofs

`TypeCorrect`, `NeverStaleEvent`, `RequestEndsOnce`, `SweepIsComplete` and
`StopIsClean` come from one inductive invariant

    IInv == TypeOK /\ Phases /\ Drained /\ Requests /\ Sessions

* `Phases` ties the program counters, `mHandle` and `mReacterRunning`: the worker is
  gone exactly when its handle is clear and it is not just spawned; while
  `stop()` polls, nobody sets `mReacterRunning` again.
* `Drained` says which lists are empty where: the worker's local list outside
  `work_req`, its response list between rounds, everything of the reacter once
  the worker has left `release()`.
* `Requests` relates the waiting map, the ages and the outcomes: ids given out are
  at most `reqGen`, a waiting request has the outcome "waiting", and an older id is
  at least as old. The last part is what makes the sweep's `break` safe.
* `Sessions` says that every response in any list carries the current session, as
  long as handlers are bound; it needs `Drained` at the moment of `start()`.

None of the four properties is inductive alone: `NoStaleEvent` needs to know that the
lists are empty when a session starts, `StopLeavesNothing` needs to know what
the worker left, and `SweepComplete` needs the order of ages. There is one lemma
per action, or group of actions, and per conjunct it can disturb.

Three more results rest on it, each with an invariant of its own:

* `NeverLost` (`NoLostRequest`), from `Places`: a waiting request is in exactly one place, a
  queue of the way there, the reacter, or a queue of the way back (`Held`), and a
  queue holds an id once (`Single`). The splices move requests between queues
  and not out of them.
* `EventsInOrder` (`EventOrder`), from `Lives`: what has been reported of a link's events, followed
  by those of all response queues in their order (`OfLink`), is a legal sequence that
  ends in the state the link is in now (`Live`). `EventOrder` speaks of any two positions
  of the queues, since a filtered sequence is a fold, about which nothing can be proved.
* `BridgeImplements` (`BridgeSpec`): every step of `NetThread` is a step of `AsyncCall` or
  leaves its two channels alone. `Channels` says that the channels are sequences, `Spliced`
  that moving a list from one of the concatenated queues to the next is invisible;
  which action of `AsyncCall` a step is (`SendSteps`, `ReportSteps`, `TakeSteps`, `StopEndSteps`)
  is a lemma each. The outcome of a request (`EndsOnce`) is what makes an answer and a
  timeout exclude each other in the abstract specification.

### Reacter_proofs

`TypeCorrect`, `NeverDangling`, `EventsAlwaysLegal`, `AlwaysAnsweredOnce` and
`ReleaseIsComplete`, from

    IInv == Types /\ Refs /\ Events /\ Connects

* `Types` says of each link object what its state implies for its handle, and the
  reverse: an object in the pool is as new, a handle that is down has no timer, no
  write and no connect left, a connect waits only behind a link that is opening.
* `Refs` says who refers to an object. Whatever `links`, `timers`, `ready`, `work` and the
  closing queue hold was taken from an object that still stands for the same link;
  no two objects stand for one link. It is stronger than `NoDangling`, which looks at a
  reference when it is followed: an object may be given back only when nothing
  refers to it, and only `Refs` says that closing has removed every reference by then.
* `Events` ties what was reported of a link to the state of its object, or to "Close"
  when no object has it any more.
* `Connects` says that a connect which is not answered is on its way: it resolves, or
  exactly one opening link carries it.

`ReleaseComplete` is an action property: that the loop is empty when `release()` returns
makes every object pooled, and then `Events` and `Connects` leave nothing unreported.
The listeners' double close and the stuck shutdown (section 6) are in the model; the
theorems hold with them, since a fault stops the process.

### MsgProtocol_proofs and Framing_proofs

In, `OnceInOrderAlways` (`OnceInOrder`), for every stream of messages (`Stream`: they follow
each other), with any bodies and cut anywhere, from

    Order == TypeOK /\ OnceInOrder /\ KeptGood /\ (what was given on lies before `at`) /\ ...

* `Good` says of bytes that they may be given on next: they ascend, they lie behind everything
  given on before, and they have arrived. `KeptGood` says it of `mReading`, with a message
  kept from an earlier read going on where this one begins.
* With that, giving bytes back to the buffer (`BackPos`) is exact for a message begun in
  this read; for one begun earlier the position, which would be negative, is the end of
  the data: the rest of the read is lost, but no byte is used twice (`PassIs`).

`SoundAlways` (`SoundUntilTorn`) adds

    SoundInv == (~torn => sound = got) /\ ... /\ (Clean => Well) /\ (~Clean => Given)

* `Clean` is a connection that began with nothing left and of which no read that is over ended
  inside a message. Then nothing is begun between two passes, the position is the end of the
  last message given on, and what was given on is what was sent (`Well`). In such a state a
  pass over bytes that begin a message gives it on whole or waits (`CleanPass`).
* After that only what arrived before is still said (`Given`).

`WholeIsDelivered` (`Framed`, `NothingWithheld`, `NeverRejected`, with reads that end where
messages end) follows, since then every state is `Clean` (`Complete`).

The last two have the hypothesis `Legal`: no body is empty. It is needed. `read_to_msg`
gives bytes back only if the body is not empty, so a message without a body keeps up to
three bytes of the next one. `OnceInOrderAlways` does without: what it says holds of such
streams as well.

`Framing_proofs` carries the three over to the two instances the run checks: `AlwaysOnce`
(`NeverTwice`), `AlwaysGoodUntilTorn` (`GoodUntilTorn`) and `AlwaysDeliversWhole`
(`DeliversWhole`).

Out, `AlwaysInOrder` (`WritesInOrder`), for buffers and messages of any size, from

    IInv == Types /\ Owned /\ (\E pos : Placed(pos)) /\ Ends

* `Owned` keeps buffers apart: what libuv still has is not in the pool, the writer stands
  beyond every region of its own buffer, and the region that gives a buffer back is the
  last of that buffer. So neither a put nor a buffer given back changes a byte that
  libuv may still read.
* `Placed` names, for each region, the byte it begins behind. The positions are adjacent,
  and `mWritingSize` is the distance between the first and the last: a size of zero
  therefore means that nothing is with libuv, which is what lets the callback start
  the writer from its beginning again. Without that the invariant is not inductive.

### Tables_proofs

Two of the three tables; a behaviour of `Tables` is one of each (`TablesRunEach`).

`RouteMgr`: `RoutesUnpack` is arithmetic: packing followed by the shifts of `remove_route` gives
back the type, and the type and id, for every width and sign. `TypeCorrect`,
`MapsAlwaysAgree`, `FindsAlwaysAgree` and `NoTakeOver` follow; `MapsAgree` is inductive
together with `TypeOK`.

`LevelStore`: `RangesAlwaysAgree` (`RangesAgree`) and `ListsAlwaysImplement` (`ListsImplement`, the
refinement of `ListStore`), for any names, any data, fields of any bytes, any number of digits
and any values of them with room on either side of the middle (`StoreConstants`). The invariant is

    StoreInv == IsFiniteSet(DOMAIN db) /\ DOMAIN db \subseteq StoreKeys /\ db \in [DOMAIN db -> Datas]

where `StoreKeys` are the keys the operations make: those of a list have numbers that count up
to neither end (`Numbers`). It is kept because a push finds such a number (`NextIsBeyond`), beyond
all that are there. Everything else is about the order of byte strings:

* A finite set of keys can be put in order in exactly one way (`SortedExists`, `SortedOnce`), so
  `InOrder` is well defined, whatever the set (`InOrderSorts`), and a sequence that ascends and has
  every key is what `InOrder` chooses (`InOrderIs`).
* `Before` is a strict order (`BeforeTransitive`, `BeforeTotal`) that agrees with that of the numbers
  in the keys of a list (`ListKeysOrdered`), and any other key of the store is before or behind all
  keys of the list (`Outside`): the keys of a list are an interval of the store.
* Counting up with a carry gives a number greater than this one and not greater than the next
  of any list (`CarriedIsNext`). So `calc_list_next_key` names the end of a range exactly,
  even where no key of that number could be pushed (`AfterTells`, `RangeIs`).
* What a list reads as is a function of the map and of a set of keys (`Reads`). A new greatest
  or least key, a new value, some keys less: each makes of `Reads` what `ListStore` says
  (`ReadsAppended`, `ReadsPrepended`, `ReadsReplaced`, `ReadsKept`). The deletes of one operation
  go upwards, so wherever they break off the keys that are gone are the first ones
  (`Firsts`, `FirstsBelow`), and the indices that stay are those from some index on (`UpFrom`).
* One lemma for each operation says what becomes of its list and that no other changes
  (`LPushBecomes`, `LPopBecomes`, `LSetBecomes`, `LDelBecomes`, `LDropBecomes`), or what becomes of
  all of them (`LTrimTrims`, `HDropLoses`); `EachOnLists` puts them together.

Of the indices (`Indices`) the proofs use that they are integers, and of the bound on the keys of
the store nothing.

`ReuseIDGen` has one property, that its searches end, which is left to TLC.

### TaskPool_proofs

Every safety property the run checks, and that a task is in one place (`OnePlace`):
`TypeCorrect`, `AlwaysOnePlace`, `NoWakeupLost`, `AtMostOneMore`, `StopHasWaited`,
`OnlyLateOffers`, from

    IInv == TypeOK /\ OnePlace /\ OwnerStops /\ OffersOvertaken /\ OnlyOvertakenLeft
              /\ LastTask /\ OneMoreTask /\ StillAwaited /\ StopWaits /\ NoLostWakeup

* `OneMoreTask` is not inductive: a worker that has begun a task since the stop might
  be at the mutex again. `LastTask` says that it is not, because it would have to
  pass the flag first.
* `StopWaits` needs `StillAwaited` while `stop` polls, and the part of `TypeOK` that says
  the counter is the number of workers that execute: then zero means nobody does.
* `OnlyOvertakenLeft` needs `OffersOvertaken`: what is pushed later was offered earlier.
* `NoLostWakeup` needs `OnlyOvertakenLeft` at the moment of `run`: the queue of a pool that
  starts again holds late pushes only. That a push wakes a sleeper if there is one,
  and that a worker sleeps only on an empty queue, does the rest.

### PureCore_proofs

The sequential parts of the core library that keep one fact in several places. The
theorems are stated of `CoreSpec`, whose behaviours are behaviours of each of the parts
(`PartsRun`, `TimersStep`).

`Event`: `EntriesAlwaysAgree`, `NeverCalledUnbound` and `WalkLeavesNoneOut`, from
`TypeOK /\ EntriesAgree`: what the map holds is what is bound, and what the walk owes
lies where it stands or ahead of it. That the next entry of a finite map exists
and is the first (`MinIsLeast`, `NextIsFirst`) is proved from the well-ordering of the
naturals.

`SnowIDGen`: `AlwaysAscending` (`Ascending`), from `SnowBehind`: while the clock has not been set
back, the last id lies in or before the second the generator is in, and in that second it
has a number already counted. What the members hold before the first id does not
matter.

Both queues of timers: `TimersAlwaysInPlace` (`TimersInPlace`), `TimersImplementQueue`
(`ImplementsTimer`) and `DisorderBounded` (`BoundedDisorder`), from one invariant for each queue
(`TimersInv`). That of `RBTimer`, from which `TreeCallsInOrder` follows too, is

    SortInv == Queue!TypeOK /\ Keeps(mSortTimers, EntriesOf(mTimers, calling))

that is, the multimap is a sequence without repetition of the pairs of time and id of
all timers but the one being called, in ascending order. Inserting counts the entries up to
a key (`BeforeIsPrefix`: in an ascending sequence they are a prefix, so the new entry goes
behind them), and removing finds the one entry that names the timer. Then the first
entry of the multimap is the least time of all timers, which is what makes the test that
ends the loop of `update` the abstract queue's "nothing is due" (`TreeStepIsQueueStep`).

That of `TWTimer` is

    WheelInv == AnyQueue!TypeOK /\ updating = FALSE /\ WheelPlaces

and `WheelPlaces` says four things, for wheels of any size.

* The clocks (`AtTick`): wheel `i` stands at the last multiple of its step that is not behind
  wheel 0. So a turn moves a wheel by one slot or not at all, and the overflow list is looked
  at once for each turn of the last wheel.
* Each timer is in one list, once (`OnePlace`).
* Where it lies (`Lies`). A timer of wheel 0 is due within the turn and lies in the slot of its
  time, or it is late and lies in the slot that is called next; one of a wheel above lies a
  whole slot ahead of that wheel's clock, in the slot of its time (`FineIn`); one of the
  overflow list lies beyond what the last wheel covers (`FineOver`). While a slot is being
  called, that slot may hold what is older than the clock as well.
* In the slot that is being called, what is older than the clock comes first (`InOrder`).
  Without that the invariant is not inductive: `try_trigger_timer` looks at the front only, and
  a timer behind one that is not due would stay in a slot the clock has left. It holds
  because what was put there since the clock moved on is not older than the clock, or is put
  behind timers that are due now.

`HomeIsFine` is the arithmetic of `add_timer_node`: the wheel it chooses is one where the timer may
lie, because the wheels below refused it (`Fits`). `TurnStep` is one turn of a wheel: its next
slot is emptied (`PlacedHandedDown`), and what lay there belongs below by now. `PlacedTick`
moves wheel 0 on, `WheelSlotDone` leaves a slot, and `NoneDue` says that nothing is due when the
last one was called, which is the abstract queue's end of `update`. TLC checked the invariant
on a small instance, with intervals of zero and without, before it was proved.

`TimersInPlace` and `ImplementsTimer` hold for all intervals. `BoundedDisorder` has the hypothesis
that no interval is zero (`Prompt`), and needs it: a timer that is called several times with an
interval of zero keeps its time while the clock moves on, and then what is called next may be
later than it by more than a turn. With `Prompt` what is older than the clock was due at the
tick just left, and so was what is called.

`FixedAllocator`: `BlocksAlwaysAgree` (`BlocksAgree`), from `PoolInv`. It says for each listed chunk
that a sequence of blocks exists (`Chained`) which begins at `mFirstAvBlock`, goes on where each
block's first byte says, and holds the blocks that are not given out once each. A take is
its tail and a return puts a block in front (`GetStep`, `FreeStep`). `Chain`, which computes the
sequence from the bytes, is then shown to be that one (`ChainIsChain`), by a least index at which
they differ, since a recursive function's values cannot be reached by induction here. That
no chunk with an object in it is deleted follows from the count: a chunk of kind "empty"
has `N` blocks in its chain, so none of them is given out.

`NodeList`: `NodesAlwaysImplement` (`NodesImplement`), from

    ListInv == \E ss : Stands(pointers, ss) /\ ss[Temp] = <<>>

* There are sequences, one for each list, that share no node (`NoneShared`), and each is
  joined in its list (`Joined`).
* The pointers of all nodes agree in both directions, those in no list too (`Wired`). Without
  that the invariant is not inductive: `clear` drops a chain whose nodes stay joined, and a node
  of such a chain that leaves later must not reach a node of a list.
* Every operation is made of three steps: one node leaves (`LeaveList`, `LeaveChain`), a list
  is cleared and what it held is a loose chain (`ClearList`), a loose chain is put between two
  neighbours of a list (`PutList`). A push puts a chain of one node; a splice clears and puts,
  which is why it may be of a list to itself; `swap` is three splices, and the list on the
  stack is empty before and after.
* That what the pointers join is one sequence only (`JoinedOnce`, `ContentsAre`) goes by the least
  place at which two of them differ.

### Connectors_proofs

`AlwaysOwnAnswers` (`OwnAnswers`) and `BothImplement` (`BothBridges`), for any number of
requests, commands of a pipe and restarts, from

    IInv == Lists /\ Control /\ Calls /\ (RedisInv for Redis, LevelInv for LevelDB)

* The first three are the bridge, which is the same for both. Each action of either
  connector is one of ten shapes (`BridgeStep`: it sends, fetches, works, reports, delivers
  and so on), so what a step does to the lists, to the calls and to the channels of
  `AsyncCall` is proved once for each shape (`StepLists`, `StepCalls`, `NextBridge`).
* `RedisInv` says that between two requests a connection is as good as new unless it is
  lost or a pipe broke off (`Settled`), and that what is owed is on the wire (`Backed`). Then
  the replies that a worker takes are those of the commands it has just written: all of
  them, or the first few if the connection is lost half way (`AnsweredCommand`,
  `PoppedReplies`). `OwnReplies` alone is not inductive, since it does not say what is on the
  wire when a request begins.
* `LevelInv` says that the ids ascend through the requests executed and those on their way
  (`Ascends`, `Behind`), that the connector keeps no reply between two requests, and that
  a reply which tells of success is of a request that was executed (`Honest`).

`Piped` adds the commands of a pipe to the wire at once, since a fold of one command after
the other is out of reach of the provers.

### Only model-checked

* The liveness properties (`StopReturns`, `RequestEnds`, `LinkFreed`, `ReleaseReturns`, `Served`,
  `SearchEnds`), and what rests on ENABLED: out of the prover's reach.

## 5. What is not modelled

* Bytes: message payloads, buffers, the codec, crypto. The broadcast operations,
  whose effect is in a message's head. Memory exhaustion of the pools (`get()`
  returning null). Failure of `uv_loop_init` beyond its effect on the worker
  (`WorkInit`). Link groups. `PureNetProcess`, which forwards to the same reacter
  without a worker.
* `WebSocketProtocol`: its handshake never succeeds (`WebSocketProtocol.cpp:112` lets a
  header's value run on into the lines behind it, `get_http` at `:186` writes
  neither headers nor an end), so its frames are never read. A model of it would
  have one behaviour.
* `TaskPool`: its destructor, a task that calls `stop` without a timeout on its own pool
  (it waits for itself), two owners that call `run` and `stop` concurrently.
* `Timer`: a callback that clears the queue and then adds a timer. The clear frees the
  node that is being called, the add may reuse it, and what happens then is undefined.
  `Event`: `notify` inside a `notify` of the same event; the inner walk may erase the entry
  the outer one stands on, and it resets `mNotifing` under it.
* Connectors: a callback that calls `stop()`, which clears the map the caller is about
  to erase from; `run` called again before the first worker has published its
  handle; out of memory; malformed replies; `check_auth`, which is one more question
  like `select_db`. `RedisAsyncPool` spreads requests over connectors by a flag that
  nothing ever sets. `LevelConnector`'s iterators, `backup` and `revert`.
* `SmallAllocator` (a `FixedAllocator` per size), `gc(true)` and the destructors of pools
  and lists; `NodeList`'s iterators. In `LinkWriter` an `uv_write` that fails at once:
  it does so only for a stream that was shut down, and then `flush_data` is refused.
* The spatial trees, which compare floating-point numbers. Reading them showed that
  `QuadTree::all_objs` puts null children on its work list (`QuadTree.cpp:168`), that more
  than `mMaxElem` objects over one point are split without end, and that a search that
  stops at its limit leaves nodes in `mCache`.
* Everything listed as `not_modelled` in `PROJECT.json`: wrappers of vendored
  libraries, pure codecs, Lua bindings, the frame loop of the executable. The
  repository is for the most part vendored code (libuv, LevelDB, hiredis, Lua, spdlog,
  zlib and others), which is modelled only where the program relies on it, and
  then as external.

## 6. Findings

* **A link can be closed twice** (`link_closed_twice`). `Link::on_end` leaves a link
  that is still opening in that state, so it can be closed again: the first close
  starts a shutdown, the second calls `uv_close`, which cancels the shutdown, and
  `on_tcp_shutdown` calls `uv_close` once more without asking `uv_is_closing`.
* **A message head in two reads closes the link** (`framing_head`). `read_to_msg` returns
  "Success;  // need data", but the tag has been consumed, and the next read only
  unpacks what is left of the old bytes.
* **A message body in two reads is cut short** (`framing_body`). `mNeedSize` is what the
  message still lacks, and the second read subtracts all of `mReading` from it again.
  Any message longer than one read (at most `mTcpBufferSize`, 8 KB) is affected;
  `NetConfig.h` allows bodies of 2 MB. The damage is not bounded to that message: what is
  left of the body is read as heads, and a byte of it that is a tag starts a false
  message, which may take the following ones with it or close the link. What still holds is
  `NeverTwice`, and `GoodUntilTorn` of the messages that had arrived before.

Observations that contradict no statement of the repository, and have no run of
their own:

* A listener can be closed twice. `stop_listen_tcp_req` (`PureNetReacter.cpp:413`) calls
  `uv_close` on every listener still in `mListenTcp`, and a listener leaves that list
  only when its close callback deletes it.
* A link that opens during `release()` is not closed by it, and the shutdown of a
  handle that is still connecting never completes: the exceptions in the liveness
  properties.
* A worker of the task pool that is scheduled before the first `run`, or that sees
  the flag between a `stop` and the next `run`, leaves for good.
* A pooled link that was closed in the middle of a message begins its next connection with
  what is left of it in `mReading`, since `start` resets `mNeedSize` only; `NeverTwice` says that
  it goes into the first piece given on or is dropped.
* `ltrim` deletes what is before and behind it in the whole store, and `hdrop` deletes keys that
  are fields and leaves the hash (section 2).
* `SnowIDGen` gives ids out again after its clock was set back; `Ascending` excepts it.
* A Redis connector never reconnects, and one on which a pipe was refused half way answers
  later requests with earlier replies; `OwnAnswers` excepts the latter.
* `ReuseIDGen::free_id` never returns when it has freed the last id; `SearchEnds` names it.
* What is sent in the frame of a close is dropped (`LinkTcp.cpp:80`): `close` shuts the stream
  down, and `flush_data` refuses the link from then on. `WritesInOrder` says what is left.
* The connectors: see `RedisAsync`, `LevelStore` and `LevelAsync` in section 2.

## 7. What is left

1. LevelDB's iterators with a store that changes under them, `backup` and `revert`.
2. The spatial trees over a small grid of points.
