----------------------------- MODULE RedisAsync -----------------------------
(***************************************************************************)
(* RedisAsyncConnector: a worker thread that owns a RedisConnector, and a  *)
(* logic thread that sends it requests and runs their callbacks.  The two  *)
(* exchange lists as PureNetThread does:                                   *)
(*                                                                         *)
(*   logic:   reqQueue --logic_req--> swapReq --work_req--> wnl   :worker  *)
(*   logic:   nl <--logic_resp-- swapResp <--work_resp-- respQueue :worker *)
(*                                                                         *)
(* A request is a connect, a command, or a pipe of commands put together   *)
(* by add_pipe before it is committed.                                     *)
(***************************************************************************)
EXTENDS RedisConnector, FiniteSets

CONSTANTS
  MaxReq,      \* bound: requests
  MaxPipe,     \* bound: commands of a pipe
  MaxStarts    \* bound: calls of init() and run()

ASSUME RedisBounds == MaxReq \in Nat /\ MaxPipe \in Nat /\ MaxStarts \in Nat

VARIABLES
  lpc, nl, reqQueue, waiting, reqGen,   \* logic thread, as in NetThread
  expired,     \* requests up to this id are older than mReqTimeOut
  reqing,      \* mReqing: the commands of the pipe being put together
  swapReq, swapResp, handle, running,        \* shared
  wpc, wnl, respQueue,                       \* worker thread
  conn,        \* mConnector
  starts,      \* history: calls of run()
  broken,      \* history: a pipe broke off half way on this connection
  outcome,     \* history: what became of each request
  given        \* history: what the callback of each request was given

logicVars  == <<lpc, nl, reqQueue, waiting, reqGen, expired, reqing>>
sharedVars == <<swapReq, swapResp, handle, running>>
workVars   == <<wpc, wnl, respQueue, conn, broken>>
histVars   == <<starts, outcome, given>>
vars       == <<logicVars, sharedVars, workVars, histVars>>

ReqIDs == 1..MaxReq

\* A command is TRUE if the connector accepts it, FALSE if it, or a parameter, is empty.
NothingYet == [id |-> 0, cmds |-> <<>>, got |-> <<>>, error |-> FALSE, lost |-> FALSE, mixed |-> FALSE]

Init ==
  /\ lpc = "idle" /\ nl = <<>> /\ reqQueue = <<>> /\ waiting = {}
  /\ reqGen = 0 /\ expired = 0 /\ reqing = <<>>
  /\ swapReq = <<>> /\ swapResp = <<>> /\ handle = FALSE /\ running = FALSE
  /\ wpc = "none" /\ wnl = <<>> /\ respQueue = <<>> /\ conn = Closed
  /\ starts = 0 /\ broken = FALSE
  /\ outcome = [id \in ReqIDs |-> "unused"]
  /\ given = [id \in ReqIDs |-> NothingYet]

-----------------------------------------------------------------------------
(* The logic thread: the application's calls.                              *)

\* The application runs between two updates.  What it calls in a callback commutes
\* with the deliveries around it: it might as well have called it before the update.
AppRuns == lpc = "idle"

\* connect() and req_commit(): register the callback, queue the request.
Queued(type, cmds) ==
  LET id == reqGen + 1 IN
  /\ AppRuns /\ reqGen < MaxReq
  /\ reqGen' = id
  /\ waiting' = waiting \cup {id}
  /\ reqQueue' = Append(reqQueue, [id |-> id, type |-> type, cmds |-> cmds])
  /\ outcome' = [outcome EXCEPT ![id] = "waiting"]
  /\ UNCHANGED <<lpc, nl, expired, sharedVars, workVars, starts, given>>

IssueConnect == Queued("connect", <<>>) /\ UNCHANGED reqing

\* command(): a pipe that is being put together is given up.
IssueCommand(ok) == Queued("command", <<ok>>) /\ reqing' = <<>>

CommitPipe == reqing # <<>> /\ Queued("pipe", reqing) /\ reqing' = <<>>

\* add_pipe(): nothing is added behind a command that will be refused, since the
\* worker never looks at it.
AddPipe(ok) ==
  /\ AppRuns /\ reqGen < MaxReq /\ Len(reqing) < MaxPipe /\ \A k \in DOMAIN reqing : reqing[k]
  /\ reqing' = Append(reqing, ok)
  /\ UNCHANGED <<lpc, nl, reqQueue, waiting, reqGen, expired, sharedVars, workVars, histVars>>

CancelPipe ==
  /\ AppRuns /\ reqing # <<>>
  /\ reqing' = <<>>
  /\ UNCHANGED <<lpc, nl, reqQueue, waiting, reqGen, expired, sharedVars, workVars, histVars>>

\* init() and run(), once the worker before has gone.
Start ==
  /\ lpc = "idle" /\ wpc = "none" /\ starts < MaxStarts
  /\ starts' = starts + 1 /\ running' = TRUE /\ wpc' = "spawned"
  /\ UNCHANGED <<logicVars, swapReq, swapResp, handle>>
  /\ UNCHANGED <<wnl, respQueue, conn, broken, outcome, given>>

\* stop() asks the worker to leave its loop and polls mHandle; a worker that has not
\* published it yet is not waited for.
StopBegin ==
  /\ lpc = "idle"
  /\ lpc' = "join" /\ running' = FALSE
  /\ UNCHANGED <<nl, reqQueue, waiting, reqGen, expired, reqing>>
  /\ UNCHANGED <<swapReq, swapResp, handle, workVars, histVars>>

\* The rest of stop(): everything is freed but mRespQueue.
StopEnd ==
  /\ lpc = "join" /\ ~handle
  /\ lpc' = "idle"
  /\ reqing' = <<>> /\ waiting' = {}
  /\ outcome' = [id \in ReqIDs |-> IF id \in waiting THEN "dropped" ELSE outcome[id]]
  /\ reqQueue' = <<>> /\ swapReq' = <<>> /\ swapResp' = <<>>
  /\ UNCHANGED <<nl, reqGen, expired, handle, running, workVars, starts, given>>

-----------------------------------------------------------------------------
(* The logic thread: update().                                             *)

UpdateBegin ==
  /\ lpc = "idle"
  /\ lpc' = "resp" /\ nl' = swapResp /\ swapResp' = <<>>
  /\ UNCHANGED <<reqQueue, waiting, reqGen, expired, reqing>>
  /\ UNCHANGED <<swapReq, handle, running, workVars, histVars>>

\* logic_resp: the callback of a request that still waits runs, then it is erased.
\* (A callback that calls stop() is left out: it would free what is erased.)
DeliverReply ==
  LET item == Head(nl) IN
  /\ lpc = "resp" /\ nl # <<>>
  /\ nl' = Tail(nl)
  /\ IF item.id \in waiting
       THEN /\ waiting' = waiting \ {item.id}
            /\ outcome' = [outcome EXCEPT ![item.id] = "answered"]
            /\ given' = [given EXCEPT ![item.id] = item]
       ELSE UNCHANGED <<waiting, outcome, given>>
  /\ UNCHANGED <<lpc, reqQueue, reqGen, expired, reqing, sharedVars, workVars, starts>>

LogicReq ==
  /\ lpc = "resp" /\ nl = <<>>
  /\ lpc' = "sweep"
  /\ swapReq' = swapReq \o reqQueue /\ reqQueue' = <<>>
  /\ UNCHANGED <<nl, waiting, reqGen, expired, reqing, swapResp, handle, running, workVars, histVars>>

\* The sweep walks mReqWaiting by ascending id up to the first request in time; ids
\* ascend with mReqTime.  A request that timed out is freed, its callback never runs.
Swept == {id \in waiting : id <= expired}

Sweep ==
  /\ lpc = "sweep" /\ lpc' = "idle"
  /\ waiting' = waiting \ Swept
  /\ outcome' = [id \in ReqIDs |-> IF id \in Swept THEN "timeout" ELSE outcome[id]]
  /\ UNCHANGED <<nl, reqQueue, reqGen, expired, reqing, sharedVars, workVars, starts, given>>

\* The clock advances, and with it the oldest request in time grows too old.
Tick ==
  /\ \E id \in waiting : id > expired
  /\ expired' = Min({id \in waiting : id > expired})
  /\ UNCHANGED <<lpc, nl, reqQueue, waiting, reqGen, reqing, sharedVars, workVars, histVars>>

-----------------------------------------------------------------------------
(* The worker thread.                                                      *)

WorkBegin ==
  /\ wpc = "spawned" /\ wpc' = "top" /\ handle' = TRUE
  /\ UNCHANGED <<logicVars, swapReq, swapResp, running, wnl, respQueue, conn, broken, histVars>>

\* Mutant of SwapReqTaken: a copy instead of a splice.
SwapReqKept == UNCHANGED swapReq

SwapReqTaken == swapReq' = <<>>

WorkReq ==
  /\ wpc = "top" /\ running
  /\ wpc' = "work" /\ wnl' = swapReq /\ SwapReqTaken
  /\ UNCHANGED <<logicVars, swapResp, handle, running, respQueue, conn, broken, histVars>>

\* The identity of command k of a request.
Cmd(req, k) == <<req.id, k>>
Cmds(req) == [k \in 1..Len(req.cmds) |-> Cmd(req, k)]

\* What the item carries back: the replies it got, or an error.
Reply(req, got, error, c) ==
  [id |-> req.id, cmds |-> Cmds(req), got |-> got, error |-> error,
   lost |-> ~IsAlive(c), mixed |-> broken]

\* The item is done: conn is what its operations left.
Answered(req, got, error, c, half) ==
  /\ conn' = c
  /\ broken' = (c.open /\ (broken \/ half))
  /\ respQueue' = Append(respQueue, Reply(req, got, error, c))

WorkConnect(req) ==
  /\ req.type = "connect"
  /\ \E r \in Connect(conn) : Answered(req, <<>>, ~r.ok, r.c, FALSE)

WorkCommand(req) ==
  /\ req.type = "command"
  /\ \E r \in Command(conn, Cmd(req, 1), req.cmds[1]) : \E p \in PopReply(r.c) :
       IF p.reply = None THEN Answered(req, <<>>, ~r.ok, p.c, FALSE)
                         ELSE Answered(req, <<p.reply>>, FALSE, p.c, FALSE)

\* The commands of a pipe the connector accepts: those before the first refused one.
Accepted(c, req) ==
  IF ~IsAlive(c) THEN 0
  ELSE Cardinality({k \in DOMAIN req.cmds : \A j \in 1..k : req.cmds[j]})

\* A pipe with a refused command stops there and is answered by an error; the
\* commands before it stay on the wire.
WorkPipeBroken(req) ==
  LET n == Accepted(conn, req) IN
  /\ req.type = "pipe" /\ n < Len(req.cmds)
  /\ Answered(req, <<>>, TRUE, Piped(conn, SubSeq(Cmds(req), 1, n)), n > 0)

\* Mutant of PoppedAll: as many replies as the pipe has commands less one.
PoppedFewer(c) ==
  {[c |-> [c EXCEPT !.reply = None, !.wire = SubSeq(@, c.need, Len(@)), !.need = 1],
    got |-> SubSeq(c.wire, 1, c.need - 1)]}

\* pop_reply() until it answers nothing: the reply a command left, then all that
\* are owed, unless a read fails on the way.
PoppedAll(c) ==
  LET kept == IF c.reply = None THEN <<>> ELSE <<c.reply>>
      d == [c EXCEPT !.reply = None]
  IN {[c |-> [d EXCEPT !.wire = SubSeq(@, c.need + 1, Len(@)), !.need = 0],
       got |-> kept \o SubSeq(c.wire, 1, c.need)]}
       \cup {[c |-> Lost([d EXCEPT !.wire = SubSeq(@, k + 1, Len(@)), !.need = @ - k]),
              got |-> kept \o SubSeq(c.wire, 1, k)] : k \in 0..(c.need - 1)}

WorkPipe(req) ==
  /\ req.type = "pipe" /\ Accepted(conn, req) = Len(req.cmds)
  /\ \E p \in PoppedAll(Piped(conn, Cmds(req))) :
       Answered(req, p.got, FALSE, p.c, FALSE)

\* work_req's loop body.
WorkItem ==
  LET req == Head(wnl) IN
  /\ wpc = "work" /\ wnl # <<>>
  /\ wnl' = Tail(wnl)
  /\ \/ WorkConnect(req) \/ WorkCommand(req) \/ WorkPipeBroken(req) \/ WorkPipe(req)
  /\ UNCHANGED <<logicVars, sharedVars, wpc, histVars>>

\* mConnector.update(), then work_resp().
WorkResp ==
  /\ wpc = "work" /\ wnl = <<>>
  /\ wpc' = "top"
  /\ conn' \in KeptAlive(conn) /\ UNCHANGED broken
  /\ swapResp' = swapResp \o respQueue /\ respQueue' = <<>>
  /\ UNCHANGED <<logicVars, swapReq, handle, running, wnl, histVars>>

\* The loop is left: close(), a last work_resp(), and the thread ends.
WorkEnd ==
  /\ wpc = "top" /\ ~running
  /\ wpc' = "exit"
  /\ conn' = Close(conn) /\ broken' = FALSE
  /\ swapResp' = swapResp \o respQueue /\ respQueue' = <<>>
  /\ UNCHANGED <<logicVars, swapReq, handle, running, wnl, histVars>>

WorkGone ==
  /\ wpc = "exit"
  /\ wpc' = "none" /\ handle' = FALSE
  /\ UNCHANGED <<logicVars, swapReq, swapResp, running, wnl, respQueue, conn, broken, histVars>>

-----------------------------------------------------------------------------
Update == UpdateBegin \/ DeliverReply \/ LogicReq \/ Sweep
Logic == Update \/ StopEnd
Worker == WorkBegin \/ WorkReq \/ WorkItem \/ WorkResp \/ WorkEnd \/ WorkGone

Next ==
  \/ IssueConnect \/ CommitPipe \/ CancelPipe
  \/ \E ok \in BOOLEAN : IssueCommand(ok) \/ AddPipe(ok)
  \/ Start \/ StopBegin \/ Tick \/ Logic \/ Worker

Spec == Init /\ [][Next]_vars

-----------------------------------------------------------------------------
\* The callback of a request is given the replies to the commands of that request,
\* all of them and in order: or an error, or on a connection that is lost by then
\* the first few.  Only a pipe that broke off half way, whose accepted commands stay
\* on the wire, spoils that for the requests that follow on the same connection.
OwnReplies ==
  \A id \in ReqIDs :
    LET g == given[id] IN
    ~g.mixed /\ ~g.error => IF g.lost THEN IsPrefix(g.got, g.cmds) ELSE g.got = g.cmds

\* Between two requests nothing is owed and nothing kept, unless a pipe broke off.
Drained ==
  wpc \in {"work", "top"} /\ IsAlive(conn) /\ ~broken
    => conn.wire = <<>> /\ conn.need = 0 /\ conn.reply = None

Call == INSTANCE AsyncCall WITH
  reqs <- wnl \o swapReq \o reqQueue, resps <- nl \o swapResp \o respQueue

\* The connector is an asynchronous call bridge: requests are handled in the order
\* they were made, responses taken in the order they were given, every call ends
\* at most once, and a late answer of a call that timed out runs no callback.
RedisBridge == Call!Spec
=============================================================================
