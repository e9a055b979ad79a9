----------------------------- MODULE LevelAsync -----------------------------
(***************************************************************************)
(* LevelAsyncConnector: a worker thread that owns a LevelConnector, and a  *)
(* logic thread that sends it requests and runs their callbacks, over the  *)
(* lists of RedisAsync.  What differs is what becomes of a request: the    *)
(* operations leave their reply in the connector, or make it themselves,   *)
(* or leave none, and a request without a body is not executed.            *)
(***************************************************************************)
EXTENDS Integers, SequencesExt, FiniteSetsExt

CONSTANTS
  ReqIDs,      \* identifiers of the requests, from 1
  MaxReq,      \* bound: requests
  MaxCasts,    \* bound: calls of compact()
  MaxStarts    \* bound: calls of init() and run()

VARIABLES
  lpc, nl, reqQueue, waiting, reqGen, expired,   \* logic thread, as in RedisAsync
  swapReq, swapResp, handle, running,            \* shared
  wpc, wnl, respQueue,                           \* worker thread
  mContext,    \* the store is open
  mReply,      \* the reply kept in the connector, NoReply for none
  starts, casts,
  outcome,     \* history: what became of each request
  given,       \* history: what the callback of each request was given
  executed     \* history: the requests the store has executed, in order

logicVars  == <<lpc, nl, reqQueue, waiting, reqGen, expired>>
sharedVars == <<swapReq, swapResp, handle, running>>
workVars   == <<wpc, wnl, respQueue, mContext, mReply, executed>>
histVars   == <<starts, casts, outcome, given>>
vars       == <<logicVars, sharedVars, workVars, histVars>>

NoReply == [of |-> 0, ok |-> FALSE, done |-> FALSE]

\* connect(); an operation that leaves its reply in the connector (vset, lget, ...);
\* one that changes nothing and whose reply work_req makes (the sizes, sget, ...);
\* approximate_size(), and compact(), whose bodies are empty.
Types == {"connect", "operation", "size", "empty"}

Init ==
  /\ lpc = "idle" /\ nl = <<>> /\ reqQueue = <<>> /\ waiting = {} /\ reqGen = 0 /\ expired = 0
  /\ swapReq = <<>> /\ swapResp = <<>> /\ handle = FALSE /\ running = FALSE
  /\ wpc = "none" /\ wnl = <<>> /\ respQueue = <<>>
  /\ mContext = FALSE /\ mReply = NoReply
  /\ starts = 0 /\ casts = 0 /\ executed = <<>>
  /\ outcome = [id \in ReqIDs |-> "unused"] /\ given = [id \in ReqIDs |-> NoReply]

-----------------------------------------------------------------------------
(* The logic thread: the application's calls.                              *)

\* make_req: register the callback, queue the item.
MakeReq(type) ==
  /\ lpc = "idle" /\ reqGen < MaxReq
  /\ reqGen' = reqGen + 1
  /\ waiting' = waiting \cup {reqGen'}
  /\ reqQueue' = Append(reqQueue, [id |-> reqGen', type |-> type])
  /\ outcome' = [outcome EXCEPT ![reqGen'] = "waiting"]
  /\ UNCHANGED <<lpc, nl, expired, sharedVars, workVars, starts, casts, given>>

\* compact(): an item nobody waits for, and with nothing in its message.
Compact ==
  /\ lpc = "idle" /\ casts < MaxCasts
  /\ casts' = casts + 1
  /\ reqQueue' = Append(reqQueue, [id |-> 0, type |-> "empty"])
  /\ UNCHANGED <<lpc, nl, waiting, reqGen, expired, sharedVars, workVars, starts, outcome, given>>

\* init() and run(), once the worker before has gone.
Start ==
  /\ lpc = "idle" /\ wpc = "none" /\ starts < MaxStarts
  /\ starts' = starts + 1 /\ running' = TRUE /\ wpc' = "spawned"
  /\ UNCHANGED <<logicVars, swapReq, swapResp, handle>>
  /\ UNCHANGED <<wnl, respQueue, mContext, mReply, executed, casts, outcome, given>>

\* stop() asks the worker to leave its loop and polls mHandle; a worker that has not
\* published it yet is not waited for.
StopBegin ==
  /\ lpc = "idle"
  /\ lpc' = "join" /\ running' = FALSE
  /\ UNCHANGED <<nl, reqQueue, waiting, reqGen, expired, swapReq, swapResp, handle, workVars, histVars>>

\* The rest of stop(): everything is freed but mRespQueue.
StopEnd ==
  /\ lpc = "join" /\ ~handle
  /\ lpc' = "idle" /\ waiting' = {}
  /\ outcome' = [id \in ReqIDs |-> IF id \in waiting THEN "dropped" ELSE outcome[id]]
  /\ reqQueue' = <<>> /\ swapReq' = <<>> /\ swapResp' = <<>>
  /\ UNCHANGED <<nl, reqGen, expired, handle, running, workVars, starts, casts, given>>

-----------------------------------------------------------------------------
(* The logic thread: update().                                             *)

UpdateBegin ==
  /\ lpc = "idle"
  /\ lpc' = "resp" /\ nl' = swapResp /\ swapResp' = <<>>
  /\ UNCHANGED <<reqQueue, waiting, reqGen, expired, swapReq, handle, running, workVars, histVars>>

\* logic_resp: the callback of a request that still waits runs, then it is erased.
\* (A callback that calls stop() is left out: it would free what is erased.)
DeliverReply ==
  LET item == Head(nl) IN
  /\ lpc = "resp" /\ nl # <<>>
  /\ nl' = Tail(nl)
  /\ IF item.id \in waiting
       THEN /\ waiting' = waiting \ {item.id}
            /\ outcome' = [outcome EXCEPT ![item.id] = "answered"]
            /\ given' = [given EXCEPT ![item.id] = item.reply]
       ELSE UNCHANGED <<waiting, outcome, given>>
  /\ UNCHANGED <<lpc, reqQueue, reqGen, expired, sharedVars, workVars, starts, casts>>

LogicReq ==
  /\ lpc = "resp" /\ nl = <<>>
  /\ lpc' = "sweep"
  /\ swapReq' = swapReq \o reqQueue /\ reqQueue' = <<>>
  /\ UNCHANGED <<nl, waiting, reqGen, expired, swapResp, handle, running, workVars, histVars>>

\* The sweep walks mReqWaiting by ascending id up to the first request in time; a
\* request that timed out is freed, its callback never runs.
Swept == {id \in waiting : id <= expired}

Sweep ==
  /\ lpc = "sweep" /\ lpc' = "idle"
  /\ waiting' = waiting \ Swept
  /\ outcome' = [id \in ReqIDs |-> IF id \in Swept THEN "timeout" ELSE outcome[id]]
  /\ UNCHANGED <<nl, reqQueue, reqGen, expired, sharedVars, workVars, starts, casts, given>>

\* The clock advances, and with it the oldest request in time grows too old.
Tick ==
  /\ \E id \in waiting : id > expired
  /\ expired' = Min({id \in waiting : id > expired})
  /\ UNCHANGED <<lpc, nl, reqQueue, waiting, reqGen, sharedVars, workVars, histVars>>

-----------------------------------------------------------------------------
(* The worker thread.                                                      *)

WorkBegin ==
  /\ wpc = "spawned" /\ wpc' = "top" /\ handle' = TRUE
  /\ UNCHANGED <<logicVars, swapReq, swapResp, running, wnl, respQueue, mContext, mReply, executed, histVars>>

\* Mutant of SwapReqTaken: a copy instead of a splice.
SwapReqKept == UNCHANGED swapReq

SwapReqTaken == swapReq' = <<>>

WorkReq ==
  /\ wpc = "top" /\ running
  /\ wpc' = "work" /\ wnl' = swapReq /\ SwapReqTaken
  /\ UNCHANGED <<logicVars, swapResp, handle, running, respQueue, mContext, mReply, executed, histVars>>

Made(req, ok) == [of |-> req.id, ok |-> ok, done |-> ok /\ req.type = "operation"]

Answer(req, reply) == respQueue' = Append(respQueue, [id |-> req.id, reply |-> reply])

\* A message of size 0 is refused: approximate_size() fails, compact() does nothing.
Refuse(req) ==
  /\ req.type = "empty" /\ Answer(req, Made(req, FALSE))
  /\ UNCHANGED <<mContext, mReply, executed>>

\* The reply is made from what the operation returns; the connector's is not touched.
Size(req) ==
  /\ req.type = "size" /\ Answer(req, Made(req, TRUE))
  /\ UNCHANGED <<mContext, mReply, executed>>

\* pop_reply() moves the reply out of the connector; where there is none, the
\* request is answered by an error.
Popped(req, kept) ==
  /\ mReply' = NoReply
  /\ Answer(req, IF kept = NoReply THEN Made(req, FALSE) ELSE kept)

\* connect() keeps a reply only when it fails, or when the store is open already.
Connect(req) ==
  /\ req.type = "connect"
  /\ \E ok \in {FALSE, ~mContext} :
       /\ mContext' = (mContext \/ ok)
       /\ Popped(req, IF ok THEN mReply ELSE Made(req, FALSE))
  /\ UNCHANGED executed

\* Every other operation keeps its reply, an error if the store is not open.
Operation(req) ==
  /\ req.type = "operation"
  /\ \E ok \in {FALSE, mContext} :
       /\ executed' = IF ok THEN Append(executed, req.id) ELSE executed
       /\ Popped(req, Made(req, ok))
  /\ UNCHANGED mContext

\* work_req's loop body.
WorkItem ==
  LET req == Head(wnl) IN
  /\ wpc = "work" /\ wnl # <<>>
  /\ wnl' = Tail(wnl)
  /\ Refuse(req) \/ Size(req) \/ Connect(req) \/ Operation(req)
  /\ UNCHANGED <<logicVars, sharedVars, wpc, histVars>>

\* work_resp, at the end of a turn of the loop.
WorkResp ==
  /\ wpc = "work" /\ wnl = <<>>
  /\ wpc' = "top"
  /\ swapResp' = swapResp \o respQueue /\ respQueue' = <<>>
  /\ UNCHANGED <<logicVars, swapReq, handle, running, wnl, mContext, mReply, executed, histVars>>

\* The loop is left: close(), a last work_resp(), and the thread ends.
WorkEnd ==
  /\ wpc = "top" /\ ~running
  /\ wpc' = "exit"
  /\ mContext' = FALSE /\ mReply' = NoReply
  /\ swapResp' = swapResp \o respQueue /\ respQueue' = <<>>
  /\ UNCHANGED <<logicVars, swapReq, handle, running, wnl, executed, histVars>>

WorkGone ==
  /\ wpc = "exit"
  /\ wpc' = "none" /\ handle' = FALSE
  /\ UNCHANGED <<logicVars, swapReq, swapResp, running, wnl, respQueue, mContext, mReply, executed, histVars>>

-----------------------------------------------------------------------------
Next ==
  \/ \E type \in Types : MakeReq(type)
  \/ Compact \/ Start \/ StopBegin \/ StopEnd \/ Tick
  \/ UpdateBegin \/ DeliverReply \/ LogicReq \/ Sweep
  \/ WorkBegin \/ WorkReq \/ WorkItem \/ WorkResp \/ WorkEnd \/ WorkGone

Spec == Init /\ [][Next]_vars

-----------------------------------------------------------------------------
\* The store executes each request at most once and in the order they were made,
\* whatever became of their callbacks; and a callback is given the reply of its own
\* request, which tells of success only if it was executed.
OwnAnswers ==
  /\ \A i, j \in DOMAIN executed : i < j => executed[i] < executed[j]
  /\ \A id \in ReqIDs : outcome[id] = "answered" =>
       given[id].of = id /\ (given[id].done => id \in ToSet(executed))

Call == INSTANCE AsyncCall WITH
  reqs <- wnl \o swapReq \o reqQueue, resps <- nl \o swapResp \o respQueue

\* The connector is an asynchronous call bridge: requests are handled in the order
\* they were made, responses taken in the order they were given, every call ends
\* at most once, and a late answer of a call that timed out runs no callback.
LevelBridge == Call!Spec
=============================================================================
