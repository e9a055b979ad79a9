------------------------------ MODULE NetThread ------------------------------
(***************************************************************************)
(* PureNetThread: the application ("logic") thread drives the network from *)
(* its frame loop, a worker thread owns the reacter, and the two exchange  *)
(* requests and responses through two pairs of queues that are spliced     *)
(* into each other under a mutex.                                          *)
(*                                                                         *)
(*   logic:   reqQueue --logic_req--> swapReq --work_req--> wnl   :worker  *)
(*   logic:   nl <--logic_resp-- swapResp <--work_resp-- respQueue :worker *)
(*                                                                         *)
(* Each splice is one atomic step (it is a critical section of the code),  *)
(* everything between two splices is private to its thread.                *)
(*                                                                         *)
(* The reacter is represented by its contract: it completes the operations *)
(* it was given, in any order and with any result, and it reports the life *)
(* of its links as Open, Start, Msg and Close events.                      *)
(***************************************************************************)
EXTENDS Integers, FiniteSets, SequencesExt

CONSTANTS
  Links,       \* link identifiers; LinkMgr never hands one out twice
  NoLink,      \* the link of an item that names none
  Uses,        \* the calls this application makes
  MaxReq,      \* bound: requests with a callback
  MaxStarts,   \* bound: calls of start()
  MaxBacklog,  \* bound: items waiting in one direction
  Timeout      \* mReqTimeOut, in clock ticks

ASSUME NoLinkAssumption == NoLink \notin Links
ASSUME UsesAssumption == Uses \subseteq {"Listen", "Connect", "GetHostIp",
                                        "StopListen", "CloseLink", "SendMsg"}
ASSUME BoundsAssumption == /\ MaxReq \in Nat /\ MaxStarts \in Nat
                           /\ MaxBacklog \in Nat /\ Timeout \in Nat \ {0}

VARIABLES
  \* logic thread
  lpc,         \* where the logic thread is
  nl,          \* logic_resp's local list
  reqQueue,    \* mReqQueue
  waiting,     \* the keys of mReqWaiting
  age,         \* now - mReqTime of a waiting request, saturated; 0 for the others
  reqGen,      \* mReqGen.mLastID
  reqTimeOut,  \* mReqTimeOut
  bound,       \* the application's handlers are bound to the mEventLink... events
  \* shared by the two threads
  swapReq,     \* mSwapReqQueue
  swapResp,    \* mSwapRespQueue
  handle,      \* Thread::mHandle # 0
  running,     \* mReacterRunning
  \* worker thread
  wpc,         \* where the worker is
  wnl,         \* work_req's local list
  respQueue,   \* mRespQueue
  listening,   \* the reacter has a listener
  pend,        \* requests the reacter is working on
  link,        \* state of each link in the reacter
  \* history
  session,     \* how many times start() has spawned a worker
  outcome,     \* what became of each request
  seen         \* the last event of each link a bound handler was given

logicVars  == <<lpc, nl, reqQueue, waiting, age, reqGen, reqTimeOut, bound>>
sharedVars == <<swapReq, swapResp, handle, running>>
netVars    == <<listening, pend, link>>
workVars   == <<wpc, wnl, respQueue, netVars>>
histVars   == <<session, outcome, seen>>
vars       == <<logicVars, sharedVars, workVars, histVars>>

ReqIDs    == 1..MaxReq
Calls     == {"Listen", "Connect", "GetHostIp"}       \* requests with a callback
OneWays   == {"StopListen", "CloseLink", "SendMsg"}   \* requests without one
Events    == {"Open", "Start", "Msg", "Close"}
Outcomes  == {"unused", "waiting", "answered", "timeout", "dropped"}
LinkNames == Links \cup {NoLink}

\* What the queues hold; sess, the session that produced a response, is history.
Request  == [id : ReqIDs, type : Calls, link : {NoLink}]
              \cup [id : {0}, type : OneWays, link : LinkNames]
Response == [id : ReqIDs, type : Calls, link : {NoLink}, sess : 0..MaxStarts]
              \cup [id : {0}, type : Events, link : Links, sess : 0..MaxStarts]

TypeOK ==
  /\ lpc \in {"idle", "resp", "handler", "callback", "sweep", "join", "joinInHandler"}
  /\ nl \in Seq(Response)
  /\ reqQueue \in Seq(Request)
  /\ waiting \subseteq ReqIDs
  /\ age \in [ReqIDs -> 0..(Timeout + 1)]
  /\ reqGen \in 0..MaxReq
  /\ reqTimeOut \in {0, Timeout}
  /\ bound \in BOOLEAN
  /\ swapReq \in Seq(Request)
  /\ swapResp \in Seq(Response)
  /\ handle \in BOOLEAN
  /\ running \in BOOLEAN
  /\ wpc \in {"none", "spawned", "init", "top", "work", "react", "release", "exit"}
  /\ wnl \in Seq(Request)
  /\ respQueue \in Seq(Response)
  /\ listening \in BOOLEAN
  /\ pend \subseteq ReqIDs \X Calls
  /\ link \in [Links -> {"none", "open", "start", "closing", "close"}]
  /\ session \in 0..MaxStarts
  /\ outcome \in [ReqIDs -> Outcomes]
  /\ seen \in [Links -> Events \cup {"none"}]

Init ==
  /\ lpc = "idle" /\ nl = <<>> /\ reqQueue = <<>>
  /\ waiting = {} /\ age = [id \in ReqIDs |-> 0] /\ reqGen = 0
  /\ reqTimeOut = 0 /\ bound = FALSE
  /\ swapReq = <<>> /\ swapResp = <<>> /\ handle = FALSE /\ running = FALSE
  /\ wpc = "none" /\ wnl = <<>> /\ respQueue = <<>>
  /\ listening = FALSE /\ pend = {} /\ link = [l \in Links |-> "none"]
  /\ session = 0
  /\ outcome = [id \in ReqIDs |-> "unused"]
  /\ seen = [l \in Links |-> "none"]

-----------------------------------------------------------------------------
(* The logic thread: the application's calls.                              *)

\* The application runs its own code between two updates, in an event handler
\* and in a request's callback.
AppRuns == lpc \in {"idle", "handler", "callback"}

\* listen, connect and get_host_ip: register the callback, queue the request.
Issue(call) ==
  LET id == reqGen + 1 IN
  /\ AppRuns
  /\ reqGen < MaxReq
  /\ reqGen' = id
  /\ waiting' = waiting \cup {id}
  /\ age' = [age EXCEPT ![id] = 0]
  /\ reqQueue' = Append(reqQueue, [id |-> id, type |-> call, link |-> NoLink])
  /\ outcome' = [outcome EXCEPT ![id] = "waiting"]
  /\ UNCHANGED <<lpc, nl, reqTimeOut, bound, sharedVars, workVars, session, seen>>

\* stop_listen, close_link and send_msg: queue the request; nobody waits for it.
\* A link is named only after the application was told of it.
IssueOneWay(type, l) ==
  /\ AppRuns
  /\ Len(reqQueue) + Len(swapReq) < MaxBacklog
  /\ IF type = "StopListen" THEN l = NoLink ELSE l \in Links /\ seen[l] # "none"
  /\ reqQueue' = Append(reqQueue, [id |-> 0, type |-> type, link |-> l])
  /\ UNCHANGED <<lpc, nl, waiting, age, reqGen, reqTimeOut, bound>>
  /\ UNCHANGED <<sharedVars, workVars, histVars>>

\* start(): the thread that is spawned publishes mHandle itself, later, so the
\* caller is assumed not to call start() again until then (wpc = "none").  The
\* application binds its event handlers here.
Start ==
  /\ lpc = "idle"
  /\ ~handle /\ wpc = "none"
  /\ session < MaxStarts
  /\ reqTimeOut' = Timeout
  /\ running' = TRUE
  /\ wpc' = "spawned"
  /\ bound' = TRUE
  /\ session' = session + 1
  /\ UNCHANGED <<lpc, nl, reqQueue, waiting, age, reqGen, swapReq, swapResp, handle>>
  /\ UNCHANGED <<wnl, respQueue, netVars, outcome, seen>>

\* Mutant of StopBegin: mReacterRunning is not cleared.
StopBeginUntold ==
  /\ lpc \in {"idle", "handler"}
  /\ handle
  /\ lpc' = IF lpc = "idle" THEN "join" ELSE "joinInHandler"
  /\ UNCHANGED <<nl, reqQueue, waiting, age, reqGen, reqTimeOut, bound>>
  /\ UNCHANGED <<sharedVars, workVars, histVars>>

\* stop(): returns at once unless mHandle is set; otherwise it asks the worker
\* to leave its loop and polls mHandle (join(0)).  It may be called by an event
\* handler.
StopBegin ==
  /\ lpc \in {"idle", "handler"}
  /\ handle
  /\ running' = FALSE
  /\ lpc' = IF lpc = "idle" THEN "join" ELSE "joinInHandler"
  /\ UNCHANGED <<nl, reqQueue, waiting, age, reqGen, reqTimeOut, bound>>
  /\ UNCHANGED <<swapReq, swapResp, handle, workVars, histVars>>

\* The queues after stop(): all of them are emptied.
QueuesKept    == reqQueue' = <<>> /\ swapReq' = <<>> /\ UNCHANGED swapResp  \* mutant
QueuesCleared == reqQueue' = <<>> /\ swapReq' = <<>> /\ swapResp' = <<>>

\* The rest of stop(), once the worker is gone.
StopEnd ==
  /\ lpc \in {"join", "joinInHandler"}
  /\ ~handle
  /\ lpc' = IF lpc = "join" THEN "idle" ELSE "handler"
  /\ bound' = FALSE
  /\ reqTimeOut' = 0
  /\ waiting' = {}
  /\ age' = [id \in ReqIDs |-> 0]
  /\ outcome' = [id \in ReqIDs |-> IF id \in waiting THEN "dropped" ELSE outcome[id]]
  /\ QueuesCleared
  /\ UNCHANGED <<nl, reqGen, handle, running, workVars, session, seen>>

-----------------------------------------------------------------------------
(* The logic thread: update() = logic_resp(); logic_req(); timeout sweep.  *)

\* logic_resp: take everything the worker has published.
UpdateBegin ==
  /\ lpc = "idle"
  /\ lpc' = "resp"
  /\ nl' = swapResp
  /\ swapResp' = <<>>
  /\ UNCHANGED <<reqQueue, waiting, age, reqGen, reqTimeOut, bound>>
  /\ UNCHANGED <<swapReq, handle, running, workVars, histVars>>

\* logic_resp, a link event: notify whoever is bound.
DeliverEvent ==
  /\ lpc = "resp" /\ nl # <<>> /\ Head(nl).id = 0
  /\ nl' = Tail(nl)
  /\ IF bound
       THEN /\ lpc' = "handler"
            /\ seen' = [seen EXCEPT ![Head(nl).link] = Head(nl).type]
       ELSE UNCHANGED <<lpc, seen>>
  /\ UNCHANGED <<reqQueue, waiting, age, reqGen, reqTimeOut, bound>>
  /\ UNCHANGED <<sharedVars, workVars, session, outcome>>

\* mReqWaiting.erase, after the callback of a response.
KeepWaiting(id)   == UNCHANGED <<waiting, age>>    \* mutant: it is not erased
ForgetWaiting(id) == waiting' = waiting \ {id} /\ age' = [age EXCEPT ![id] = 0]

\* logic_resp, the response of a request: run its callback and forget it; a
\* request that is not waiting any more has timed out or was dropped by stop().
\* (The code erases the entry when the callback has returned; nothing in between
\* looks at it, since stop() and update() are not called from a callback.)
DeliverAnswer ==
  /\ lpc = "resp" /\ nl # <<>> /\ Head(nl).id # 0
  /\ nl' = Tail(nl)
  /\ IF Head(nl).id \in waiting
       THEN /\ lpc' = "callback"
            /\ ForgetWaiting(Head(nl).id)
            /\ outcome' = [outcome EXCEPT ![Head(nl).id] = "answered"]
       ELSE UNCHANGED <<lpc, waiting, age, outcome>>
  /\ UNCHANGED <<reqQueue, reqGen, reqTimeOut, bound>>
  /\ UNCHANGED <<sharedVars, workVars, session, seen>>

\* The handler or the callback returns to logic_resp's loop.
AppReturns ==
  /\ lpc \in {"handler", "callback"}
  /\ lpc' = "resp"
  /\ UNCHANGED <<nl, reqQueue, waiting, age, reqGen, reqTimeOut, bound>>
  /\ UNCHANGED <<sharedVars, workVars, histVars>>

\* mSwapReqQueue after logic_req: what was queued follows what was there.
ReqsOverwritten == reqQueue               \* mutant: a move instead of a splice
ReqsPublished   == swapReq \o reqQueue

\* logic_req: publish the queued requests.
LogicReq ==
  /\ lpc = "resp" /\ nl = <<>>
  /\ lpc' = "sweep"
  /\ swapReq' = ReqsPublished
  /\ reqQueue' = <<>>
  /\ UNCHANGED <<nl, waiting, age, reqGen, reqTimeOut, bound>>
  /\ UNCHANGED <<swapResp, handle, running, workVars, histVars>>

Expired(id) == age[id] > reqTimeOut

\* Mutants of Swept: only the first request is looked at; no sweep without a worker.
SweptFirst  == {id \in waiting : Expired(id) /\ \A j \in waiting : id <= j}
SweptIfLive == {id \in waiting : running /\ \A j \in waiting : j <= id => Expired(j)}

\* What update()'s loop over mReqWaiting erases: it walks the map by ascending
\* id and breaks at the first request that has not expired.
Swept == {id \in waiting : \A j \in waiting : j <= id => Expired(j)}

\* The timed-out requests are freed; their callbacks never run.
Sweep ==
  /\ lpc = "sweep"
  /\ lpc' = "idle"
  /\ waiting' = waiting \ Swept
  /\ age' = [id \in ReqIDs |-> IF id \in Swept THEN 0 ELSE age[id]]
  /\ outcome' = [id \in ReqIDs |-> IF id \in Swept THEN "timeout" ELSE outcome[id]]
  /\ UNCHANGED <<nl, reqQueue, reqGen, reqTimeOut, bound>>
  /\ UNCHANGED <<sharedVars, workVars, session, seen>>

\* The steady clock advances.
Tick ==
  /\ \E id \in waiting : age[id] <= Timeout
  /\ age' = [id \in ReqIDs |-> IF id \in waiting /\ age[id] <= Timeout
                                 THEN age[id] + 1 ELSE age[id]]
  /\ UNCHANGED <<lpc, nl, reqQueue, waiting, reqGen, reqTimeOut, bound>>
  /\ UNCHANGED <<sharedVars, workVars, histVars>>

-----------------------------------------------------------------------------
(* The worker thread.                                                      *)

\* Thread::run's lambda publishes mHandle, then work() begins.
WorkBegin ==
  /\ wpc = "spawned"
  /\ wpc' = "init"
  /\ handle' = TRUE
  /\ UNCHANGED <<logicVars, swapReq, swapResp, running>>
  /\ UNCHANGED <<wnl, respQueue, netVars, histVars>>

\* mReacter.init() may fail: work() then returns without entering its loop.
WorkInit ==
  /\ wpc = "init"
  /\ wpc' \in {"top", "exit"}
  /\ UNCHANGED <<logicVars, sharedVars, wnl, respQueue, netVars, histVars>>

\* mSwapReqQueue after work_req took it.
SwapReqKept  == UNCHANGED swapReq         \* mutant: a copy instead of a swap
SwapReqTaken == swapReq' = <<>>

\* The loop condition holds: work_req takes everything the logic published.
WorkReq ==
  /\ wpc = "top" /\ running
  /\ wpc' = "work"
  /\ wnl' = swapReq
  /\ SwapReqTaken
  /\ UNCHANGED <<logicVars, swapResp, handle, running, respQueue, netVars, histVars>>

Answer(req) == [id |-> req.id, type |-> req.type, link |-> NoLink, sess |-> session]
Event(type, l) == [id |-> 0, type |-> type, link |-> l, sess |-> session]

\* on_net_listen: listen_tcp succeeds or fails, and is answered on the spot.
OnNetListen(req) ==
  /\ req.type = "Listen"
  /\ listening' \in {listening, TRUE}
  /\ respQueue' = Append(respQueue, Answer(req))
  /\ UNCHANGED <<pend, link>>

\* on_net_connect and on_net_get_host_ip: the answer is the reacter's callback.
OnNetAsync(req) ==
  /\ req.type \in {"Connect", "GetHostIp"}
  /\ pend' = pend \cup {<<req.id, req.type>>}
  /\ UNCHANGED <<respQueue, listening, link>>

OnNetStopListen(req) ==
  /\ req.type = "StopListen"
  /\ listening' = FALSE
  /\ UNCHANGED <<respQueue, pend, link>>

\* on_net_close_link: Link::close refuses a link that is already ending.
OnNetCloseLink(req) ==
  /\ req.type = "CloseLink"
  /\ link' = IF link[req.link] \in {"open", "start"}
               THEN [link EXCEPT ![req.link] = "closing"] ELSE link
  /\ UNCHANGED <<respQueue, listening, pend>>

\* on_net_send_msg: the bytes go to the link's write buffer, which is not part
\* of this module.
OnNetSendMsg(req) ==
  /\ req.type = "SendMsg"
  /\ UNCHANGED <<respQueue, netVars>>

\* work_req's loop body.
WorkItem ==
  LET req == Head(wnl) IN
  /\ wpc = "work" /\ wnl # <<>>
  /\ wnl' = Tail(wnl)
  /\ \/ OnNetListen(req)
     \/ OnNetAsync(req)
     \/ OnNetStopListen(req)
     \/ OnNetCloseLink(req)
     \/ OnNetSendMsg(req)
  /\ UNCHANGED <<logicVars, sharedVars, wpc, histVars>>

\* The list is empty: on to mReacter.update().
WorkUpdate ==
  /\ wpc = "work" /\ wnl = <<>>
  /\ wpc' = "react"
  /\ UNCHANGED <<logicVars, sharedVars, wnl, respQueue, netVars, histVars>>

\* mSwapRespQueue after work_resp: what was queued follows what was there.
RespsAtFront   == respQueue \o swapResp   \* mutant: spliced in at the wrong end
RespsPublished == swapResp \o respQueue

\* work_resp: publish the responses, then round the loop.
WorkResp ==
  /\ wpc = "react"
  /\ wpc' = "top"
  /\ swapResp' = RespsPublished
  /\ respQueue' = <<>>
  /\ UNCHANGED <<logicVars, swapReq, handle, running, wnl, netVars, histVars>>

\* The loop condition fails: mReacter.release() stops the listeners and asks
\* every link to close ...
WorkRelease ==
  /\ wpc = "top" /\ ~running
  /\ wpc' = "release"
  /\ listening' = FALSE
  /\ link' = [l \in Links |-> IF link[l] \in {"open", "start"} THEN "closing" ELSE link[l]]
  /\ UNCHANGED <<logicVars, sharedVars, wnl, respQueue, pend, histVars>>

\* Mutant of WorkReleased: there is no last work_resp.
WorkReleasedSilently ==
  /\ wpc = "release"
  /\ pend = {}
  /\ \A l \in Links : link[l] \in {"none", "close"}
  /\ wpc' = "exit"
  /\ UNCHANGED <<logicVars, sharedVars, wnl, respQueue, netVars, histVars>>

\* ... and runs the loop until nothing is alive in it; a last work_resp follows.
WorkReleased ==
  /\ wpc = "release"
  /\ pend = {}
  /\ \A l \in Links : link[l] \in {"none", "close"}
  /\ wpc' = "exit"
  /\ swapResp' = RespsPublished
  /\ respQueue' = <<>>
  /\ UNCHANGED <<logicVars, swapReq, handle, running, wnl, netVars, histVars>>

\* Thread::run's lambda clears mHandle: the worker is gone.
WorkExit ==
  /\ wpc = "exit"
  /\ wpc' = "none"
  /\ handle' = FALSE
  /\ UNCHANGED <<logicVars, swapReq, swapResp, running>>
  /\ UNCHANGED <<wnl, respQueue, netVars, histVars>>

-----------------------------------------------------------------------------
(* The reacter, in uv_run: called by update() and by release().            *)

InUvRun == wpc \in {"react", "release"}

\* What opening a link reports: on_link_open drops the event when the peer's
\* address cannot be read any more; a protocol without a handshake starts the
\* link at once.
OpenReports(l) ==
  {<<>>, <<Event("Open", l)>>, <<Event("Start", l)>>, <<Event("Open", l), Event("Start", l)>>}

StateAfter(reports, l) ==
  IF \E i \in DOMAIN reports : reports[i].type = "Start" THEN "start" ELSE "open"

\* A request ends without a link that lives: the host was resolved, or not, or
\* the connect failed before there was a link.
NetFinish(op) ==
  /\ InUvRun /\ op \in pend
  /\ pend' = pend \ {op}
  /\ respQueue' = Append(respQueue, Answer([id |-> op[1], type |-> op[2]]))
  /\ UNCHANGED <<logicVars, sharedVars, wpc, wnl, listening, link, histVars>>

\* A connect fails after its link was added: the answer, then the link closes.
NetConnectFailed(op, l) ==
  /\ InUvRun /\ op \in pend /\ op[2] = "Connect" /\ link[l] = "none"
  /\ pend' = pend \ {op}
  /\ link' = [link EXCEPT ![l] = "closing"]
  /\ respQueue' = Append(respQueue, Answer([id |-> op[1], type |-> op[2]]))
  /\ UNCHANGED <<logicVars, sharedVars, wpc, wnl, listening, histVars>>

\* A connect succeeds: the link's events precede the answer.  release() leaves
\* such a link open: it asked only the links it found to close, and the shutdown
\* of a handle that was still connecting never completes.
NetConnected(op, l) ==
  /\ InUvRun /\ op \in pend /\ op[2] = "Connect" /\ link[l] = "none"
  /\ pend' = pend \ {op}
  /\ \E reports \in OpenReports(l) :
       /\ respQueue' = (respQueue \o reports) \o <<Answer([id |-> op[1], type |-> op[2]])>>
       /\ link' = [link EXCEPT ![l] = StateAfter(reports, l)]
  /\ UNCHANGED <<logicVars, sharedVars, wpc, wnl, listening, histVars>>

\* on_accept_tcp.
NetAccept(l) ==
  /\ wpc = "react" /\ listening /\ link[l] = "none"
  /\ \E reports \in OpenReports(l) :
       /\ respQueue' = respQueue \o reports
       /\ link' = [link EXCEPT ![l] = StateAfter(reports, l)]
  /\ UNCHANGED <<logicVars, sharedVars, wpc, wnl, listening, pend, histVars>>

\* The protocol's handshake is complete.
NetStart(l) ==
  /\ InUvRun /\ link[l] = "open"
  /\ link' = [link EXCEPT ![l] = "start"]
  /\ respQueue' = Append(respQueue, Event("Start", l))
  /\ UNCHANGED <<logicVars, sharedVars, wpc, wnl, listening, pend, histVars>>

NetMsg(l) ==
  /\ InUvRun /\ link[l] = "start"
  /\ Len(respQueue) + Len(swapResp) < MaxBacklog
  /\ respQueue' = Append(respQueue, Event("Msg", l))
  /\ UNCHANGED <<logicVars, sharedVars, wpc, wnl, netVars, histVars>>

\* The peer closes or fails, or the keep-alive timer expires.
NetEnd(l) ==
  /\ InUvRun /\ link[l] \in {"open", "start"}
  /\ link' = [link EXCEPT ![l] = "closing"]
  /\ UNCHANGED <<logicVars, sharedVars, wpc, wnl, respQueue, listening, pend, histVars>>

\* The close callback of the handle: on_link_close.
NetClosed(l) ==
  /\ InUvRun /\ link[l] = "closing"
  /\ link' = [link EXCEPT ![l] = "close"]
  /\ respQueue' = Append(respQueue, Event("Close", l))
  /\ UNCHANGED <<logicVars, sharedVars, wpc, wnl, listening, pend, histVars>>

-----------------------------------------------------------------------------
Logic ==
  \/ UpdateBegin \/ DeliverEvent \/ DeliverAnswer \/ AppReturns \/ LogicReq \/ Sweep
  \/ StopEnd

App ==
  \/ \E call \in Calls \cap Uses : Issue(call)
  \/ \E type \in OneWays \cap Uses, l \in LinkNames : IssueOneWay(type, l)
  \/ Start
  \/ StopBegin

Worker ==
  \/ WorkBegin \/ WorkInit \/ WorkReq \/ WorkItem \/ WorkUpdate \/ WorkResp
  \/ WorkRelease \/ WorkReleased \/ WorkExit

Net ==
  \/ \E op \in pend : NetFinish(op)
  \/ \E op \in pend, l \in Links : NetConnectFailed(op, l) \/ NetConnected(op, l)
  \/ \E l \in Links : NetAccept(l) \/ NetStart(l) \/ NetMsg(l) \/ NetEnd(l) \/ NetClosed(l)

Next == Logic \/ App \/ Worker \/ Net \/ Tick

Spec == Init /\ [][Next]_vars

-----------------------------------------------------------------------------
(* Fairness: the application keeps calling update() and its handlers       *)
(* return; the clock advances; the worker thread is scheduled; inside      *)
(* uv_run an operation that is under way ends (a resolver or a connect has *)
(* a timeout of its own) and a handle that is being closed is closed (the  *)
(* peer reads what is left or its connection fails).  Nothing is assumed   *)
(* of a peer that keeps an open link open, nor of the application.         *)

Fairness ==
  /\ WF_vars(Logic)
  /\ WF_vars(Tick)
  /\ WF_vars(Worker)
  /\ WF_vars(\E op \in pend : NetFinish(op))
  /\ \A l \in Links : WF_vars(NetClosed(l))

FairSpec == Spec /\ Fairness

-----------------------------------------------------------------------------
(* What holds.                                                             *)

\* Every request that the worker has not handled, in the order it will.
Reqs == wnl \o swapReq \o reqQueue

\* Every response that the application has not handled, in the order it will.
Resps == nl \o swapResp \o respQueue

\* How many of the queues and of the reacter's operations hold request id.
Copies(id) ==
    Cardinality({i \in DOMAIN Reqs : Reqs[i].id = id})
  + Cardinality({op \in pend : op[1] = id})
  + Cardinality({i \in DOMAIN Resps : Resps[i].id = id})

\* No request is lost or doubled between the two threads: one whose callback is
\* registered in mReqWaiting is in exactly one queue or in the reacter, and no
\* request is ever in two places.
NoLostRequest ==
  \A id \in ReqIDs : /\ Copies(id) <= 1
                      /\ id \in waiting => Copies(id) = 1

\* A request ends once: after its callback ran, its timeout or stop() nothing
\* else happens to it; a response that comes later runs no callback.
EndsOnce ==
  [][\A id \in ReqIDs : outcome[id] \in {"answered", "timeout", "dropped"}
                           => outcome'[id] = outcome[id]]_vars

\* update() leaves no expired request behind although its loop over mReqWaiting
\* stops at the first one that has not expired.
SweepComplete ==
  [][lpc = "sweep" /\ lpc' = "idle" => \A id \in waiting' : ~Expired(id)']_vars

\* The order in which a link's events may reach the application: the Open event
\* may be missing, a link that never opened is only closed, and nothing follows
\* the Close.
EventAfter ==
  {<<"none", "Open">>, <<"none", "Start">>, <<"none", "Close">>, <<"Open", "Start">>,
   <<"Open", "Close">>, <<"Start", "Msg">>, <<"Start", "Close">>, <<"Msg", "Msg">>,
   <<"Msg", "Close">>}

\* The events of one link, from the last one delivered to the last one reported
\* by the worker, are in a legal order through all the queues.
EventOrder ==
  bound => \A l \in Links :
    LET mine == {i \in DOMAIN Resps : Resps[i].id = 0 /\ Resps[i].link = l} IN
    \A i \in mine :
      /\ (\A j \in mine : j >= i) => <<seen[l], Resps[i].type>> \in EventAfter
      /\ \A j \in mine : j < i /\ (\A k \in mine : k <= j \/ k >= i) =>
                           <<Resps[j].type, Resps[i].type>> \in EventAfter

\* Handlers bound after a restart are never given an event of a worker that was
\* stopped before.
NoStaleEvent == bound => \A i \in DOMAIN Resps : Resps[i].sess = session

\* No worker, no item in any queue, no request, nothing alive in the reacter.
Quiet ==
  /\ wpc = "none"
  /\ Reqs = <<>> /\ swapResp = <<>> /\ respQueue = <<>>
  /\ waiting = {} /\ pend = {}
  /\ \A l \in Links : link[l] \in {"none", "close"}

\* When stop() returns after it joined the worker, no queue holds an item, no
\* request waits, and the worker has left nothing unfinished in the reacter.
StopLeavesNothing ==
  [][lpc' # lpc /\ lpc \in {"join", "joinInHandler"} => Quiet']_vars

\* release() cannot finish while a link is open: the link of a connect that was
\* under way when release() began.
HeldByPeer == wpc = "release" /\ \E l \in Links : link[l] \in {"open", "start"}

\* stop() returns, unless a peer holds a link that opened during release().
StopReturns == lpc \in {"join", "joinInHandler"} ~> (lpc \in {"idle", "handler"} \/ HeldByPeer)

\* Every request is answered, timed out or dropped, with the same exception.
RequestEnds ==
  \A id \in ReqIDs : outcome[id] = "waiting" ~> (outcome[id] # "waiting" \/ HeldByPeer)

\* The bridge of the two threads implements two first-in first-out channels and
\* one outcome per request: the splices under the two mutexes are invisible.
Bridge == INSTANCE AsyncCall WITH ReqIDs <- ReqIDs, outcome <- outcome,
                                  reqs <- Reqs, resps <- Resps
BridgeSpec == Bridge!Spec
=============================================================================
