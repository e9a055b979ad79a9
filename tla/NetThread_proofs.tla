---------------------------- MODULE NetThread_proofs ----------------------------
(***************************************************************************)
(* For any number of links, requests, restarts and queued items and for    *)
(* any timeout: the bridge of PureNetThread ends a request once, sweeps    *)
(* every expired one, leaves nothing behind when stop() returns, and never *)
(* hands an event of a stopped worker to the handlers of the next one.  No *)
(* request is lost, the events of a link arrive in their order, and the    *)
(* bridge implements AsyncCall.                                            *)
(***************************************************************************)
EXTENDS NetThread, SequenceTheorems, FiniteSetTheorems, TLAPS

-----------------------------------------------------------------------------
(* The inductive invariant.                                                *)

\* stop() is polling mHandle.
Joining == lpc \in {"join", "joinInHandler"}

\* The worker is gone, or has no live reacter.
Down == {"none", "spawned", "init", "exit"}

\* Where the two threads can be at the same time.
Phases ==
  /\ handle <=> wpc \notin {"none", "spawned"}
  /\ wpc = "spawned" => ~Joining
  /\ wpc # "none" => (running <=> ~Joining)
  /\ wpc = "release" => ~running
  /\ ~bound => wpc = "none"

\* Which queues are empty where.
Drained ==
  /\ lpc \in {"idle", "join", "sweep"} => nl = <<>>
  /\ wpc # "work" => wnl = <<>>
  /\ wpc \in Down => /\ respQueue = <<>> /\ pend = {}
                     /\ \A l \in Links : link[l] \in {"none", "close"}
  /\ wpc \in Down /\ ~Joining => swapResp = <<>>

\* A request waits from its issue to its outcome; the older it is, the longer it
\* has waited.
Requests ==
  /\ \A id \in ReqIDs : id \in waiting <=> outcome[id] = "waiting"
  /\ \A id \in ReqIDs : id > reqGen => outcome[id] = "unused"
  /\ \A i, j \in waiting : i < j => age[i] >= age[j]

\* Responses of the present session.
Current == {r \in Response : r.sess = session}

\* Bound handlers have only responses of the present session ahead.
Sessions ==
  bound => nl \in Seq(Current) /\ swapResp \in Seq(Current) /\ respQueue \in Seq(Current)

IInv == TypeOK /\ Phases /\ Drained /\ Requests /\ Sessions

-----------------------------------------------------------------------------
(* Sequences, and the items that go into them.                             *)

\* Splicing one list onto another.
LEMMA SpliceType ==
  ASSUME NEW S, NEW s \in Seq(S), NEW t \in Seq(S)
  PROVE  s \o t \in Seq(S)
OBVIOUS

\* Taking the first item of a list.
LEMMA HeadTailType ==
  ASSUME NEW S, NEW s \in Seq(S), s # <<>>
  PROVE  Head(s) \in S /\ Tail(s) \in Seq(S)
OBVIOUS

\* Queueing an item.
LEMMA AppendType ==
  ASSUME NEW S, NEW s \in Seq(S), NEW x \in S
  PROVE  Append(s, x) \in Seq(S)
OBVIOUS

\* Lists written out.
LEMMA ShortType ==
  ASSUME NEW S
  PROVE  /\ <<>> \in Seq(S)
         /\ \A x \in S : <<x>> \in Seq(S)
         /\ \A x, y \in S : <<x, y>> \in Seq(S)
OBVIOUS

\* The answer of a call.
LEMMA AnswerType ==
  ASSUME TypeOK, NEW req, req.id \in ReqIDs, req.type \in Calls
  PROVE  Answer(req) \in Current /\ Answer(req) \in Response
BY DEF TypeOK, Answer, Current, Response

\* A link event.
LEMMA EventType ==
  ASSUME TypeOK, NEW type \in Events, NEW l \in Links
  PROVE  Event(type, l) \in Current /\ Event(type, l) \in Response
BY DEF TypeOK, Event, Current, Response

\* What opening a link reports.
LEMMA ReportsType ==
  ASSUME TypeOK, NEW l \in Links, NEW reports \in OpenReports(l)
  PROVE  reports \in Seq(Current) /\ reports \in Seq(Response)
<1>1. /\ Event("Open", l) \in Current /\ Event("Open", l) \in Response
      /\ Event("Start", l) \in Current /\ Event("Start", l) \in Response
  BY EventType DEF Events
<1>. QED  BY <1>1, ShortType DEF OpenReports

\* The answer of an operation of the reacter.
LEMMA PendType ==
  ASSUME TypeOK, NEW op \in pend
  PROVE  /\ Answer([id |-> op[1], type |-> op[2]]) \in Current
         /\ Answer([id |-> op[1], type |-> op[2]]) \in Response
<1>1. op[1] \in ReqIDs /\ op[2] \in Calls
  BY DEF TypeOK
<1>. QED  BY <1>1, AnswerType

\* Only the requests with a callback have an id.
LEMMA CallRequest ==
  ASSUME TypeOK, NEW req \in Request
  PROVE  req.type \in Calls => req.id \in ReqIDs
BY DEF Request, Calls, OneWays

\* The next item of work_req's list.
LEMMA NextTaken ==
  ASSUME TypeOK, wnl # <<>>
  PROVE  Head(wnl) \in Request /\ Tail(wnl) \in Seq(Request)
BY HeadTailType DEF TypeOK

-----------------------------------------------------------------------------
(* Preservation: one lemma per part of the invariant, one step per action. *)

\* Each step keeps TypeOK.
LEMMA NextTypeOK == TypeOK /\ [Next]_vars => TypeOK'
<1>. SUFFICES ASSUME TypeOK, [Next]_vars PROVE TypeOK'
  OBVIOUS
<1>. USE DEF TypeOK, logicVars, sharedVars, workVars, netVars, histVars
<1>1. CASE UpdateBegin
  BY <1>1, ShortType DEF UpdateBegin
<1>2. CASE DeliverEvent
  <2>1. Head(nl) \in Response /\ Tail(nl) \in Seq(Response)
    BY <1>2, HeadTailType DEF DeliverEvent
  <2>2. Head(nl).type \in Events
    BY <1>2, <2>1 DEF DeliverEvent, Response, ReqIDs
  <2>. QED  BY <1>2, <2>1, <2>2 DEF DeliverEvent
<1>3. CASE DeliverAnswer
  <2>1. nl' \in Seq(Response)
    BY <1>3, HeadTailType DEF DeliverAnswer
  <2>2. CASE Head(nl).id \in waiting
    <3>. DEFINE x == Head(nl).id
    <3>1. /\ waiting' = waiting \ {x} /\ age' = [age EXCEPT ![x] = 0]
          /\ outcome' = [outcome EXCEPT ![x] = "answered"]
      BY <1>3, <2>2 DEF DeliverAnswer, ForgetWaiting
    <3>2. x \in ReqIDs
      BY <2>2
    <3>. HIDE DEF x
    <3>3. waiting' \subseteq ReqIDs /\ outcome' \in [ReqIDs -> Outcomes]
      BY <3>1, <3>2 DEF Outcomes
    <3>4. age' \in [ReqIDs -> 0..(Timeout + 1)]
      BY <3>1, <3>2, BoundsAssumption
    <3>. QED  BY <1>3, <2>1, <2>2, <3>3, <3>4 DEF DeliverAnswer
  <2>3. CASE Head(nl).id \notin waiting
    BY <1>3, <2>1, <2>3 DEF DeliverAnswer
  <2>. QED  BY <2>2, <2>3
<1>4. CASE AppReturns
  BY <1>4 DEF AppReturns
<1>5. CASE LogicReq
  BY <1>5, SpliceType, ShortType DEF LogicReq, ReqsPublished
<1>6. CASE Sweep
  <2>1. /\ age' \in [ReqIDs -> 0..(Timeout + 1)] /\ outcome' \in [ReqIDs -> Outcomes]
    BY <1>6, BoundsAssumption DEF Sweep, Outcomes
  <2>. QED  BY <1>6, <2>1 DEF Sweep
<1>7. CASE StopEnd
  <2>1. /\ age' \in [ReqIDs -> 0..(Timeout + 1)] /\ outcome' \in [ReqIDs -> Outcomes]
    BY <1>7, BoundsAssumption DEF StopEnd, Outcomes
  <2>2. reqQueue' \in Seq(Request) /\ swapReq' \in Seq(Request) /\ swapResp' \in Seq(Response)
    BY <1>7, ShortType DEF StopEnd, QueuesCleared
  <2>. QED  BY <1>7, <2>1, <2>2 DEF StopEnd
<1>8. ASSUME NEW call \in Calls, Issue(call) PROVE TypeOK'
  <2>. DEFINE x == reqGen + 1
               req == [id |-> x, type |-> call, link |-> NoLink]
  <2>1. x \in ReqIDs /\ x \in 0..MaxReq
    BY <1>8, BoundsAssumption DEF Issue, ReqIDs
  <2>2. req \in Request
    BY <2>1 DEF Request
  <2>3. reqQueue' \in Seq(Request)
    BY <1>8, <2>2, AppendType DEF Issue
  <2>4. /\ waiting' \subseteq ReqIDs /\ age' \in [ReqIDs -> 0..(Timeout + 1)]
        /\ outcome' \in [ReqIDs -> Outcomes]
    BY <1>8, <2>1, BoundsAssumption DEF Issue, Outcomes
  <2>. QED  BY <1>8, <2>1, <2>3, <2>4 DEF Issue
<1>9. ASSUME NEW type \in OneWays, NEW l \in LinkNames, IssueOneWay(type, l) PROVE TypeOK'
  <2>1. [id |-> 0, type |-> type, link |-> l] \in Request
    BY DEF Request
  <2>. QED  BY <1>9, <2>1, AppendType DEF IssueOneWay
<1>10. CASE Start
  BY <1>10, BoundsAssumption DEF Start
<1>11. CASE StopBegin
  BY <1>11 DEF StopBegin
<1>12. CASE WorkBegin
  BY <1>12 DEF WorkBegin
<1>13. CASE WorkInit
  BY <1>13 DEF WorkInit
<1>14. CASE WorkReq
  BY <1>14, ShortType DEF WorkReq, SwapReqTaken
<1>15. CASE WorkItem
  <2>. DEFINE req == Head(wnl)
  <2>1. req \in Request /\ wnl' \in Seq(Request)
    BY <1>15, NextTaken DEF WorkItem
  <2>2. req.type \in Calls => req.id \in ReqIDs
    BY <2>1, CallRequest
  <2>. HIDE DEF req
  <2>3. CASE OnNetListen(req)
    <3>1. respQueue' \in Seq(Response)
      BY <2>2, <2>3, AnswerType, AppendType DEF OnNetListen, Calls
    <3>. QED  BY <1>15, <2>1, <2>3, <3>1 DEF WorkItem, OnNetListen
  <2>4. CASE OnNetAsync(req)
    <3>1. pend' \subseteq ReqIDs \X Calls
      BY <2>2, <2>4 DEF OnNetAsync, Calls
    <3>. QED  BY <1>15, <2>1, <2>4, <3>1 DEF WorkItem, OnNetAsync
  <2>5. CASE OnNetStopListen(req)
    BY <1>15, <2>1, <2>5 DEF WorkItem, OnNetStopListen
  <2>6. CASE OnNetCloseLink(req)
    BY <1>15, <2>1, <2>6 DEF WorkItem, OnNetCloseLink
  <2>7. CASE OnNetSendMsg(req)
    BY <1>15, <2>1, <2>7 DEF WorkItem, OnNetSendMsg
  <2>. QED  BY <1>15, <2>3, <2>4, <2>5, <2>6, <2>7 DEF WorkItem, req
<1>16. CASE WorkUpdate
  BY <1>16 DEF WorkUpdate
<1>17. CASE WorkResp
  BY <1>17, SpliceType, ShortType DEF WorkResp, RespsPublished
<1>18. CASE WorkRelease
  BY <1>18 DEF WorkRelease
<1>19. CASE WorkReleased
  BY <1>19, SpliceType, ShortType DEF WorkReleased, RespsPublished
<1>20. CASE WorkExit
  BY <1>20 DEF WorkExit
<1>21. ASSUME NEW op \in pend, NetFinish(op) PROVE TypeOK'
  <2>1. respQueue' \in Seq(Response)
    BY <1>21, PendType, AppendType DEF NetFinish
  <2>. QED  BY <1>21, <2>1 DEF NetFinish
<1>22. ASSUME NEW op \in pend, NEW l \in Links, NetConnectFailed(op, l) PROVE TypeOK'
  <2>1. respQueue' \in Seq(Response)
    BY <1>22, PendType, AppendType DEF NetConnectFailed
  <2>. QED  BY <1>22, <2>1 DEF NetConnectFailed
<1>23. ASSUME NEW op \in pend, NEW l \in Links, NetConnected(op, l) PROVE TypeOK'
  <2>1. PICK reports \in OpenReports(l) :
         /\ respQueue' = (respQueue \o reports) \o <<Answer([id |-> op[1], type |-> op[2]])>>
         /\ link' = [link EXCEPT ![l] = StateAfter(reports, l)]
    BY <1>23 DEF NetConnected
  <2>2. reports \in Seq(Response) /\ <<Answer([id |-> op[1], type |-> op[2]])>> \in Seq(Response)
    BY ReportsType, PendType, ShortType
  <2>3. respQueue' \in Seq(Response)
    BY <2>1, <2>2, SpliceType
  <2>. QED  BY <1>23, <2>1, <2>3 DEF NetConnected, StateAfter
<1>24. ASSUME NEW l \in Links, NetAccept(l) PROVE TypeOK'
  <2>1. PICK reports \in OpenReports(l) :
         /\ respQueue' = respQueue \o reports
         /\ link' = [link EXCEPT ![l] = StateAfter(reports, l)]
    BY <1>24 DEF NetAccept
  <2>2. respQueue' \in Seq(Response)
    BY <2>1, ReportsType, SpliceType
  <2>. QED  BY <1>24, <2>1, <2>2 DEF NetAccept, StateAfter
<1>25. ASSUME NEW l \in Links, NetStart(l) PROVE TypeOK'
  <2>1. respQueue' \in Seq(Response)
    BY <1>25, EventType, AppendType DEF NetStart, Events
  <2>. QED  BY <1>25, <2>1 DEF NetStart
<1>26. ASSUME NEW l \in Links, NetMsg(l) PROVE TypeOK'
  <2>1. respQueue' \in Seq(Response)
    BY <1>26, EventType, AppendType DEF NetMsg, Events
  <2>. QED  BY <1>26, <2>1 DEF NetMsg
<1>27. ASSUME NEW l \in Links, NetEnd(l) PROVE TypeOK'
  BY <1>27 DEF NetEnd
<1>28. ASSUME NEW l \in Links, NetClosed(l) PROVE TypeOK'
  <2>1. respQueue' \in Seq(Response)
    BY <1>28, EventType, AppendType DEF NetClosed, Events
  <2>. QED  BY <1>28, <2>1 DEF NetClosed
<1>29. CASE Tick
  <2>1. age' \in [ReqIDs -> 0..(Timeout + 1)]
    BY <1>29, BoundsAssumption DEF Tick
  <2>. QED  BY <1>29, <2>1 DEF Tick
<1>30. CASE UNCHANGED vars
  BY <1>30 DEF vars
<1>. QED  BY <1>1, <1>2, <1>3, <1>4, <1>5, <1>6, <1>7, <1>8, <1>9, <1>10, <1>11,
            <1>12, <1>13, <1>14, <1>15, <1>16, <1>17, <1>18, <1>19, <1>20,
            <1>21, <1>22, <1>23, <1>24, <1>25, <1>26, <1>27, <1>28, <1>29, <1>30
            DEF Next, Logic, App, Worker, Net

\* Each step keeps Phases.
LEMMA NextPhases == TypeOK /\ Phases /\ [Next]_vars => Phases'
<1>. SUFFICES ASSUME TypeOK /\ Phases, [Next]_vars PROVE Phases'
  OBVIOUS
<1>. USE DEF TypeOK, Phases, Joining, Down, logicVars, sharedVars, workVars, netVars, histVars
<1>1. CASE UpdateBegin
  BY <1>1 DEF UpdateBegin
<1>2. CASE DeliverEvent
  BY <1>2 DEF DeliverEvent
<1>3. CASE DeliverAnswer
  BY <1>3 DEF DeliverAnswer
<1>4. CASE AppReturns
  BY <1>4 DEF AppReturns
<1>5. CASE LogicReq
  BY <1>5 DEF LogicReq
<1>6. CASE Sweep
  BY <1>6 DEF Sweep
<1>7. CASE StopEnd
  BY <1>7 DEF StopEnd
<1>8. ASSUME NEW call \in Calls, Issue(call) PROVE Phases'
  BY <1>8 DEF Issue
<1>9. ASSUME NEW type \in OneWays, NEW l \in LinkNames, IssueOneWay(type, l) PROVE Phases'
  BY <1>9 DEF IssueOneWay
<1>10. CASE Start
  BY <1>10 DEF Start
<1>11. CASE StopBegin
  BY <1>11 DEF StopBegin
<1>12. CASE WorkBegin
  BY <1>12 DEF WorkBegin
<1>13. CASE WorkInit
  BY <1>13 DEF WorkInit
<1>14. CASE WorkReq
  BY <1>14 DEF WorkReq
<1>15. CASE WorkItem
  BY <1>15 DEF WorkItem
<1>16. CASE WorkUpdate
  BY <1>16 DEF WorkUpdate
<1>17. CASE WorkResp
  BY <1>17 DEF WorkResp
<1>18. CASE WorkRelease
  BY <1>18 DEF WorkRelease
<1>19. CASE WorkReleased
  BY <1>19 DEF WorkReleased
<1>20. CASE WorkExit
  BY <1>20 DEF WorkExit
<1>21. ASSUME NEW op \in pend, NetFinish(op) PROVE Phases'
  BY <1>21 DEF NetFinish
<1>22. ASSUME NEW op \in pend, NEW l \in Links, NetConnectFailed(op, l) PROVE Phases'
  BY <1>22 DEF NetConnectFailed
<1>23. ASSUME NEW op \in pend, NEW l \in Links, NetConnected(op, l) PROVE Phases'
  BY <1>23 DEF NetConnected
<1>24. ASSUME NEW l \in Links, NetAccept(l) PROVE Phases'
  BY <1>24 DEF NetAccept
<1>25. ASSUME NEW l \in Links, NetStart(l) PROVE Phases'
  BY <1>25 DEF NetStart
<1>26. ASSUME NEW l \in Links, NetMsg(l) PROVE Phases'
  BY <1>26 DEF NetMsg
<1>27. ASSUME NEW l \in Links, NetEnd(l) PROVE Phases'
  BY <1>27 DEF NetEnd
<1>28. ASSUME NEW l \in Links, NetClosed(l) PROVE Phases'
  BY <1>28 DEF NetClosed
<1>29. CASE Tick
  BY <1>29 DEF Tick
<1>30. CASE UNCHANGED vars
  BY <1>30 DEF vars
<1>. QED  BY <1>1, <1>2, <1>3, <1>4, <1>5, <1>6, <1>7, <1>8, <1>9, <1>10, <1>11,
            <1>12, <1>13, <1>14, <1>15, <1>16, <1>17, <1>18, <1>19, <1>20,
            <1>21, <1>22, <1>23, <1>24, <1>25, <1>26, <1>27, <1>28, <1>29, <1>30
            DEF Next, Logic, App, Worker, Net

\* Each step keeps Drained.
LEMMA NextDrained == TypeOK /\ Phases /\ Drained /\ [Next]_vars => Drained'
<1>. SUFFICES ASSUME TypeOK /\ Phases /\ Drained, [Next]_vars PROVE Drained'
  OBVIOUS
<1>. USE DEF Phases, Drained, Joining, Down, InUvRun, logicVars, sharedVars, workVars, netVars, histVars
<1>1. CASE UpdateBegin
  BY <1>1 DEF UpdateBegin
<1>2. CASE DeliverEvent
  BY <1>2 DEF DeliverEvent
<1>3. CASE DeliverAnswer
  BY <1>3 DEF DeliverAnswer
<1>4. CASE AppReturns
  BY <1>4 DEF AppReturns
<1>5. CASE LogicReq
  BY <1>5 DEF LogicReq
<1>6. CASE Sweep
  BY <1>6 DEF Sweep
<1>7. CASE StopEnd
  BY <1>7 DEF StopEnd, QueuesCleared
<1>8. ASSUME NEW call \in Calls, Issue(call) PROVE Drained'
  BY <1>8 DEF Issue
<1>9. ASSUME NEW type \in OneWays, NEW l \in LinkNames, IssueOneWay(type, l) PROVE Drained'
  BY <1>9 DEF IssueOneWay
<1>10. CASE Start
  BY <1>10 DEF Start
<1>11. CASE StopBegin
  BY <1>11 DEF StopBegin
<1>12. CASE WorkBegin
  BY <1>12 DEF WorkBegin
<1>13. CASE WorkInit
  BY <1>13 DEF WorkInit
<1>14. CASE WorkReq
  BY <1>14 DEF WorkReq, SwapReqTaken
<1>15. CASE WorkItem
  BY <1>15 DEF WorkItem
<1>16. CASE WorkUpdate
  BY <1>16 DEF WorkUpdate
<1>17. CASE WorkResp
  BY <1>17 DEF WorkResp
<1>18. CASE WorkRelease
  BY <1>18 DEF WorkRelease
<1>19. CASE WorkReleased
  BY <1>19 DEF WorkReleased
<1>20. CASE WorkExit
  BY <1>20 DEF WorkExit
<1>21. ASSUME NEW op \in pend, NetFinish(op) PROVE Drained'
  BY <1>21 DEF NetFinish
<1>22. ASSUME NEW op \in pend, NEW l \in Links, NetConnectFailed(op, l) PROVE Drained'
  BY <1>22 DEF NetConnectFailed
<1>23. ASSUME NEW op \in pend, NEW l \in Links, NetConnected(op, l) PROVE Drained'
  BY <1>23 DEF NetConnected
<1>24. ASSUME NEW l \in Links, NetAccept(l) PROVE Drained'
  BY <1>24 DEF NetAccept
<1>25. ASSUME NEW l \in Links, NetStart(l) PROVE Drained'
  BY <1>25 DEF NetStart
<1>26. ASSUME NEW l \in Links, NetMsg(l) PROVE Drained'
  BY <1>26 DEF NetMsg
<1>27. ASSUME NEW l \in Links, NetEnd(l) PROVE Drained'
  BY <1>27 DEF NetEnd
<1>28. ASSUME NEW l \in Links, NetClosed(l) PROVE Drained'
  BY <1>28 DEF NetClosed
<1>29. CASE Tick
  BY <1>29 DEF Tick
<1>30. CASE UNCHANGED vars
  BY <1>30 DEF vars
<1>. QED  BY <1>1, <1>2, <1>3, <1>4, <1>5, <1>6, <1>7, <1>8, <1>9, <1>10, <1>11,
            <1>12, <1>13, <1>14, <1>15, <1>16, <1>17, <1>18, <1>19, <1>20,
            <1>21, <1>22, <1>23, <1>24, <1>25, <1>26, <1>27, <1>28, <1>29, <1>30
            DEF Next, Logic, App, Worker, Net

\* Each step keeps Requests.
LEMMA NextRequests == TypeOK /\ Requests /\ [Next]_vars => Requests'
<1>. SUFFICES ASSUME TypeOK /\ Requests, [Next]_vars PROVE Requests'
  OBVIOUS
<1>. USE DEF Requests, ReqIDs, logicVars, sharedVars, workVars, netVars, histVars
<1>1. CASE UpdateBegin
  BY <1>1 DEF UpdateBegin
<1>2. CASE DeliverEvent
  BY <1>2 DEF DeliverEvent
<1>3. CASE DeliverAnswer
  <2>1. CASE Head(nl).id \in waiting
    <3>. DEFINE x == Head(nl).id
    <3>1. /\ waiting' = waiting \ {x} /\ age' = [age EXCEPT ![x] = 0]
          /\ outcome' = [outcome EXCEPT ![x] = "answered"] /\ reqGen' = reqGen
      BY <1>3, <2>1 DEF DeliverAnswer, ForgetWaiting
    <3>2. x \in waiting
      BY <2>1
    <3>. HIDE DEF x
    <3>. QED  BY <3>1, <3>2 DEF TypeOK
  <2>2. CASE Head(nl).id \notin waiting
    BY <1>3, <2>2 DEF DeliverAnswer
  <2>. QED  BY <2>1, <2>2
<1>4. CASE AppReturns
  BY <1>4 DEF AppReturns
<1>5. CASE LogicReq
  BY <1>5 DEF LogicReq
<1>6. CASE Sweep
  BY <1>6 DEF TypeOK, Sweep, Swept
<1>7. CASE StopEnd
  BY <1>7 DEF TypeOK, StopEnd
<1>8. ASSUME NEW call \in Calls, Issue(call) PROVE Requests'
  <2>. DEFINE x == reqGen + 1
  <2>1. /\ reqGen < MaxReq /\ reqGen' = x /\ waiting' = waiting \cup {x}
        /\ age' = [age EXCEPT ![x] = 0] /\ outcome' = [outcome EXCEPT ![x] = "waiting"]
    BY <1>8 DEF Issue
  <2>2. x \in 1..MaxReq /\ x > reqGen /\ x \notin waiting /\ reqGen \in Nat
    BY <2>1, BoundsAssumption DEF TypeOK
  <2>3. \A i \in waiting : i < x /\ age[i] >= 0
    BY <2>2, BoundsAssumption DEF TypeOK
  <2>. HIDE DEF x
  <2>4. \A i, j \in waiting' : i < j => age'[i] >= age'[j]
    BY <2>1, <2>2, <2>3 DEF TypeOK
  <2>5. \A id \in ReqIDs : id \in waiting' <=> outcome'[id] = "waiting"
    BY <2>1, <2>2 DEF TypeOK
  <2>6. \A id \in ReqIDs : id > reqGen' => outcome'[id] = "unused"
    BY <2>1, <2>2 DEF TypeOK
  <2>. QED  BY <2>4, <2>5, <2>6
<1>9. ASSUME NEW type \in OneWays, NEW l \in LinkNames, IssueOneWay(type, l) PROVE Requests'
  BY <1>9 DEF IssueOneWay
<1>10. CASE Start
  BY <1>10 DEF Start
<1>11. CASE StopBegin
  BY <1>11 DEF StopBegin
<1>12. CASE WorkBegin
  BY <1>12 DEF WorkBegin
<1>13. CASE WorkInit
  BY <1>13 DEF WorkInit
<1>14. CASE WorkReq
  BY <1>14 DEF WorkReq
<1>15. CASE WorkItem
  BY <1>15 DEF WorkItem
<1>16. CASE WorkUpdate
  BY <1>16 DEF WorkUpdate
<1>17. CASE WorkResp
  BY <1>17 DEF WorkResp
<1>18. CASE WorkRelease
  BY <1>18 DEF WorkRelease
<1>19. CASE WorkReleased
  BY <1>19 DEF WorkReleased
<1>20. CASE WorkExit
  BY <1>20 DEF WorkExit
<1>21. ASSUME NEW op \in pend, NetFinish(op) PROVE Requests'
  BY <1>21 DEF NetFinish
<1>22. ASSUME NEW op \in pend, NEW l \in Links, NetConnectFailed(op, l) PROVE Requests'
  BY <1>22 DEF NetConnectFailed
<1>23. ASSUME NEW op \in pend, NEW l \in Links, NetConnected(op, l) PROVE Requests'
  BY <1>23 DEF NetConnected
<1>24. ASSUME NEW l \in Links, NetAccept(l) PROVE Requests'
  BY <1>24 DEF NetAccept
<1>25. ASSUME NEW l \in Links, NetStart(l) PROVE Requests'
  BY <1>25 DEF NetStart
<1>26. ASSUME NEW l \in Links, NetMsg(l) PROVE Requests'
  BY <1>26 DEF NetMsg
<1>27. ASSUME NEW l \in Links, NetEnd(l) PROVE Requests'
  BY <1>27 DEF NetEnd
<1>28. ASSUME NEW l \in Links, NetClosed(l) PROVE Requests'
  BY <1>28 DEF NetClosed
<1>29. CASE Tick
  <2>1. \A i, j \in waiting : i < j => age'[i] >= age'[j]
    <3>. SUFFICES ASSUME NEW i \in waiting, NEW j \in waiting, i < j PROVE age'[i] >= age'[j]
      OBVIOUS
    <3>1. /\ age[i] \in 0..(Timeout + 1) /\ age[j] \in 0..(Timeout + 1) /\ age[i] >= age[j]
          /\ i \in ReqIDs /\ j \in ReqIDs
      BY DEF TypeOK
    <3>2. \A id \in waiting : age'[id] = IF age[id] <= Timeout THEN age[id] + 1 ELSE age[id]
      BY <1>29 DEF TypeOK, Tick
    <3>. QED  BY <3>1, <3>2, BoundsAssumption
  <2>. QED  BY <1>29, <2>1 DEF Tick
<1>30. CASE UNCHANGED vars
  BY <1>30 DEF vars
<1>. QED  BY <1>1, <1>2, <1>3, <1>4, <1>5, <1>6, <1>7, <1>8, <1>9, <1>10, <1>11,
            <1>12, <1>13, <1>14, <1>15, <1>16, <1>17, <1>18, <1>19, <1>20,
            <1>21, <1>22, <1>23, <1>24, <1>25, <1>26, <1>27, <1>28, <1>29, <1>30
            DEF Next, Logic, App, Worker, Net

\* Each step keeps Sessions.
LEMMA NextSessions == TypeOK /\ Phases /\ Drained /\ Sessions /\ [Next]_vars => Sessions'
<1>. SUFFICES ASSUME TypeOK /\ Phases /\ Drained /\ Sessions, [Next]_vars PROVE Sessions'
  OBVIOUS
<1>. USE DEF Sessions, logicVars, sharedVars, workVars, netVars, histVars
<1>1. CASE UpdateBegin
  BY <1>1, ShortType DEF UpdateBegin, Current
<1>2. CASE DeliverEvent
  BY <1>2, HeadTailType DEF DeliverEvent, Current
<1>3. CASE DeliverAnswer
  BY <1>3, HeadTailType DEF DeliverAnswer, Current
<1>4. CASE AppReturns
  BY <1>4 DEF AppReturns, Current
<1>5. CASE LogicReq
  BY <1>5 DEF LogicReq, Current
<1>6. CASE Sweep
  BY <1>6 DEF Sweep, Current
<1>7. CASE StopEnd
  BY <1>7 DEF StopEnd
<1>8. ASSUME NEW call \in Calls, Issue(call) PROVE Sessions'
  BY <1>8 DEF Issue, Current
<1>9. ASSUME NEW type \in OneWays, NEW l \in LinkNames, IssueOneWay(type, l) PROVE Sessions'
  BY <1>9 DEF IssueOneWay, Current
<1>10. CASE Start
  BY <1>10, ShortType DEF Start, Phases, Drained, Joining, Down
<1>11. CASE StopBegin
  BY <1>11 DEF StopBegin, Current
<1>12. CASE WorkBegin
  BY <1>12 DEF WorkBegin, Current
<1>13. CASE WorkInit
  BY <1>13 DEF WorkInit, Current
<1>14. CASE WorkReq
  BY <1>14 DEF WorkReq, Current
<1>15. CASE WorkItem
  <2>. DEFINE req == Head(wnl)
  <2>1. req \in Request
    BY <1>15, NextTaken DEF WorkItem
  <2>2. req.type = "Listen" => Answer(req) \in Current
    BY <2>1, CallRequest, AnswerType DEF Calls
  <2>. HIDE DEF req
  <2>3. CASE OnNetListen(req)
    BY <1>15, <2>2, <2>3, AppendType DEF WorkItem, OnNetListen, Current
  <2>4. CASE UNCHANGED respQueue
    BY <1>15, <2>4 DEF WorkItem, Current
  <2>. QED  BY <1>15, <2>3, <2>4 DEF WorkItem, req, OnNetAsync, OnNetStopListen, OnNetCloseLink, OnNetSendMsg
<1>16. CASE WorkUpdate
  BY <1>16 DEF WorkUpdate, Current
<1>17. CASE WorkResp
  BY <1>17, SpliceType, ShortType DEF WorkResp, RespsPublished, Current
<1>18. CASE WorkRelease
  BY <1>18 DEF WorkRelease, Current
<1>19. CASE WorkReleased
  BY <1>19, SpliceType, ShortType DEF WorkReleased, RespsPublished, Current
<1>20. CASE WorkExit
  BY <1>20 DEF WorkExit, Current
<1>21. ASSUME NEW op \in pend, NetFinish(op) PROVE Sessions'
  BY <1>21, PendType, AppendType DEF NetFinish, Current
<1>22. ASSUME NEW op \in pend, NEW l \in Links, NetConnectFailed(op, l) PROVE Sessions'
  BY <1>22, PendType, AppendType DEF NetConnectFailed, Current
<1>23. ASSUME NEW op \in pend, NEW l \in Links, NetConnected(op, l) PROVE Sessions'
  <2>1. PICK reports \in OpenReports(l) :
         respQueue' = (respQueue \o reports) \o <<Answer([id |-> op[1], type |-> op[2]])>>
    BY <1>23 DEF NetConnected
  <2>2. reports \in Seq(Current) /\ <<Answer([id |-> op[1], type |-> op[2]])>> \in Seq(Current)
    BY ReportsType, PendType, ShortType
  <2>3. bound => respQueue' \in Seq(Current)
    BY <2>1, <2>2, SpliceType
  <2>. QED  BY <1>23, <2>3 DEF NetConnected, Current
<1>24. ASSUME NEW l \in Links, NetAccept(l) PROVE Sessions'
  <2>1. PICK reports \in OpenReports(l) : respQueue' = respQueue \o reports
    BY <1>24 DEF NetAccept
  <2>2. bound => respQueue' \in Seq(Current)
    BY <2>1, ReportsType, SpliceType
  <2>. QED  BY <1>24, <2>2 DEF NetAccept, Current
<1>25. ASSUME NEW l \in Links, NetStart(l) PROVE Sessions'
  BY <1>25, EventType, AppendType DEF NetStart, Current, Events
<1>26. ASSUME NEW l \in Links, NetMsg(l) PROVE Sessions'
  BY <1>26, EventType, AppendType DEF NetMsg, Current, Events
<1>27. ASSUME NEW l \in Links, NetEnd(l) PROVE Sessions'
  BY <1>27 DEF NetEnd, Current
<1>28. ASSUME NEW l \in Links, NetClosed(l) PROVE Sessions'
  BY <1>28, EventType, AppendType DEF NetClosed, Current, Events
<1>29. CASE Tick
  BY <1>29 DEF Tick, Current
<1>30. CASE UNCHANGED vars
  BY <1>30 DEF vars, Current
<1>. QED  BY <1>1, <1>2, <1>3, <1>4, <1>5, <1>6, <1>7, <1>8, <1>9, <1>10, <1>11,
            <1>12, <1>13, <1>14, <1>15, <1>16, <1>17, <1>18, <1>19, <1>20,
            <1>21, <1>22, <1>23, <1>24, <1>25, <1>26, <1>27, <1>28, <1>29, <1>30
            DEF Next, Logic, App, Worker, Net

-----------------------------------------------------------------------------
(* The theorems.                                                           *)

LEMMA InitIInv == Init => IInv
<1>. SUFFICES ASSUME Init PROVE IInv
  OBVIOUS
<1>1. TypeOK
  <2>1. /\ nl \in Seq(Response) /\ swapResp \in Seq(Response) /\ respQueue \in Seq(Response)
        /\ reqQueue \in Seq(Request) /\ swapReq \in Seq(Request) /\ wnl \in Seq(Request)
    BY ShortType DEF Init
  <2>2. /\ age \in [ReqIDs -> 0..(Timeout + 1)] /\ outcome \in [ReqIDs -> Outcomes]
        /\ reqGen \in 0..MaxReq /\ session \in 0..MaxStarts
    BY BoundsAssumption DEF Init, Outcomes
  <2>. QED  BY <2>1, <2>2 DEF Init, TypeOK
<1>2. Phases /\ Drained /\ Requests /\ Sessions
  BY DEF Init, Phases, Drained, Requests, Sessions, Joining, Down
<1>. QED  BY <1>1, <1>2 DEF IInv

LEMMA AlwaysIInv == Spec => []IInv
<1>1. IInv /\ [Next]_vars => IInv'
  BY NextTypeOK, NextPhases, NextDrained, NextRequests, NextSessions DEF IInv
<1>. QED  BY InitIInv, <1>1, PTL DEF Spec

\* Every queue and every variable of both threads keeps its type.
THEOREM TypeCorrect == Spec => []TypeOK
<1>1. IInv => TypeOK
  BY DEF IInv
<1>. QED  BY <1>1, AlwaysIInv, PTL

\* After a restart the bound handlers see only events of the running worker:
\* what an earlier worker left is gone before start() can be called again.
THEOREM NeverStaleEvent == Spec => []NoStaleEvent
<1>1. IInv => NoStaleEvent
  <2>. SUFFICES ASSUME IInv, bound PROVE \A i \in DOMAIN Resps : Resps[i].sess = session
    BY DEF NoStaleEvent
  <2>1. Resps \in Seq(Current)
    BY SpliceType DEF IInv, Sessions, Resps
  <2>. HIDE DEF Resps
  <2>2. \A i \in DOMAIN Resps : Resps[i] \in Current
    BY <2>1
  <2>. QED  BY <2>2 DEF Current
<1>. QED  BY <1>1, AlwaysIInv, PTL

\* A request that was answered, timed out or dropped stays so.
THEOREM RequestEndsOnce == Spec => EndsOnce
<1>. DEFINE Ended == {"answered", "timeout", "dropped"}
            Once  == \A id \in ReqIDs : outcome[id] \in Ended => outcome'[id] = outcome[id]
<1>1. IInv /\ [Next]_vars => [Once]_vars
  <2>. SUFFICES ASSUME IInv, Next PROVE Once
    OBVIOUS
  <2>. USE DEF IInv, Requests, logicVars, sharedVars, workVars, histVars
  <2>1. CASE DeliverAnswer
    BY <2>1 DEF DeliverAnswer, TypeOK
  <2>2. CASE Sweep
    BY <2>2 DEF Sweep, Swept, TypeOK
  <2>3. CASE StopEnd
    BY <2>3 DEF StopEnd, TypeOK
  <2>4. ASSUME NEW call \in Calls, Issue(call) PROVE Once
    <3>1. reqGen \in Nat /\ outcome' = [outcome EXCEPT ![reqGen + 1] = "waiting"]
      BY <2>4, BoundsAssumption DEF Issue, TypeOK
    <3>2. \A id \in ReqIDs : outcome[id] \in Ended => id # reqGen + 1
      BY <3>1 DEF ReqIDs
    <3>. QED  BY <3>1, <3>2 DEF TypeOK
  <2>5. CASE UNCHANGED outcome
    BY <2>5
  <2>6. Logic => DeliverAnswer \/ Sweep \/ StopEnd \/ UNCHANGED outcome
    BY DEF Logic, UpdateBegin, DeliverEvent, AppReturns, LogicReq
  <2>7. App => (\E call \in Calls : Issue(call)) \/ UNCHANGED outcome
    BY DEF App, IssueOneWay, Start, StopBegin
  <2>8. Worker => UNCHANGED outcome
    BY DEF Worker, WorkBegin, WorkInit, WorkReq, WorkItem, WorkUpdate, WorkResp,
           WorkRelease, WorkReleased, WorkExit
  <2>9. Net \/ Tick => UNCHANGED outcome
    BY DEF Net, Tick, NetFinish, NetConnectFailed, NetConnected, NetAccept, NetStart,
           NetMsg, NetEnd, NetClosed
  <2>. QED  BY <2>1, <2>2, <2>3, <2>4, <2>5, <2>6, <2>7, <2>8, <2>9
          DEF Next
<1>. QED  BY <1>1, AlwaysIInv, PTL DEF Spec, EndsOnce

\* The sweep may stop at the first request that has not expired: the requests
\* after it are younger, so none of them has expired either.
THEOREM SweepIsComplete == Spec => SweepComplete
<1>. DEFINE Complete == lpc = "sweep" /\ lpc' = "idle" => \A id \in waiting' : ~Expired(id)'
<1>1. IInv /\ [Next]_vars => [Complete]_vars
  <2>. SUFFICES ASSUME IInv, Next, lpc = "sweep", lpc' = "idle"
                PROVE  \A id \in waiting' : ~Expired(id)'
    OBVIOUS
  <2>1. Sweep
    BY DEF Next, Logic, App, Worker, Net, Tick, UpdateBegin, DeliverEvent, DeliverAnswer,
           AppReturns, AppRuns, LogicReq, StopEnd, Issue, IssueOneWay, Start, StopBegin,
           WorkBegin, WorkInit, WorkReq, WorkItem, WorkUpdate, WorkResp, WorkRelease,
           WorkReleased, WorkExit, NetFinish, NetConnectFailed, NetConnected, NetAccept,
           NetStart, NetMsg, NetEnd, NetClosed, logicVars
  <2>2. \A id \in waiting' : id \in waiting /\ id \notin Swept /\ id \in ReqIDs
                             /\ age'[id] = age[id] /\ reqTimeOut' = reqTimeOut
    BY <2>1 DEF Sweep, IInv, TypeOK
  <2>3. \A id \in waiting : id \notin Swept => ~Expired(id)
    <3>. SUFFICES ASSUME NEW id \in waiting, id \notin Swept PROVE ~Expired(id)
      OBVIOUS
    <3>1. PICK j \in waiting : j <= id /\ ~Expired(j)
      BY DEF Swept
    <3>2. /\ age[j] \in Int /\ age[id] \in Int /\ reqTimeOut \in Int /\ j \in Int /\ id \in Int
      BY BoundsAssumption DEF IInv, TypeOK, ReqIDs
    <3>3. age[j] >= age[id]
      BY <3>1, <3>2 DEF IInv, Requests
    <3>. QED  BY <3>1, <3>2, <3>3 DEF Expired
  <2>. QED  BY <2>2, <2>3 DEF Expired
<1>. QED  BY <1>1, AlwaysIInv, PTL DEF Spec, SweepComplete

\* When stop() returns after joining the worker nothing is left in any queue, in
\* the reacter or waiting.
THEOREM StopIsClean == Spec => StopLeavesNothing
<1>. DEFINE Clean == lpc' # lpc /\ lpc \in {"join", "joinInHandler"} => Quiet'
<1>1. IInv /\ [Next]_vars => [Clean]_vars
  <2>. SUFFICES ASSUME IInv, Next, lpc' # lpc, lpc \in {"join", "joinInHandler"}
                PROVE  Quiet'
    OBVIOUS
  <2>1. StopEnd
    BY DEF Next, Logic, App, Worker, Net, Tick, UpdateBegin, DeliverEvent, DeliverAnswer,
           AppReturns, LogicReq, Sweep, Issue, IssueOneWay, Start, StopBegin,
           WorkBegin, WorkInit, WorkReq, WorkItem, WorkUpdate, WorkResp, WorkRelease,
           WorkReleased, WorkExit, NetFinish, NetConnectFailed, NetConnected, NetAccept,
           NetStart, NetMsg, NetEnd, NetClosed, logicVars
  <2>2. wpc = "none" /\ wnl = <<>> /\ respQueue = <<>> /\ pend = {}
        /\ \A l \in Links : link[l] \in {"none", "close"}
    BY <2>1 DEF StopEnd, IInv, Phases, Drained, Joining, Down
  <2>3. Reqs' = <<>>
    BY <2>1, <2>2 DEF StopEnd, QueuesCleared, Reqs, workVars
  <2>. QED  BY <2>1, <2>2, <2>3 DEF StopEnd, QueuesCleared, Quiet, workVars, netVars
<1>. QED  BY <1>1, AlwaysIInv, PTL DEF Spec, StopLeavesNothing

-----------------------------------------------------------------------------
(* The splices are invisible: what each step does to the two channels.     *)

LEMMA Associative ==
  ASSUME NEW S, NEW s \in Seq(S), NEW t \in Seq(S), NEW u \in Seq(S)
  PROVE  s \o (t \o u) = (s \o t) \o u
OBVIOUS

\* Lists spliced together.
LEMMA Spliced ==
  ASSUME NEW S, NEW s \in Seq(S), NEW t \in Seq(S), NEW u \in Seq(S)
  PROVE  /\ (s \o t) \o u \in Seq(S)
         /\ (s \o (t \o u)) \o <<>> = (s \o t) \o u
         /\ (t \o <<>>) \o u = (<<>> \o t) \o u
         /\ (<<>> \o <<>>) \o <<>> = <<>>
         /\ (s \o <<>>) \o <<>> = s
         /\ \A v \in Seq(S) : (s \o t) \o (u \o v) = ((s \o t) \o u) \o v
<1>1. s \o t \in Seq(S) /\ t \o u \in Seq(S) /\ <<>> \in Seq(S)
  BY ConcatProperties, EmptySeq
<1>2. (s \o t) \o u \in Seq(S) /\ s \o (t \o u) \in Seq(S)
  BY <1>1, ConcatProperties
<1>3. (s \o (t \o u)) \o <<>> = (s \o t) \o u
  BY <1>2, ConcatAssociative, ConcatEmptySeq
<1>4. t \o <<>> = t /\ <<>> \o t = t /\ s \o <<>> = s
  BY ConcatEmptySeq
<1>5. <<>> \o <<>> = <<>>
  BY <1>1, ConcatEmptySeq
<1>6. ASSUME NEW v \in Seq(S), NEW w \in Seq(S)
      PROVE  w \o (u \o v) = (w \o u) \o v
  BY Associative
<1>. QED  BY <1>1, <1>2, <1>3, <1>4, <1>5, <1>6

\* Adding an item at the end of spliced lists.
LEMMA SplicedAppend ==
  ASSUME NEW S, NEW s \in Seq(S), NEW t \in Seq(S), NEW x \in S
  PROVE  s \o Append(t, x) = Append(s \o t, x)
<1>1. <<x>> \in Seq(S) /\ s \o t \in Seq(S)
  BY ShortType, ConcatProperties
<1>2. Append(t, x) = t \o <<x>> /\ Append(s \o t, x) = (s \o t) \o <<x>>
  BY <1>1, AppendIsConcat
<1>. QED  BY <1>1, <1>2, ConcatAssociative

\* Taking the first item of spliced lists.
LEMMA SplicedTail ==
  ASSUME NEW S, NEW s \in Seq(S), NEW t \in Seq(S), s # <<>>
  PROVE  /\ s \o t # <<>>
         /\ Head(s \o t) = Head(s)
         /\ Tail(s \o t) = Tail(s) \o t
<1>1. /\ s \o t \in Seq(S) /\ Len(s \o t) = Len(s) + Len(t)
      /\ \A i \in 1 .. Len(s) + Len(t) :
           (s \o t)[i] = IF i <= Len(s) THEN s[i] ELSE t[i - Len(s)]
  BY ConcatProperties
<1>2. Len(s) \in Nat \ {0} /\ Len(t) \in Nat
  BY EmptySeq, LenProperties
<1>3. s \o t # <<>>
  BY <1>1, <1>2, EmptySeq
<1>4. /\ Tail(s) \in Seq(S) /\ Len(Tail(s)) = Len(s) - 1
      /\ \A i \in 1 .. Len(Tail(s)) : Tail(s)[i] = s[i + 1]
  BY HeadTailProperties
<1>5. /\ Tail(s \o t) \in Seq(S) /\ Len(Tail(s \o t)) = Len(s \o t) - 1
      /\ \A i \in 1 .. Len(Tail(s \o t)) : Tail(s \o t)[i] = (s \o t)[i + 1]
  BY <1>1, <1>3, HeadTailProperties
<1>6. /\ Tail(s) \o t \in Seq(S) /\ Len(Tail(s) \o t) = Len(Tail(s)) + Len(t)
      /\ \A i \in 1 .. Len(Tail(s)) + Len(t) :
           (Tail(s) \o t)[i] = IF i <= Len(Tail(s)) THEN Tail(s)[i] ELSE t[i - Len(Tail(s))]
  BY <1>4, ConcatProperties
<1>7. Len(Tail(s \o t)) = Len(Tail(s) \o t)
  BY <1>1, <1>2, <1>4, <1>5, <1>6
<1>8. ASSUME NEW i \in 1 .. Len(Tail(s \o t))
      PROVE  Tail(s \o t)[i] = (Tail(s) \o t)[i]
  BY <1>1, <1>2, <1>4, <1>5, <1>6
<1>9. Tail(s \o t) = Tail(s) \o t
  BY <1>5, <1>6, <1>7, <1>8, SeqEqual
<1>10. Head(s \o t) = Head(s)
  BY <1>1, <1>2, <1>3
<1>. QED  BY <1>3, <1>9, <1>10

\* What the channels hold.
LEMMA Channels ==
  ASSUME TypeOK
  PROVE  Reqs \in Seq(Request) /\ Resps \in Seq(Response)
BY Spliced DEF TypeOK, Reqs, Resps

\* Steps that move items from one list to the next, or move none.
LEMMA StillSteps ==
  ASSUME IInv,
         \/ UpdateBegin \/ AppReturns \/ LogicReq \/ Sweep \/ Start \/ StopBegin
         \/ WorkBegin \/ WorkInit \/ WorkReq \/ WorkUpdate \/ WorkResp \/ WorkRelease
         \/ WorkReleased \/ WorkExit \/ Tick \/ \E l \in Links : NetEnd(l)
  PROVE  UNCHANGED <<Reqs, Resps, pend, reqGen, seen>>
<1>. USE DEF logicVars, sharedVars, workVars, netVars, histVars
<1>1. CASE UpdateBegin
  <2>1. nl = <<>> /\ swapResp \in Seq(Response) /\ respQueue \in Seq(Response)
    BY <1>1 DEF UpdateBegin, IInv, TypeOK, Drained
  <2>. QED  BY <1>1, <2>1, Spliced DEF UpdateBegin, Reqs, Resps
<1>2. CASE LogicReq
  <2>1. wnl \in Seq(Request) /\ swapReq \in Seq(Request) /\ reqQueue \in Seq(Request)
    BY DEF IInv, TypeOK
  <2>. QED  BY <1>2, <2>1, Spliced DEF LogicReq, ReqsPublished, Reqs, Resps
<1>3. CASE WorkReq
  <2>1. wnl = <<>> /\ swapReq \in Seq(Request) /\ reqQueue \in Seq(Request)
    BY <1>3 DEF WorkReq, IInv, TypeOK, Drained
  <2>. QED  BY <1>3, <2>1, Spliced DEF WorkReq, SwapReqTaken, Reqs, Resps
<1>4. CASE WorkResp \/ WorkReleased
  <2>1. nl \in Seq(Response) /\ swapResp \in Seq(Response) /\ respQueue \in Seq(Response)
    BY DEF IInv, TypeOK
  <2>2. (nl \o (swapResp \o respQueue)) \o <<>> = (nl \o swapResp) \o respQueue
    BY <2>1, Spliced
  <2>3. /\ nl' = nl /\ swapResp' = swapResp \o respQueue /\ respQueue' = <<>>
        /\ UNCHANGED <<wnl, swapReq, reqQueue, pend, reqGen, seen>>
    BY <1>4 DEF WorkResp, WorkReleased, RespsPublished
  <2>. QED  BY <2>2, <2>3 DEF Reqs, Resps
<1>5. CASE UNCHANGED <<nl, swapResp, respQueue, wnl, swapReq, reqQueue, pend, reqGen, seen>>
  BY <1>5 DEF Reqs, Resps
<1>. QED  BY <1>1, <1>2, <1>3, <1>4, <1>5
       DEF AppReturns, Sweep, Start, StopBegin, WorkBegin, WorkInit, WorkUpdate, WorkRelease,
           WorkExit, Tick, NetEnd

\* The application sends.
LEMMA SendSteps ==
  ASSUME IInv, NEW req \in Request, reqQueue' = Append(reqQueue, req),
         UNCHANGED <<nl, swapReq, swapResp, wnl, respQueue>>
  PROVE  Reqs' = Append(Reqs, req) /\ Resps' = Resps
<1>1. wnl \o swapReq \in Seq(Request) /\ reqQueue \in Seq(Request)
  BY ConcatProperties DEF IInv, TypeOK
<1>. QED  BY <1>1, SplicedAppend DEF Reqs, Resps

\* The worker sends.
LEMMA ReportSteps ==
  ASSUME IInv, UNCHANGED <<nl, swapReq, swapResp, reqQueue>>
  PROVE  /\ wnl' = wnl => Reqs' = Reqs
         /\ respQueue' = respQueue => Resps' = Resps
         /\ \A e \in Response : respQueue' = Append(respQueue, e) => Resps' = Append(Resps, e)
         /\ \A s \in Seq(Response) : respQueue' = respQueue \o s => Resps' = Resps \o s
         /\ \A s \in Seq(Response), e \in Response :
              respQueue' = (respQueue \o s) \o <<e>> => Resps' = Append(Resps \o s, e)
<1>1. /\ nl \in Seq(Response) /\ swapResp \in Seq(Response) /\ respQueue \in Seq(Response)
      /\ nl \o swapResp \in Seq(Response)
  BY ConcatProperties DEF IInv, TypeOK
<1>2. ASSUME NEW s \in Seq(Response), NEW e \in Response,
             respQueue' = (respQueue \o s) \o <<e>>
      PROVE  Resps' = Append(Resps \o s, e)
  <2>1. <<e>> \in Seq(Response) /\ respQueue \o s \in Seq(Response) /\ Resps \o s \in Seq(Response)
    BY <1>1, ShortType, ConcatProperties DEF Resps
  <2>2. Resps' = (nl \o swapResp) \o ((respQueue \o s) \o <<e>>)
    BY <1>2 DEF Resps
  <2>3. Resps' = ((nl \o swapResp) \o (respQueue \o s)) \o <<e>>
    <3>. DEFINE a == nl \o swapResp
                b == respQueue \o s
    <3>1. a \in Seq(Response) /\ b \in Seq(Response)
      BY <1>1, <2>1
    <3>. HIDE DEF a, b
    <3>2. a \o (b \o <<e>>) = (a \o b) \o <<e>>
      BY <2>1, <3>1, ConcatAssociative
    <3>. QED  BY <2>2, <3>2 DEF a, b
  <2>4. Resps \o s = (nl \o swapResp) \o (respQueue \o s)
    BY <1>1, ConcatAssociative DEF Resps
  <2>. QED  BY <2>1, <2>3, <2>4, AppendIsConcat
<1>3. ASSUME NEW e \in Response, respQueue' = Append(respQueue, e)
      PROVE  Resps' = Append(Resps, e)
  BY <1>1, <1>3, SplicedAppend DEF Resps
<1>4. ASSUME NEW s \in Seq(Response), respQueue' = respQueue \o s
      PROVE  Resps' = Resps \o s
  <2>1. (nl \o swapResp) \o (respQueue \o s) = ((nl \o swapResp) \o respQueue) \o s
    BY <1>1, Spliced
  <2>. QED  BY <1>4, <2>1 DEF Resps
<1>. QED  BY <1>2, <1>3, <1>4 DEF Reqs, Resps

\* The worker handles the oldest request, the application the oldest response.
LEMMA TakeSteps ==
  ASSUME IInv
  PROVE  /\ wnl # <<>> /\ wnl' = Tail(wnl) /\ UNCHANGED <<swapReq, reqQueue>> =>
              Reqs # <<>> /\ Head(Reqs) = Head(wnl) /\ Reqs' = Tail(Reqs)
         /\ nl # <<>> /\ nl' = Tail(nl) /\ UNCHANGED <<swapResp, respQueue>> =>
              Resps # <<>> /\ Head(Resps) = Head(nl) /\ Resps' = Tail(Resps)
<1>1. /\ wnl \in Seq(Request) /\ swapReq \in Seq(Request) /\ reqQueue \in Seq(Request)
      /\ nl \in Seq(Response) /\ swapResp \in Seq(Response) /\ respQueue \in Seq(Response)
  BY DEF IInv, TypeOK
<1>2. ASSUME wnl # <<>>, wnl' = Tail(wnl), UNCHANGED <<swapReq, reqQueue>>
      PROVE  Reqs # <<>> /\ Head(Reqs) = Head(wnl) /\ Reqs' = Tail(Reqs)
  <2>1. wnl \o swapReq # <<>> /\ Head(wnl \o swapReq) = Head(wnl)
        /\ Tail(wnl \o swapReq) = Tail(wnl) \o swapReq /\ wnl \o swapReq \in Seq(Request)
    BY <1>1, <1>2, SplicedTail, ConcatProperties
  <2>. DEFINE s == wnl \o swapReq
  <2>2. Reqs # <<>> /\ Head(Reqs) = Head(wnl) /\ Tail(Reqs) = (Tail(wnl) \o swapReq) \o reqQueue
    <3>. HIDE DEF s
    <3>1. s \in Seq(Request) /\ s # <<>>
      BY <2>1 DEF s
    <3>2. s \o reqQueue # <<>> /\ Head(s \o reqQueue) = Head(s) /\ Tail(s \o reqQueue) = Tail(s) \o reqQueue
      BY <1>1, <3>1, SplicedTail
    <3>. QED  BY <2>1, <3>2 DEF s, Reqs
  <2>3. Reqs' = (Tail(wnl) \o swapReq) \o reqQueue
    BY <1>2 DEF Reqs
  <2>. QED  BY <2>2, <2>3
<1>3. ASSUME nl # <<>>, nl' = Tail(nl), UNCHANGED <<swapResp, respQueue>>
      PROVE  Resps # <<>> /\ Head(Resps) = Head(nl) /\ Resps' = Tail(Resps)
  <2>1. nl \o swapResp # <<>> /\ Head(nl \o swapResp) = Head(nl)
        /\ Tail(nl \o swapResp) = Tail(nl) \o swapResp /\ nl \o swapResp \in Seq(Response)
    BY <1>1, <1>3, SplicedTail, ConcatProperties
  <2>. DEFINE s == nl \o swapResp
  <2>2. Resps # <<>> /\ Head(Resps) = Head(nl) /\ Tail(Resps) = (Tail(nl) \o swapResp) \o respQueue
    <3>. HIDE DEF s
    <3>1. s \in Seq(Response) /\ s # <<>>
      BY <2>1 DEF s
    <3>2. s \o respQueue # <<>> /\ Head(s \o respQueue) = Head(s) /\ Tail(s \o respQueue) = Tail(s) \o respQueue
      BY <1>1, <3>1, SplicedTail
    <3>. QED  BY <2>1, <3>2 DEF s, Resps
  <2>3. Resps' = (Tail(nl) \o swapResp) \o respQueue
    BY <1>3 DEF Resps
  <2>. QED  BY <2>2, <2>3
<1>. QED  BY <1>2, <1>3

\* stop() leaves the responses that logic_resp has already taken.
LEMMA StopEndSteps ==
  ASSUME IInv, StopEnd
  PROVE  /\ Reqs' = <<>> /\ Resps' = nl /\ waiting' = {}
         /\ pend = {} /\ UNCHANGED <<pend, reqGen, seen>>
         /\ Resps = nl \o swapResp
<1>1. wnl = <<>> /\ respQueue = <<>> /\ pend = {}
  BY DEF StopEnd, IInv, Phases, Drained, Down
<1>2. nl \in Seq(Response) /\ swapResp \in Seq(Response)
  BY DEF IInv, TypeOK
<1>3. /\ reqQueue' = <<>> /\ swapReq' = <<>> /\ swapResp' = <<>> /\ nl' = nl
      /\ UNCHANGED <<wnl, respQueue, pend, reqGen, seen>> /\ waiting' = {}
  BY DEF StopEnd, QueuesCleared, workVars, netVars
<1>. QED  BY <1>1, <1>2, <1>3, Spliced, ConcatEmptySeq, ConcatProperties DEF Reqs, Resps

-----------------------------------------------------------------------------
(* Where a request is.                                                     *)

\* List s holds request id; list s holds no request twice.
Held(s, id) == \E i \in DOMAIN s : s[i].id = id
Single(s)   == \A i, j \in DOMAIN s : s[i].id = s[j].id /\ s[i].id # 0 => i = j

\* The reacter works on request id.
Working(id) == \E op \in pend : op[1] = id

\* A request is in one place, and a waiting one is somewhere.
Places ==
  /\ Single(Reqs) /\ Single(Resps)
  /\ \A p, q \in pend : p[1] = q[1] => p = q
  /\ \A id \in ReqIDs :
       /\ ~(Held(Reqs, id) /\ Held(Resps, id))
       /\ ~(Held(Reqs, id) /\ Working(id))
       /\ ~(Held(Resps, id) /\ Working(id))
       /\ id > reqGen => ~Held(Reqs, id) /\ ~Held(Resps, id) /\ ~Working(id)
       /\ id \in waiting => Held(Reqs, id) \/ Held(Resps, id) \/ Working(id)

LEMMA HeldAppend ==
  ASSUME NEW S, NEW s \in Seq(S), NEW x \in S
  PROVE  /\ \A id : Held(Append(s, x), id) <=> Held(s, id) \/ x.id = id
         /\ Single(s) /\ (x.id = 0 \/ ~Held(s, x.id)) => Single(Append(s, x))
<1>1. /\ DOMAIN s = 1 .. Len(s) /\ Len(s) \in Nat
      /\ DOMAIN Append(s, x) = 1 .. (Len(s) + 1)
      /\ \A i \in 1 .. Len(s) : Append(s, x)[i] = s[i]
      /\ Append(s, x)[Len(s) + 1] = x
  BY LenProperties, AppendProperties
<1>. DEFINE a == Append(s, x)
<1>. HIDE DEF a
<1>2. /\ DOMAIN s = 1 .. Len(s) /\ Len(s) \in Nat /\ DOMAIN a = 1 .. (Len(s) + 1)
      /\ \A i \in 1 .. Len(s) : a[i] = s[i]
      /\ a[Len(s) + 1] = x
  BY <1>1 DEF a
<1>3. \A i \in 1 .. (Len(s) + 1) : i \in 1 .. Len(s) \/ i = Len(s) + 1
  BY <1>2
<1>4. \A id : Held(a, id) <=> Held(s, id) \/ x.id = id
  BY <1>2, <1>3 DEF Held
<1>5. Single(s) /\ (x.id = 0 \/ ~Held(s, x.id)) => Single(a)
  BY <1>2, <1>3 DEF Held, Single
<1>. QED  BY <1>4, <1>5 DEF a

LEMMA HeldTail ==
  ASSUME NEW S, NEW s \in Seq(S), s # <<>>
  PROVE  /\ \A id : Held(s, id) <=> Head(s).id = id \/ Held(Tail(s), id)
         /\ Single(s) => Single(Tail(s)) /\ (Head(s).id # 0 => ~Held(Tail(s), Head(s).id))
<1>. DEFINE t == Tail(s)
<1>1. /\ DOMAIN s = 1 .. Len(s) /\ Len(s) \in Nat \ {0} /\ Head(s) = s[1]
      /\ DOMAIN t = 1 .. (Len(s) - 1)
      /\ \A i \in 1 .. (Len(s) - 1) : t[i] = s[i + 1]
  BY LenProperties, HeadTailProperties, EmptySeq
<1>. HIDE DEF t
<1>2. \A i \in 1 .. Len(s) : i = 1 \/ (i - 1 \in 1 .. (Len(s) - 1) /\ s[i] = t[i - 1])
  BY <1>1
<1>3. ASSUME NEW id PROVE Held(s, id) <=> Head(s).id = id \/ Held(t, id)
  <2>1. CASE Held(s, id)
    <3>1. PICK i \in 1 .. Len(s) : s[i].id = id
      BY <1>1, <2>1 DEF Held
    <3>. QED  BY <1>1, <1>2, <3>1 DEF Held
  <2>2. CASE Held(t, id)
    <3>1. PICK i \in 1 .. (Len(s) - 1) : t[i].id = id
      BY <1>1, <2>2 DEF Held
    <3>2. i + 1 \in 1 .. Len(s) /\ s[i + 1].id = id
      BY <1>1, <3>1
    <3>. QED  BY <1>1, <2>2, <3>2 DEF Held
  <2>3. Head(s).id = id => Held(s, id)
    BY <1>1 DEF Held
  <2>. QED  BY <2>1, <2>2, <2>3
<1>4. \A i \in 1 .. (Len(s) - 1) : i + 1 \in 1 .. Len(s) /\ t[i] = s[i + 1]
  BY <1>1
<1>5. Single(s) => Single(t)
  <2>. SUFFICES ASSUME Single(s), NEW i \in 1 .. (Len(s) - 1), NEW j \in 1 .. (Len(s) - 1),
                       t[i].id = t[j].id, t[i].id # 0
                PROVE  i = j
    BY <1>1 DEF Single
  <2>1. i + 1 = j + 1
    BY <1>1, <1>4 DEF Single
  <2>. QED  BY <1>1, <2>1
<1>6. Single(s) /\ Head(s).id # 0 => ~Held(t, Head(s).id)
  <2>. SUFFICES ASSUME Single(s), Head(s).id # 0, NEW i \in 1 .. (Len(s) - 1),
                       t[i].id = Head(s).id
                PROVE  FALSE
    BY <1>1 DEF Held
  <2>1. 1 \in 1 .. Len(s) /\ i + 1 \in 1 .. Len(s) /\ s[i + 1].id = s[1].id
    BY <1>1, <1>4
  <2>2. 1 = i + 1
    BY <1>1, <2>1 DEF Single
  <2>. QED  BY <2>2
<1>. QED  BY <1>3, <1>5, <1>6 DEF t

\* Link events are no requests.
LEMMA HeldReports ==
  ASSUME NEW S, NEW s \in Seq(S), NEW t \in Seq(S), \A i \in DOMAIN t : t[i].id = 0
  PROVE  /\ \A id : id # 0 => (Held(s \o t, id) <=> Held(s, id))
         /\ Single(s) => Single(s \o t)
<1>. DEFINE a == s \o t
<1>1. /\ DOMAIN s = 1 .. Len(s) /\ Len(s) \in Nat /\ DOMAIN t = 1 .. Len(t) /\ Len(t) \in Nat
      /\ DOMAIN a = 1 .. (Len(s) + Len(t))
      /\ \A i \in 1 .. (Len(s) + Len(t)) : a[i] = IF i <= Len(s) THEN s[i] ELSE t[i - Len(s)]
  BY LenProperties, ConcatProperties
<1>. HIDE DEF a
<1>2. \A i \in 1 .. Len(s) : i \in DOMAIN a /\ a[i] = s[i]
  BY <1>1
<1>3. \A i \in DOMAIN a : i \in 1 .. Len(s) \/ a[i].id = 0
  <2>. SUFFICES ASSUME NEW i \in 1 .. (Len(s) + Len(t)), ~(i <= Len(s)) PROVE a[i].id = 0
    BY <1>1
  <2>1. i - Len(s) \in 1 .. Len(t)
    BY <1>1
  <2>. QED  BY <1>1, <2>1
<1>. QED
  <2>1. \A id : id # 0 => (Held(a, id) <=> Held(s, id))
    BY <1>1, <1>2, <1>3 DEF Held
  <2>2. Single(s) => Single(a)
    BY <1>1, <1>2, <1>3 DEF Single
  <2>. QED  BY <2>1, <2>2 DEF a

LEMMA HeldPrefix ==
  ASSUME NEW S, NEW s \in Seq(S), NEW t \in Seq(S)
  PROVE  /\ \A id : Held(s, id) => Held(s \o t, id)
         /\ Single(s \o t) => Single(s)
<1>. DEFINE a == s \o t
<1>1. /\ DOMAIN s = 1 .. Len(s) /\ Len(s) \in Nat /\ Len(t) \in Nat
      /\ DOMAIN a = 1 .. (Len(s) + Len(t))
      /\ \A i \in 1 .. (Len(s) + Len(t)) : a[i] = IF i <= Len(s) THEN s[i] ELSE t[i - Len(s)]
  BY LenProperties, ConcatProperties
<1>. HIDE DEF a
<1>2. \A i \in DOMAIN s : i \in DOMAIN a /\ a[i] = s[i]
  BY <1>1
<1>3. \A id : Held(s, id) => Held(a, id)
  BY <1>2 DEF Held
<1>4. Single(a) => Single(s)
  BY <1>2 DEF Single
<1>. QED  BY <1>3, <1>4 DEF a

\* What opening a link reports are events, not answers.
LEMMA ReportsNoCalls ==
  ASSUME NEW l, NEW reports \in OpenReports(l)
  PROVE  \A i \in DOMAIN reports : reports[i].id = 0
BY DEF OpenReports, Event


\* Nothing moves between the threads, and no more requests wait.
LEMMA PlacesKept ==
  ASSUME Places, UNCHANGED <<Reqs, Resps, pend, reqGen>>, waiting' \subseteq waiting
  PROVE  Places'
BY DEF Places, Single, Held, Working

\* The next item of a list is taken by the application.
LEMMA PlacesTaken ==
  ASSUME IInv, Places, Resps # <<>>, Resps' = Tail(Resps), waiting' \subseteq waiting,
         Head(Resps).id \notin waiting',
         UNCHANGED <<Reqs, pend, reqGen>>
  PROVE  Places'
<1>1. Resps \in Seq(Response)
  BY Channels DEF IInv
<1>2. /\ \A id : Held(Resps, id) <=> Head(Resps).id = id \/ Held(Resps', id)
      /\ Single(Resps')
  BY <1>1, HeldTail DEF Places
<1>3. Single(Reqs)' /\ \A id : Held(Reqs, id)' <=> Held(Reqs, id)
  BY DEF Places, Single, Held
<1>4. \A id : Working(id)' <=> Working(id)
  BY DEF Working
<1>. QED
  <2>1. \A id \in ReqIDs : id \in waiting' => Held(Reqs, id)' \/ Held(Resps', id) \/ Working(id)'
    BY <1>2, <1>3, <1>4 DEF Places
  <2>. QED  BY <1>2, <1>3, <1>4, <2>1 DEF Places, Single, Held

\* The worker reports events of links.
LEMMA PlacesReported ==
  ASSUME IInv, Places, NEW s \in Seq(Response), \A i \in DOMAIN s : s[i].id = 0,
         Resps' = Resps \o s, UNCHANGED <<Reqs, pend, reqGen, waiting>>
  PROVE  Places'
<1>1. Resps \in Seq(Response)
  BY Channels DEF IInv
<1>2. /\ \A id : id # 0 => (Held(Resps', id) <=> Held(Resps, id))
      /\ Single(Resps')
  BY <1>1, HeldReports DEF Places
<1>3. \A id \in ReqIDs : id # 0
  BY DEF ReqIDs
<1>4. Single(Reqs)' /\ \A id : Held(Reqs, id)' <=> Held(Reqs, id)
  BY DEF Places, Single, Held
<1>5. \A id : Working(id)' <=> Working(id)
  BY DEF Working
<1>. QED  BY <1>2, <1>3, <1>4, <1>5 DEF Places, Single, Held

\* The reacter ends an operation: events of its link may precede the answer.
LEMMA PlacesAnswered ==
  ASSUME IInv, Places, NEW op \in pend, pend' = pend \ {op},
         NEW s \in Seq(Response), \A i \in DOMAIN s : s[i].id = 0,
         NEW e \in Response, e.id = op[1],
         Resps' = Append(Resps \o s, e), UNCHANGED <<Reqs, reqGen, waiting>>
  PROVE  Places'
<1>. DEFINE x == op[1]
<1>1. x \in ReqIDs /\ x # 0 /\ Working(x)
  BY DEF IInv, TypeOK, ReqIDs, Working
<1>2. Resps \in Seq(Response) /\ Resps \o s \in Seq(Response)
  BY Channels, ConcatProperties DEF IInv
<1>3. /\ \A id : id # 0 => (Held(Resps \o s, id) <=> Held(Resps, id))
      /\ Single(Resps \o s)
  BY <1>2, HeldReports DEF Places
<1>4. ~Held(Resps \o s, x)
  BY <1>1, <1>3 DEF Places
<1>5. /\ \A id : id # 0 => (Held(Resps', id) <=> Held(Resps, id) \/ id = x)
      /\ Single(Resps')
  BY <1>2, <1>3, <1>4, HeldAppend
<1>6. \A id : Working(id)' <=> Working(id) /\ id # x
  BY DEF Working, Places
<1>7. Single(Reqs)' /\ \A id : Held(Reqs, id)' <=> Held(Reqs, id)
  BY DEF Places, Single, Held
<1>8. \A id \in ReqIDs : id # 0
  BY DEF ReqIDs
<1>9. \A p, q \in pend' : p[1] = q[1] => p = q
  BY DEF Places
<1>10. ASSUME NEW id \in ReqIDs
       PROVE  /\ ~(Held(Reqs, id)' /\ Held(Resps', id))
              /\ ~(Held(Reqs, id)' /\ Working(id)')
              /\ ~(Held(Resps', id) /\ Working(id)')
              /\ id > reqGen' => ~Held(Reqs, id)' /\ ~Held(Resps', id) /\ ~Working(id)'
              /\ id \in waiting' => Held(Reqs, id)' \/ Held(Resps', id) \/ Working(id)'
  BY <1>1, <1>5, <1>6, <1>7, <1>8 DEF Places
<1>. QED  BY <1>5, <1>7, <1>9, <1>10 DEF Places, Single, Held

\* The worker takes a request.
LEMMA PlacesWorked == ASSUME IInv, Places, WorkItem PROVE Places'
<1>. DEFINE req == Head(wnl)
<1>1. /\ Reqs # <<>> /\ Head(Reqs) = req /\ Reqs' = Tail(Reqs)
      /\ UNCHANGED <<nl, swapReq, swapResp, reqQueue, reqGen, waiting>>
  BY TakeSteps DEF WorkItem, logicVars, sharedVars
<1>2. req \in Request /\ (req.type \in Calls => req.id \in ReqIDs)
  BY NextTaken, CallRequest DEF WorkItem, IInv
<1>3. req.type \notin Calls => req.id = 0
  BY <1>2 DEF Request
<1>4. Reqs \in Seq(Request) /\ Resps \in Seq(Response)
  BY Channels DEF IInv
<1>5. /\ \A id : Held(Reqs, id) <=> req.id = id \/ Held(Reqs', id)
      /\ Single(Reqs') /\ (req.id # 0 => ~Held(Reqs', req.id))
  BY <1>1, <1>4, HeldTail DEF Places
<1>6. \A id \in ReqIDs : id # 0
  BY DEF ReqIDs
<1>7. \/ OnNetListen(req) \/ OnNetAsync(req) \/ OnNetStopListen(req) \/ OnNetCloseLink(req)
      \/ OnNetSendMsg(req)
  BY DEF WorkItem
<1>. HIDE DEF req
<1>8. CASE OnNetListen(req)
  <2>1. Answer(req) \in Response /\ Answer(req).id = req.id /\ pend' = pend
    BY <1>2, <1>8, AnswerType DEF OnNetListen, IInv, Calls, Answer
  <2>2. Resps' = Append(Resps, Answer(req))
    BY <1>1, <1>8, <2>1, ReportSteps DEF OnNetListen
  <2>3. req.id \in ReqIDs /\ ~Held(Resps, req.id) /\ ~Working(req.id) /\ Held(Reqs, req.id)
    BY <1>2, <1>5, <1>8 DEF OnNetListen, Calls, Places
  <2>4. /\ \A id : Held(Resps', id) <=> Held(Resps, id) \/ id = req.id
        /\ Single(Resps')
    BY <1>4, <2>1, <2>2, <2>3, HeldAppend DEF Places
  <2>5. \A id : Working(id)' <=> Working(id)
    BY <2>1 DEF Working
  <2>6. ASSUME NEW id \in ReqIDs
        PROVE  /\ ~(Held(Reqs', id) /\ Held(Resps', id))
               /\ ~(Held(Reqs', id) /\ Working(id)')
               /\ ~(Held(Resps', id) /\ Working(id)')
               /\ id > reqGen' => ~Held(Reqs', id) /\ ~Held(Resps', id) /\ ~Working(id)'
               /\ id \in waiting' => Held(Reqs', id) \/ Held(Resps', id) \/ Working(id)'
    BY <1>1, <1>5, <1>6, <2>3, <2>4, <2>5 DEF Places
  <2>. QED  BY <1>5, <2>1, <2>4, <2>6 DEF Places, Single, Held
<1>9. CASE OnNetAsync(req)
  <2>1. pend' = pend \cup {<<req.id, req.type>>} /\ Resps' = Resps
    BY <1>1, <1>9, ReportSteps DEF OnNetAsync
  <2>2. req.id \in ReqIDs /\ ~Held(Resps, req.id) /\ ~Working(req.id) /\ Held(Reqs, req.id)
    BY <1>2, <1>5, <1>9 DEF OnNetAsync, Calls, Places
  <2>3. ASSUME NEW id PROVE Working(id)' <=> Working(id) \/ id = req.id
    <3>. DEFINE p == <<req.id, req.type>>
    <3>1. p[1] = req.id
      OBVIOUS
    <3>2. pend' = pend \cup {p}
      BY <2>1
    <3>. HIDE DEF p
    <3>. QED  BY <3>1, <3>2 DEF Working
  <2>4. \A p, q \in pend' : p[1] = q[1] => p = q
    BY <2>1, <2>2 DEF Places, Working
  <2>5. ASSUME NEW id \in ReqIDs
        PROVE  /\ ~(Held(Reqs', id) /\ Held(Resps', id))
               /\ ~(Held(Reqs', id) /\ Working(id)')
               /\ ~(Held(Resps', id) /\ Working(id)')
               /\ id > reqGen' => ~Held(Reqs', id) /\ ~Held(Resps', id) /\ ~Working(id)'
               /\ id \in waiting' => Held(Reqs', id) \/ Held(Resps', id) \/ Working(id)'
    BY <1>1, <1>5, <1>6, <2>1, <2>2, <2>3 DEF Places
  <2>. QED  BY <1>5, <2>1, <2>4, <2>5 DEF Places, Single, Held
<1>10. CASE OnNetStopListen(req) \/ OnNetCloseLink(req) \/ OnNetSendMsg(req)
  <2>1. pend' = pend /\ Resps' = Resps /\ req.id = 0
    BY <1>1, <1>3, <1>10, ReportSteps
       DEF OnNetStopListen, OnNetCloseLink, OnNetSendMsg, Calls, netVars
  <2>2. \A id : Working(id)' <=> Working(id)
    BY <2>1 DEF Working
  <2>3. ASSUME NEW id \in ReqIDs
        PROVE  /\ ~(Held(Reqs', id) /\ Held(Resps', id))
               /\ ~(Held(Reqs', id) /\ Working(id)')
               /\ ~(Held(Resps', id) /\ Working(id)')
               /\ id > reqGen' => ~Held(Reqs', id) /\ ~Held(Resps', id) /\ ~Working(id)'
               /\ id \in waiting' => Held(Reqs', id) \/ Held(Resps', id) \/ Working(id)'
    BY <1>1, <1>5, <1>6, <2>1, <2>2 DEF Places
  <2>. QED  BY <1>5, <2>1, <2>3 DEF Places, Single, Held
<1>. QED  BY <1>7, <1>8, <1>9, <1>10

\* The application sends a request.
LEMMA PlacesIssued == ASSUME IInv, Places, NEW call \in Calls, Issue(call) PROVE Places'
<1>. DEFINE x == reqGen + 1
            req == [id |-> x, type |-> call, link |-> NoLink]
<1>1. x \in ReqIDs /\ x > reqGen /\ reqGen \in Nat
  BY BoundsAssumption DEF Issue, IInv, TypeOK, ReqIDs
<1>2. req \in Request
  BY <1>1 DEF Request
<1>3. reqQueue' = Append(reqQueue, req) /\ UNCHANGED <<nl, swapReq, swapResp, wnl, respQueue>>
  BY DEF Issue, sharedVars, workVars
<1>4. /\ Reqs' = Append(Reqs, req) /\ Resps' = Resps /\ pend' = pend /\ reqGen' = x
      /\ waiting' = waiting \cup {x}
  BY <1>2, <1>3, SendSteps DEF Issue, workVars, netVars
<1>5. Reqs \in Seq(Request) /\ ~Held(Reqs, x) /\ ~Held(Resps, x) /\ ~Working(x)
  BY <1>1, Channels DEF IInv, Places
<1>6. \A id : Held(Reqs', id) <=> Held(Reqs, id) \/ id = x
  BY <1>2, <1>4, <1>5, HeldAppend
<1>7. Single(Reqs')
  BY <1>2, <1>4, <1>5, HeldAppend DEF Places
<1>8. \A id : Working(id)' <=> Working(id)
  BY <1>4 DEF Working
<1>9. \A id \in ReqIDs : id > x => id > reqGen /\ id # x
  BY <1>1 DEF ReqIDs
<1>. HIDE DEF x, req
<1>10. ASSUME NEW id \in ReqIDs
       PROVE  /\ ~(Held(Reqs', id) /\ Held(Resps', id))
              /\ ~(Held(Reqs', id) /\ Working(id)')
              /\ ~(Held(Resps', id) /\ Working(id)')
              /\ id > reqGen' => ~Held(Reqs', id) /\ ~Held(Resps', id) /\ ~Working(id)'
              /\ id \in waiting' => Held(Reqs', id) \/ Held(Resps', id) \/ Working(id)'
  BY <1>4, <1>5, <1>6, <1>8, <1>9 DEF Places
<1>. QED  BY <1>4, <1>7, <1>10 DEF Places, Single, Held

\* The application sends a request without an id.
LEMMA PlacesCast ==
  ASSUME IInv, Places, NEW type \in OneWays, NEW l \in LinkNames, IssueOneWay(type, l)
  PROVE  Places'
<1>. DEFINE req == [id |-> 0, type |-> type, link |-> l]
<1>1. req \in Request /\ req.id = 0
  BY DEF Request
<1>2. reqQueue' = Append(reqQueue, req) /\ UNCHANGED <<nl, swapReq, swapResp, wnl, respQueue>>
  BY DEF IssueOneWay, sharedVars, workVars
<1>. HIDE DEF req
<1>3. /\ Reqs' = Append(Reqs, req) /\ Resps' = Resps
      /\ UNCHANGED <<pend, reqGen, waiting>>
  BY <1>1, <1>2, SendSteps DEF IssueOneWay, workVars, netVars
<1>4. Reqs \in Seq(Request)
  BY Channels DEF IInv
<1>5. \A id \in ReqIDs : Held(Reqs', id) <=> Held(Reqs, id)
  BY <1>1, <1>3, <1>4, HeldAppend DEF ReqIDs
<1>6. Single(Reqs')
  BY <1>1, <1>3, <1>4, HeldAppend DEF Places
<1>7. \A id : Working(id)' <=> Working(id)
  BY <1>3 DEF Working
<1>8. ASSUME NEW id \in ReqIDs
      PROVE  /\ ~(Held(Reqs', id) /\ Held(Resps', id))
             /\ ~(Held(Reqs', id) /\ Working(id)')
             /\ ~(Held(Resps', id) /\ Working(id)')
             /\ id > reqGen' => ~Held(Reqs', id) /\ ~Held(Resps', id) /\ ~Working(id)'
             /\ id \in waiting' => Held(Reqs', id) \/ Held(Resps', id) \/ Working(id)'
  BY <1>3, <1>5, <1>7 DEF Places
<1>. QED  BY <1>3, <1>6, <1>8 DEF Places, Single, Held


\* Each step keeps Places.
LEMMA NextPlaces == IInv /\ Places /\ [Next]_vars => Places'
<1>. SUFFICES ASSUME IInv, Places, [Next]_vars PROVE Places'
  OBVIOUS
<1>. USE DEF logicVars, sharedVars, workVars, netVars, histVars
<1>1. CASE \/ UpdateBegin \/ AppReturns \/ LogicReq \/ Sweep \/ Start \/ StopBegin
           \/ WorkBegin \/ WorkInit \/ WorkReq \/ WorkUpdate \/ WorkResp \/ WorkRelease
           \/ WorkReleased \/ WorkExit \/ Tick \/ \E l \in Links : NetEnd(l)
  <2>1. waiting' \subseteq waiting
    BY <1>1 DEF UpdateBegin, AppReturns, LogicReq, Sweep, Start, StopBegin, WorkBegin, WorkInit,
                WorkReq, WorkUpdate, WorkResp, WorkRelease, WorkReleased, WorkExit, Tick, NetEnd
  <2>. QED  BY <1>1, <2>1, StillSteps, PlacesKept
<1>2. CASE DeliverEvent \/ DeliverAnswer
  <2>1. /\ nl # <<>> /\ nl' = Tail(nl)
        /\ UNCHANGED <<swapReq, reqQueue, wnl, swapResp, respQueue, pend, reqGen>>
    BY <1>2 DEF DeliverEvent, DeliverAnswer
  <2>2. Resps # <<>> /\ Head(Resps) = Head(nl) /\ Resps' = Tail(Resps) /\ Reqs' = Reqs
    BY <2>1, TakeSteps DEF Reqs
  <2>3. waiting' \subseteq waiting /\ Head(nl).id \notin waiting'
    BY <1>2 DEF DeliverEvent, DeliverAnswer, ForgetWaiting, IInv, TypeOK, ReqIDs
  <2>. QED  BY <2>1, <2>2, <2>3, PlacesTaken
<1>3. CASE StopEnd
  <2>1. /\ Reqs' = <<>> /\ Resps' = nl /\ waiting' = {} /\ pend = {} /\ pend' = pend
        /\ reqGen' = reqGen /\ Resps = nl \o swapResp
    BY <1>3, StopEndSteps
  <2>2. nl \in Seq(Response) /\ swapResp \in Seq(Response)
    BY DEF IInv, TypeOK
  <2>3. Single(nl) /\ \A id : Held(nl, id) => Held(Resps, id)
    BY <2>1, <2>2, HeldPrefix DEF Places
  <2>4. Single(<<>>) /\ (\A id : ~Held(<<>>, id)) /\ \A id : ~Working(id)' /\ ~Working(id)
    BY <2>1 DEF Single, Held, Working
  <2>. QED  BY <2>1, <2>3, <2>4 DEF Places, Single, Held
<1>4. CASE WorkItem
  BY <1>4, PlacesWorked
<1>5. ASSUME NEW call \in Calls, Issue(call) PROVE Places'
  BY <1>5, PlacesIssued
<1>6. ASSUME NEW type \in OneWays, NEW l \in LinkNames, IssueOneWay(type, l) PROVE Places'
  BY <1>6, PlacesCast
<1>7. ASSUME NEW op \in pend, \/ NetFinish(op)
                              \/ \E l \in Links : NetConnectFailed(op, l) \/ NetConnected(op, l)
      PROVE  Places'
  <2>. DEFINE e == Answer([id |-> op[1], type |-> op[2]])
  <2>1. e \in Response /\ e.id = op[1]
    BY PendType DEF IInv, Answer
  <2>. HIDE DEF e
  <2>2. /\ UNCHANGED <<nl, swapReq, swapResp, reqQueue, wnl, reqGen, waiting>>
        /\ pend' = pend \ {op}
    BY <1>7 DEF NetFinish, NetConnectFailed, NetConnected
  <2>3. PICK s \in Seq(Response) : /\ \A i \in DOMAIN s : s[i].id = 0
                                   /\ Resps' = Append(Resps \o s, e)
    <3>1. CASE respQueue' = Append(respQueue, e)
      <4>1. Resps' = Append(Resps, e) /\ Resps \in Seq(Response)
        BY <2>1, <2>2, <3>1, ReportSteps, Channels DEF IInv
      <4>2. Resps \o <<>> = Resps /\ <<>> \in Seq(Response) /\ DOMAIN <<>> = {}
        BY <4>1, ConcatEmptySeq, EmptySeq
      <4>3. Resps' = Append(Resps \o <<>>, e) /\ \A i \in DOMAIN <<>> : <<>>[i].id = 0
        BY <4>1, <4>2
      <4>. QED  BY <4>2, <4>3
    <3>2. ASSUME NEW l \in Links, NetConnected(op, l)
          PROVE  \E s \in Seq(Response) : /\ \A i \in DOMAIN s : s[i].id = 0
                                          /\ Resps' = Append(Resps \o s, e)
      <4>1. PICK reports \in OpenReports(l) : respQueue' = (respQueue \o reports) \o <<e>>
        BY <3>2 DEF NetConnected, e
      <4>2. reports \in Seq(Response) /\ \A i \in DOMAIN reports : reports[i].id = 0
        BY ReportsType, ReportsNoCalls DEF IInv
      <4>. QED  BY <2>1, <2>2, <4>1, <4>2, ReportSteps
    <3>. QED  BY <1>7, <3>1, <3>2 DEF NetFinish, NetConnectFailed, e
  <2>4. Reqs' = Reqs
    BY <2>2 DEF Reqs
  <2>. QED  BY <2>1, <2>2, <2>3, <2>4, PlacesAnswered
<1>8. ASSUME NEW l \in Links, NetAccept(l) \/ NetStart(l) \/ NetMsg(l) \/ NetClosed(l)
      PROVE  Places'
  <2>1. UNCHANGED <<nl, swapReq, swapResp, reqQueue, wnl, reqGen, waiting, pend>>
    BY <1>8 DEF NetAccept, NetStart, NetMsg, NetClosed
  <2>2. PICK s \in Seq(Response) : (\A i \in DOMAIN s : s[i].id = 0) /\ Resps' = Resps \o s
    <3>1. ASSUME NEW type \in Events, respQueue' = Append(respQueue, Event(type, l))
          PROVE  \E s \in Seq(Response) : (\A i \in DOMAIN s : s[i].id = 0) /\ Resps' = Resps \o s
      <4>. DEFINE s == <<Event(type, l)>>
      <4>1. Event(type, l) \in Response /\ Event(type, l).id = 0
        BY EventType DEF IInv, Event
      <4>2. s \in Seq(Response) /\ \A i \in DOMAIN s : s[i].id = 0
        BY <4>1
      <4>3. Resps' = Append(Resps, Event(type, l)) /\ Resps \in Seq(Response)
        BY <2>1, <3>1, <4>1, ReportSteps, Channels DEF IInv
      <4>4. Resps' = Resps \o s
        BY <4>1, <4>3, AppendIsConcat
      <4>. QED  BY <4>2, <4>4
    <3>2. ASSUME NetAccept(l)
          PROVE  \E s \in Seq(Response) : (\A i \in DOMAIN s : s[i].id = 0) /\ Resps' = Resps \o s
      <4>1. PICK reports \in OpenReports(l) : respQueue' = respQueue \o reports
        BY <3>2 DEF NetAccept
      <4>2. reports \in Seq(Response) /\ \A i \in DOMAIN reports : reports[i].id = 0
        BY ReportsType, ReportsNoCalls DEF IInv
      <4>. QED  BY <2>1, <4>1, <4>2, ReportSteps
    <3>. QED  BY <1>8, <3>1, <3>2 DEF NetStart, NetMsg, NetClosed, Events
  <2>3. Reqs' = Reqs
    BY <2>1 DEF Reqs
  <2>. QED  BY <2>1, <2>2, <2>3, PlacesReported
<1>9. CASE UNCHANGED vars
  <2>1. UNCHANGED <<Reqs, Resps, pend, reqGen>> /\ waiting' = waiting
    BY <1>9 DEF vars, Reqs, Resps
  <2>. QED  BY <2>1, PlacesKept
<1>. QED  BY <1>1, <1>2, <1>3, <1>4, <1>5, <1>6, <1>7, <1>8, <1>9
            DEF Next, Logic, App, Worker, Net

\* How often a list that holds no request twice holds one.
LEMMA CountOnce ==
  ASSUME NEW S, NEW s \in Seq(S), Single(s), NEW id, id # 0
  PROVE  Cardinality({i \in DOMAIN s : s[i].id = id}) = IF Held(s, id) THEN 1 ELSE 0
<1>1. CASE Held(s, id)
  <2>1. PICK i \in DOMAIN s : s[i].id = id
    BY <1>1 DEF Held
  <2>2. {j \in DOMAIN s : s[j].id = id} = {i}
    BY <2>1 DEF Single
  <2>. QED  BY <1>1, <2>2, FS_Singleton
<1>2. CASE ~Held(s, id)
  <2>1. {j \in DOMAIN s : s[j].id = id} = {}
    BY <1>2 DEF Held
  <2>. QED  BY <1>2, <2>1, FS_EmptySet
<1>. QED  BY <1>1, <1>2

LEMMA InitPlaces == Init => Places
<1>. SUFFICES ASSUME Init PROVE Places
  OBVIOUS
<1>1. Reqs = <<>> /\ Resps = <<>>
  BY Spliced DEF Init, Reqs, Resps
<1>2. Single(<<>>) /\ (\A id : ~Held(<<>>, id)) /\ \A id : ~Working(id)
  BY DEF Init, Single, Held, Working
<1>. QED  BY <1>1, <1>2 DEF Init, Places

LEMMA AlwaysPlaces == Spec => [](IInv /\ Places)
<1>1. IInv /\ [Next]_vars => IInv'
  BY NextTypeOK, NextPhases, NextDrained, NextRequests, NextSessions DEF IInv
<1>. QED  BY InitIInv, InitPlaces, NextPlaces, <1>1, PTL DEF Spec

\* A request whose callback is registered is in exactly one list or in the reacter,
\* and none is in two: the bridge neither loses nor doubles one, through any
\* number of restarts.
THEOREM NeverLost == Spec => []NoLostRequest
<1>1. IInv /\ Places => NoLostRequest
  <2>. SUFFICES ASSUME IInv, Places, NEW id \in ReqIDs
                PROVE  Copies(id) <= 1 /\ (id \in waiting => Copies(id) = 1)
    BY DEF NoLostRequest
  <2>1. id # 0 /\ Reqs \in Seq(Request) /\ Resps \in Seq(Response)
    BY Channels DEF ReqIDs, IInv
  <2>2. Cardinality({i \in DOMAIN Reqs : Reqs[i].id = id}) = IF Held(Reqs, id) THEN 1 ELSE 0
    BY <2>1, CountOnce DEF Places
  <2>3. Cardinality({i \in DOMAIN Resps : Resps[i].id = id}) = IF Held(Resps, id) THEN 1 ELSE 0
    BY <2>1, CountOnce DEF Places
  <2>4. Cardinality({op \in pend : op[1] = id}) = IF Working(id) THEN 1 ELSE 0
    <3>1. CASE Working(id)
      <4>1. PICK op \in pend : op[1] = id
        BY <3>1 DEF Working
      <4>2. {p \in pend : p[1] = id} = {op}
        BY <4>1 DEF Places
      <4>. QED  BY <3>1, <4>2, FS_Singleton
    <3>2. CASE ~Working(id)
      <4>1. {p \in pend : p[1] = id} = {}
        BY <3>2 DEF Working
      <4>. QED  BY <3>2, <4>1, FS_EmptySet
    <3>. QED  BY <3>1, <3>2
  <2>. QED  BY <2>2, <2>3, <2>4 DEF Copies, Places
<1>. QED  BY <1>1, AlwaysPlaces, PTL

-----------------------------------------------------------------------------
(* The bridge implements AsyncCall.                                        *)

LEMMA PrefixOfConcat ==
  ASSUME NEW S, NEW s \in Seq(S), NEW t \in Seq(S)
  PROVE  IsPrefix(s, s \o t)
<1>1. /\ Len(s) \in Nat /\ Len(t) \in Nat /\ Len(s \o t) = Len(s) + Len(t) /\ s \o t \in Seq(S)
      /\ \A i \in 1 .. Len(s) + Len(t) : (s \o t)[i] = IF i <= Len(s) THEN s[i] ELSE t[i - Len(s)]
  BY ConcatProperties, LenProperties
<1>2. \A i \in 1 .. Len(s) : s[i] \in S /\ (s \o t)[i] = s[i]
  BY <1>1, ElementOfSeq
<1>3. /\ SubSeq(s, 1, Len(s)) \in Seq(S) /\ Len(SubSeq(s, 1, Len(s))) = Len(s)
      /\ \A i \in 1 .. Len(s) : SubSeq(s, 1, Len(s))[i] = s[i]
  BY SubSeqFull
<1>4. /\ SubSeq(s \o t, 1, Len(s)) \in Seq(S)
      /\ Len(SubSeq(s \o t, 1, Len(s))) = Len(s)
      /\ \A i \in 1 .. Len(s) : SubSeq(s \o t, 1, Len(s))[i] = s[i]
  <2>. DEFINE a == s \o t
              n == Len(s)
  <2>1. n \in Nat /\ \A i \in 1 .. n : a[i] \in S /\ a[i] = s[i]
    BY <1>1, <1>2
  <2>. HIDE DEF a, n
  <2>2. 1 \in Int /\ n \in Int /\ (1 <= n => n - 1 + 1 = n) /\ (~(1 <= n) => n = 0)
    BY <2>1
  <2>3. /\ SubSeq(a, 1, n) \in Seq(S)
        /\ Len(SubSeq(a, 1, n)) = IF 1 <= n THEN n - 1 + 1 ELSE 0
        /\ \A i \in 1 .. n - 1 + 1 : SubSeq(a, 1, n)[i] = a[1 + i - 1]
    BY <2>1, <2>2, SubSeqProperties
  <2>4. \A i \in 1 .. n : i \in 1 .. n - 1 + 1 /\ 1 + i - 1 = i
    BY <2>1
  <2>. QED  BY <2>1, <2>2, <2>3, <2>4 DEF a, n
<1>5. SubSeq(s, 1, Len(s)) = SubSeq(s \o t, 1, Len(s))
  BY <1>3, <1>4, SeqEqual
<1>. QED  BY <1>1, <1>5 DEF IsPrefix

\* Adding one item at the end.
LEMMA PrefixOfAppend ==
  ASSUME NEW S, NEW s \in Seq(S), NEW x \in S
  PROVE  /\ Len(Append(s, x)) = Len(s) + 1 /\ Last(Append(s, x)) = x
         /\ IsPrefix(s, Append(s, x)) /\ Append(s, x) # s
<1>1. Append(s, x) = s \o <<x>> /\ <<x>> \in Seq(S)
  BY AppendIsConcat, ShortType
<1>2. IsPrefix(s, Append(s, x))
  BY <1>1, PrefixOfConcat
<1>3. Len(Append(s, x)) = Len(s) + 1 /\ Append(s, x)[Len(s) + 1] = x /\ Len(s) \in Nat
  BY AppendProperties, LenProperties
<1>. QED  BY <1>2, <1>3 DEF Last

LEMMA PrefixOfSelf ==
  ASSUME NEW s
  PROVE  IsPrefix(s, s) <=> Len(s) <= Len(s)
BY DEF IsPrefix

\* AsyncCall's operators on sequences are those of this module.
LEMMA SameOperators ==
  /\ \A s, t : Bridge!IsPrefix(s, t) <=> IsPrefix(s, t)
  /\ \A s : Bridge!Last(s) = Last(s)
BY DEF Bridge!IsPrefix, IsPrefix, Bridge!Last, Last

\* What waits for AsyncCall is what mReqWaiting holds.
LEMMA WaitingAgrees == ASSUME IInv PROVE Bridge!Waiting = waiting
BY DEF Bridge!Waiting, IInv, Requests, TypeOK

\* The channels of an idle bridge.
LEMMA InitBridge == Init => Bridge!Init
<1>. SUFFICES ASSUME Init PROVE Bridge!Init
  OBVIOUS
<1>1. Reqs = <<>> /\ Resps = <<>>
  BY Spliced DEF Init, Reqs, Resps
<1>. QED  BY <1>1 DEF Init, Bridge!Init

\* Each step is a step of AsyncCall or is invisible to it.
LEMMA NextBridge == IInv /\ [Next]_vars => [Bridge!Next]_(Bridge!vars)
<1>. SUFFICES ASSUME IInv, [Next]_vars PROVE Bridge!Next \/ UNCHANGED <<outcome, Reqs, Resps>>
  BY DEF Bridge!vars
<1>. USE DEF logicVars, sharedVars, workVars, netVars, histVars
<1>0. Reqs \in Seq(Request) /\ Resps \in Seq(Response) /\ Len(Reqs) \in Nat /\ Len(Resps) \in Nat
  BY Channels, LenProperties DEF IInv
<1>1. CASE \/ UpdateBegin \/ AppReturns \/ LogicReq \/ Start \/ StopBegin
           \/ WorkBegin \/ WorkInit \/ WorkReq \/ WorkUpdate \/ WorkResp \/ WorkRelease
           \/ WorkReleased \/ WorkExit \/ Tick \/ \E l \in Links : NetEnd(l)
  <2>1. outcome' = outcome
    BY <1>1 DEF UpdateBegin, AppReturns, LogicReq, Start, StopBegin, WorkBegin, WorkInit,
                WorkReq, WorkUpdate, WorkResp, WorkRelease, WorkReleased, WorkExit, Tick, NetEnd
  <2>. QED  BY <1>1, <2>1, StillSteps
<1>2. CASE Sweep
  <2>1. UNCHANGED <<Reqs, Resps>>
    BY <1>2, StillSteps
  <2>2. outcome' = [id \in ReqIDs |-> IF id \in Swept THEN "timeout" ELSE outcome[id]]
    BY <1>2 DEF Sweep
  <2>3. CASE Swept = {}
    <3>1. outcome' = outcome
      BY <2>2, <2>3 DEF IInv, TypeOK
    <3>. QED  BY <2>1, <3>1
  <2>4. CASE Swept # {}
    <3>1. Swept \in (SUBSET Bridge!Waiting) \ {{}}
      BY <2>4, WaitingAgrees DEF Swept
    <3>2. Bridge!Expire
      BY <2>1, <2>2, <3>1 DEF Bridge!Expire
    <3>. QED  BY <3>2 DEF Bridge!Next
  <2>. QED  BY <2>3, <2>4
<1>3. CASE DeliverEvent \/ DeliverAnswer
  <2>1. /\ nl # <<>> /\ nl' = Tail(nl)
        /\ UNCHANGED <<swapReq, reqQueue, wnl, swapResp, respQueue>>
    BY <1>3 DEF DeliverEvent, DeliverAnswer
  <2>2. Resps # <<>> /\ Head(Resps) = Head(nl) /\ Resps' = Tail(Resps) /\ Reqs' = Reqs
    BY <2>1, TakeSteps DEF Reqs
  <2>3. outcome' = IF Head(nl).id \in waiting
                     THEN [outcome EXCEPT ![Head(nl).id] = "answered"] ELSE outcome
    BY <1>3 DEF DeliverEvent, DeliverAnswer, IInv, TypeOK, ReqIDs
  <2>4. Bridge!Take
    BY <2>2, <2>3, WaitingAgrees DEF Bridge!Take
  <2>. QED  BY <2>4 DEF Bridge!Next
<1>4. CASE StopEnd
  <2>1. Reqs' = <<>> /\ Resps' = nl /\ Resps = nl \o swapResp
    BY <1>4, StopEndSteps
  <2>2. IsPrefix(Resps', Resps)
    BY <2>1, PrefixOfConcat DEF IInv, TypeOK
  <2>3. outcome' = [id \in ReqIDs |-> IF id \in Bridge!Waiting THEN "dropped" ELSE outcome[id]]
    BY <1>4, WaitingAgrees DEF StopEnd
  <2>4. Bridge!Shutdown
    BY <2>1, <2>2, <2>3, SameOperators DEF Bridge!Shutdown
  <2>. QED  BY <2>4 DEF Bridge!Next
<1>5. CASE WorkItem
  <2>. DEFINE req == Head(wnl)
  <2>1. /\ Reqs # <<>> /\ Reqs' = Tail(Reqs) /\ outcome' = outcome
        /\ UNCHANGED <<nl, swapReq, swapResp, reqQueue>>
    BY <1>5, TakeSteps DEF WorkItem
  <2>2. req \in Request /\ (req.type \in Calls => req.id \in ReqIDs)
    BY <1>5, NextTaken, CallRequest DEF WorkItem, IInv
  <2>3. respQueue' = respQueue \/ (req.type = "Listen" /\ respQueue' = Append(respQueue, Answer(req)))
    BY <1>5 DEF WorkItem, OnNetListen, OnNetAsync, OnNetStopListen, OnNetCloseLink, OnNetSendMsg
  <2>. HIDE DEF req
  <2>4. IsPrefix(Resps, Resps')
    <3>1. CASE respQueue' = respQueue
      BY <1>0, <2>1, <3>1, ReportSteps, PrefixOfSelf
    <3>2. CASE req.type = "Listen" /\ respQueue' = Append(respQueue, Answer(req))
      <4>1. Answer(req) \in Response
        BY <2>2, <3>2, AnswerType DEF Calls, IInv
      <4>2. Resps' = Append(Resps, Answer(req))
        BY <2>1, <3>2, <4>1, ReportSteps
      <4>. QED  BY <1>0, <4>1, <4>2, PrefixOfAppend
    <3>. QED  BY <2>3, <3>1, <3>2
  <2>5. Bridge!Handle
    BY <2>1, <2>4, SameOperators DEF Bridge!Handle
  <2>. QED  BY <2>5 DEF Bridge!Next
<1>6. ASSUME NEW call \in Calls, Issue(call) PROVE Bridge!Next
  <2>. DEFINE x == reqGen + 1
              req == [id |-> x, type |-> call, link |-> NoLink]
  <2>1. x \in ReqIDs /\ x > reqGen
    BY <1>6, BoundsAssumption DEF Issue, IInv, TypeOK, ReqIDs
  <2>2. req \in Request
    BY <2>1 DEF Request
  <2>3. reqQueue' = Append(reqQueue, req) /\ UNCHANGED <<nl, swapReq, swapResp, wnl, respQueue>>
        /\ outcome' = [outcome EXCEPT ![x] = "waiting"]
    BY <1>6 DEF Issue
  <2>4. Reqs' = Append(Reqs, req) /\ Resps' = Resps
    BY <2>2, <2>3, SendSteps
  <2>5. outcome[x] = "unused"
    BY <2>1 DEF IInv, Requests
  <2>6. req.id = x
    OBVIOUS
  <2>. HIDE DEF req
  <2>7. Len(Reqs') = Len(Reqs) + 1 /\ IsPrefix(Reqs, Reqs') /\ Last(Reqs').id = x
    BY <1>0, <2>2, <2>4, <2>6, PrefixOfAppend
  <2>8. Bridge!Call(x)
    BY <2>3, <2>4, <2>5, <2>7, SameOperators DEF Bridge!Call
  <2>. QED  BY <2>1, <2>8 DEF Bridge!Next
<1>7. ASSUME NEW type \in OneWays, NEW l \in LinkNames, IssueOneWay(type, l) PROVE Bridge!Next
  <2>. DEFINE req == [id |-> 0, type |-> type, link |-> l]
  <2>1. req \in Request /\ req.id = 0
    BY DEF Request
  <2>2. reqQueue' = Append(reqQueue, req) /\ UNCHANGED <<nl, swapReq, swapResp, wnl, respQueue>>
        /\ outcome' = outcome
    BY <1>7 DEF IssueOneWay
  <2>. HIDE DEF req
  <2>3. Reqs' = Append(Reqs, req) /\ Resps' = Resps
    BY <2>1, <2>2, SendSteps
  <2>4. Len(Reqs') = Len(Reqs) + 1 /\ IsPrefix(Reqs, Reqs') /\ Last(Reqs').id = 0
    BY <1>0, <2>1, <2>3, PrefixOfAppend
  <2>5. Bridge!Cast
    BY <2>2, <2>3, <2>4, SameOperators DEF Bridge!Cast
  <2>. QED  BY <2>5 DEF Bridge!Next
<1>8. ASSUME UNCHANGED <<outcome, nl, swapReq, swapResp, reqQueue, wnl>>, Resps' = Resps \/ IsPrefix(Resps, Resps')
      PROVE  Bridge!Next \/ UNCHANGED <<outcome, Reqs, Resps>>
  <2>1. Reqs' = Reqs
    BY <1>8 DEF Reqs
  <2>. QED  BY <1>8, <2>1, SameOperators DEF Bridge!Next, Bridge!Respond
<1>9. ASSUME NEW op \in pend, \/ NetFinish(op)
                              \/ \E l \in Links : NetConnectFailed(op, l) \/ NetConnected(op, l)
      PROVE  Bridge!Next \/ UNCHANGED <<outcome, Reqs, Resps>>
  <2>. DEFINE e == Answer([id |-> op[1], type |-> op[2]])
  <2>1. e \in Response
    BY PendType DEF IInv
  <2>. HIDE DEF e
  <2>2. UNCHANGED <<outcome, nl, swapReq, swapResp, reqQueue, wnl>>
    BY <1>9 DEF NetFinish, NetConnectFailed, NetConnected
  <2>3. CASE respQueue' = Append(respQueue, e)
    <3>1. Resps' = Append(Resps, e)
      BY <2>1, <2>2, <2>3, ReportSteps
    <3>. QED  BY <1>0, <1>8, <2>1, <2>2, <3>1, PrefixOfAppend
  <2>4. ASSUME NEW l \in Links, NetConnected(op, l)
        PROVE  Bridge!Next \/ UNCHANGED <<outcome, Reqs, Resps>>
    <3>1. PICK reports \in OpenReports(l) : respQueue' = (respQueue \o reports) \o <<e>>
      BY <2>4 DEF NetConnected, e
    <3>2. reports \in Seq(Response) /\ <<e>> \in Seq(Response) /\ respQueue \in Seq(Response)
      BY <2>1, ReportsType, ShortType DEF IInv, TypeOK
    <3>3. respQueue' = respQueue \o (reports \o <<e>>) /\ reports \o <<e>> \in Seq(Response)
      BY <3>1, <3>2, ConcatAssociative, ConcatProperties
    <3>4. Resps' = Resps \o (reports \o <<e>>)
      BY <2>2, <3>3, ReportSteps
    <3>. QED  BY <1>0, <1>8, <2>2, <3>3, <3>4, PrefixOfConcat
  <2>. QED  BY <1>9, <2>3, <2>4 DEF NetFinish, NetConnectFailed, e
<1>10. ASSUME NEW l \in Links, NetAccept(l) \/ NetStart(l) \/ NetMsg(l) \/ NetClosed(l)
       PROVE  Bridge!Next \/ UNCHANGED <<outcome, Reqs, Resps>>
  <2>1. UNCHANGED <<outcome, nl, swapReq, swapResp, reqQueue, wnl>>
    BY <1>10 DEF NetAccept, NetStart, NetMsg, NetClosed
  <2>2. ASSUME NEW type \in Events, respQueue' = Append(respQueue, Event(type, l))
        PROVE  IsPrefix(Resps, Resps')
    <3>1. Event(type, l) \in Response
      BY EventType DEF IInv
    <3>2. Resps' = Append(Resps, Event(type, l))
      BY <2>1, <2>2, <3>1, ReportSteps
    <3>. QED  BY <1>0, <3>1, <3>2, PrefixOfAppend
  <2>3. ASSUME NetAccept(l)
        PROVE  IsPrefix(Resps, Resps')
    <3>1. PICK reports \in OpenReports(l) : respQueue' = respQueue \o reports
      BY <2>3 DEF NetAccept
    <3>2. reports \in Seq(Response)
      BY ReportsType DEF IInv
    <3>3. Resps' = Resps \o reports
      BY <2>1, <3>1, <3>2, ReportSteps
    <3>. QED  BY <1>0, <3>2, <3>3, PrefixOfConcat
  <2>. QED  BY <1>8, <1>10, <2>1, <2>2, <2>3 DEF NetStart, NetMsg, NetClosed, Events
<1>11. CASE UNCHANGED vars
  BY <1>11 DEF vars, Reqs, Resps
<1>. QED  BY <1>1, <1>2, <1>3, <1>4, <1>5, <1>6, <1>7, <1>9, <1>10, <1>11
            DEF Next, Logic, App, Worker, Net

\* The two threads with their five lists and two mutexes behave like a caller and
\* a worker joined by two first-in first-out channels.
THEOREM BridgeImplements == Spec => BridgeSpec
BY InitBridge, NextBridge, AlwaysIInv, PTL DEF Spec, BridgeSpec, Bridge!Spec

-----------------------------------------------------------------------------
(* The order of a link's events.                                           *)

\* The events of link l in list s, in a legal order after event d.
OfLink(s, l)     == {i \in DOMAIN s : s[i].id = 0 /\ s[i].link = l}
Orderly(s, l, d) ==
  \A i \in OfLink(s, l) :
    /\ (\A j \in OfLink(s, l) : j >= i) => <<d, s[i].type>> \in EventAfter
    /\ \A j \in OfLink(s, l) : j < i /\ (\A k \in OfLink(s, l) : k <= j \/ k >= i) =>
                                 <<s[j].type, s[i].type>> \in EventAfter

\* The last event of link l, in list s or else d, is one of T.
EndsIn(s, l, d, T) ==
  /\ OfLink(s, l) = {} => d \in T
  /\ \A i \in OfLink(s, l) : (\A j \in OfLink(s, l) : j <= i) => s[i].type \in T

\* What has been reported of a link in state st.
LastOf(st) ==
  CASE st = "none"    -> {"none"}
    [] st = "open"    -> {"none", "Open"}
    [] st = "start"   -> {"Start", "Msg"}
    [] st = "closing" -> {"none", "Open", "Start", "Msg"}
    [] OTHER          -> {"none", "Open", "Start", "Msg", "Close"}

\* Link l is in state st, the application (if it listens: b) has seen d, and the
\* rest is on its way in list s.
Live(b, s, l, d, st) ==
  /\ b => Orderly(s, l, d) /\ EndsIn(s, l, d, LastOf(st))
  /\ st = "none" => d = "none" /\ OfLink(s, l) = {}

Lives == \A l \in Links : Live(bound, Resps, l, seen[l], link[l])

\* An event of the link follows.
LEMMA LiveEvent ==
  ASSUME NEW S, NEW s \in Seq(S), NEW x \in S, NEW b, NEW l, NEW d, NEW st, NEW st2,
         Live(b, s, l, d, st), x.id = 0, x.link = l, st2 # "none", x.type \in LastOf(st2),
         \A t \in LastOf(st) : <<t, x.type>> \in EventAfter
  PROVE  Live(b, Append(s, x), l, d, st2)
<1>. DEFINE a == Append(s, x)
            n == Len(s) + 1
<1>1. /\ DOMAIN s = 1 .. Len(s) /\ Len(s) \in Nat /\ DOMAIN a = 1 .. n
      /\ \A i \in 1 .. Len(s) : a[i] = s[i] /\ i < n
      /\ a[n] = x /\ n \in Nat
  BY LenProperties, AppendProperties
<1>. HIDE DEF a, n
<1>2. \A i \in 1 .. n : i \in 1 .. Len(s) \/ i = n
  BY <1>1 DEF n
<1>3. OfLink(a, l) = OfLink(s, l) \cup {n} /\ n \notin OfLink(s, l)
  BY <1>1, <1>2 DEF OfLink, n
<1>4. \A i \in OfLink(s, l) : i \in Nat /\ i < n /\ a[i] = s[i]
  BY <1>1 DEF OfLink
<1>5. CASE b
  <2>1. Orderly(s, l, d) /\ EndsIn(s, l, d, LastOf(st))
    BY <1>5 DEF Live
  <2>2. ASSUME NEW i \in OfLink(a, l), \A j \in OfLink(a, l) : j >= i
        PROVE  <<d, a[i].type>> \in EventAfter
    <3>1. CASE i = n
      <4>1. OfLink(s, l) = {}
        <5>1. SUFFICES ASSUME NEW j \in OfLink(s, l) PROVE FALSE
          OBVIOUS
        <5>2. j \in OfLink(a, l) /\ j \in Nat /\ j < n /\ n \in Nat
          BY <1>1, <1>3, <1>4
        <5>3. j >= n
          BY <2>2, <3>1, <5>2
        <5>. QED  BY <5>2, <5>3
      <4>. QED  BY <1>1, <2>1, <3>1, <4>1 DEF EndsIn
    <3>2. CASE i \in OfLink(s, l)
      BY <1>3, <1>4, <2>1, <2>2, <3>2 DEF Orderly
    <3>. QED  BY <1>3, <3>1, <3>2
  <2>3. ASSUME NEW i \in OfLink(a, l), NEW j \in OfLink(a, l), j < i,
               \A k \in OfLink(a, l) : k <= j \/ k >= i
        PROVE  <<a[j].type, a[i].type>> \in EventAfter
    <3>1. j \in OfLink(s, l)
      BY <1>1, <1>3, <1>4, <2>3
    <3>2. CASE i = n
      <4>1. \A k \in OfLink(s, l) : k <= j
        BY <1>1, <1>3, <1>4, <2>3, <3>1, <3>2
      <4>2. s[j].type \in LastOf(st)
        BY <2>1, <3>1, <4>1 DEF EndsIn
      <4>. QED  BY <1>1, <1>4, <3>1, <3>2, <4>2
    <3>3. CASE i \in OfLink(s, l)
      BY <1>3, <1>4, <2>1, <2>3, <3>1, <3>3 DEF Orderly
    <3>. QED  BY <1>3, <3>2, <3>3
  <2>4. EndsIn(a, l, d, LastOf(st2))
    <3>1. ASSUME NEW i \in OfLink(a, l), \A j \in OfLink(a, l) : j <= i
          PROVE  i = n
      BY <1>1, <1>3, <1>4, <3>1
    <3>. QED  BY <1>1, <1>3, <3>1 DEF EndsIn
  <2>. QED  BY <2>2, <2>3, <2>4 DEF Live, Orderly, a
<1>. QED  BY <1>5 DEF Live, a

\* An item that is no event of the link follows.
LEMMA LiveOther ==
  ASSUME NEW S, NEW s \in Seq(S), NEW x \in S, NEW b, NEW l, NEW d, NEW st,
         Live(b, s, l, d, st), ~(x.id = 0 /\ x.link = l)
  PROVE  Live(b, Append(s, x), l, d, st)
<1>. DEFINE a == Append(s, x)
            n == Len(s) + 1
<1>1. /\ DOMAIN s = 1 .. Len(s) /\ Len(s) \in Nat /\ DOMAIN a = 1 .. n
      /\ \A i \in 1 .. Len(s) : a[i] = s[i] /\ i \in 1 .. n
      /\ a[n] = x
  BY LenProperties, AppendProperties
<1>. HIDE DEF a, n
<1>2. \A i \in 1 .. n : i \in 1 .. Len(s) \/ i = n
  BY <1>1 DEF n
<1>3. OfLink(a, l) = OfLink(s, l) /\ \A i \in OfLink(s, l) : a[i] = s[i]
  BY <1>1, <1>2 DEF OfLink
<1>4. Orderly(s, l, d) => Orderly(a, l, d)
  <2>. SUFFICES ASSUME Orderly(s, l, d) PROVE Orderly(a, l, d)
    OBVIOUS
  <2>. DEFINE L == OfLink(s, l)
  <2>1. OfLink(a, l) = L /\ \A i \in L : a[i] = s[i]
    BY <1>3
  <2>2. \A i \in L : /\ (\A j \in L : j >= i) => <<d, s[i].type>> \in EventAfter
                    /\ \A j \in L : j < i /\ (\A k \in L : k <= j \/ k >= i) =>
                                    <<s[j].type, s[i].type>> \in EventAfter
    BY DEF Orderly
  <2>. HIDE DEF L
  <2>3. \A i \in L : /\ (\A j \in L : j >= i) => <<d, a[i].type>> \in EventAfter
                    /\ \A j \in L : j < i /\ (\A k \in L : k <= j \/ k >= i) =>
                                    <<a[j].type, a[i].type>> \in EventAfter
    BY <2>1, <2>2, Zenon
  <2>. QED  BY <2>1, <2>3 DEF Orderly
<1>5. \A T : EndsIn(s, l, d, T) => EndsIn(a, l, d, T)
  BY <1>3 DEF EndsIn
<1>6. Live(b, a, l, d, st)
  BY <1>3, <1>4, <1>5 DEF Live
<1>. QED  BY <1>6 DEF a

\* The application takes the oldest item.
LEMMA LiveTail ==
  ASSUME NEW S, NEW s \in Seq(S), s # <<>>, NEW b, NEW l, NEW d, NEW st,
         Live(b, s, l, d, st)
  PROVE  Live(b, Tail(s), l,
              IF b /\ Head(s).id = 0 /\ Head(s).link = l THEN Head(s).type ELSE d, st)
<1>. DEFINE t == Tail(s)
            h == Head(s)
            d2 == IF b /\ h.id = 0 /\ h.link = l THEN h.type ELSE d
<1>1. /\ DOMAIN s = 1 .. Len(s) /\ Len(s) \in Nat \ {0} /\ h = s[1]
      /\ DOMAIN t = 1 .. (Len(s) - 1)
      /\ \A i \in 1 .. (Len(s) - 1) : t[i] = s[i + 1]
  BY LenProperties, HeadTailProperties, EmptySeq
<1>. HIDE DEF t, h
<1>2. \A i \in OfLink(t, l) : i \in Nat /\ i >= 1 /\ i + 1 \in OfLink(s, l) /\ t[i] = s[i + 1]
  BY <1>1 DEF OfLink
<1>3. ASSUME NEW i \in OfLink(s, l), i # 1
      PROVE  i \in Nat /\ i - 1 \in OfLink(t, l)
  <2>1. i \in 1 .. Len(s) /\ i - 1 \in 1 .. (Len(s) - 1) /\ (i - 1) + 1 = i
    BY <1>1, <1>3 DEF OfLink
  <2>. QED  BY <1>1, <2>1 DEF OfLink
<1>4. 1 \in OfLink(s, l) <=> h.id = 0 /\ h.link = l
  BY <1>1 DEF OfLink
<1>5. \A i \in OfLink(s, l) : i \in Nat /\ i >= 1
  BY <1>1 DEF OfLink
<1>6. CASE b
  <2>1. Orderly(s, l, d) /\ EndsIn(s, l, d, LastOf(st))
    BY <1>6 DEF Live
  <2>2. ASSUME NEW i \in OfLink(t, l), \A j \in OfLink(t, l) : j >= i
        PROVE  <<d2, t[i].type>> \in EventAfter
    <3>1. \A k \in OfLink(s, l) : k = 1 \/ k >= i + 1
      <4>1. SUFFICES ASSUME NEW k \in OfLink(s, l), k # 1 PROVE k >= i + 1
        OBVIOUS
      <4>2. k \in Nat /\ k - 1 >= i
        BY <1>3, <2>2, <4>1
      <4>. QED  BY <1>2, <4>2
    <3>2. i \in Nat /\ i >= 1 /\ i + 1 \in OfLink(s, l) /\ t[i] = s[i + 1]
      BY <1>2
    <3>3. CASE 1 \in OfLink(s, l)
      <4>1. 1 < i + 1 /\ \A k \in OfLink(s, l) : k <= 1 \/ k >= i + 1
        BY <3>1, <3>2
      <4>2. <<s[1].type, s[i + 1].type>> \in EventAfter
        BY <2>1, <3>2, <3>3, <4>1 DEF Orderly
      <4>. QED  BY <1>1, <1>4, <1>6, <3>2, <3>3, <4>2
    <3>4. CASE 1 \notin OfLink(s, l)
      <4>1. \A k \in OfLink(s, l) : k >= i + 1
        BY <3>1, <3>4
      <4>. QED  BY <1>4, <2>1, <3>2, <3>4, <4>1 DEF Orderly
    <3>. QED  BY <3>3, <3>4
  <2>3. ASSUME NEW i \in OfLink(t, l), NEW j \in OfLink(t, l), j < i,
               \A k \in OfLink(t, l) : k <= j \/ k >= i
        PROVE  <<t[j].type, t[i].type>> \in EventAfter
    <3>1. \A k \in OfLink(s, l) : k <= j + 1 \/ k >= i + 1
      <4>1. SUFFICES ASSUME NEW k \in OfLink(s, l), k # 1 PROVE k <= j + 1 \/ k >= i + 1
        BY <1>2
      <4>2. k \in Nat /\ (k - 1 <= j \/ k - 1 >= i)
        BY <1>3, <2>3, <4>1
      <4>. QED  BY <1>2, <4>2
    <3>2. /\ i + 1 \in OfLink(s, l) /\ j + 1 \in OfLink(s, l) /\ j + 1 < i + 1
          /\ t[i] = s[i + 1] /\ t[j] = s[j + 1]
      BY <1>2, <2>3
    <3>. QED  BY <2>1, <3>1, <3>2 DEF Orderly
  <2>4. EndsIn(t, l, d2, LastOf(st))
    <3>1. ASSUME OfLink(t, l) = {} PROVE d2 \in LastOf(st)
      <4>1. \A k \in OfLink(s, l) : k = 1
        BY <1>3, <3>1
      <4>2. CASE 1 \in OfLink(s, l)
        <5>1. \A k \in OfLink(s, l) : k <= 1
          BY <4>1
        <5>. QED  BY <1>1, <1>4, <1>6, <2>1, <4>2, <5>1 DEF EndsIn
      <4>3. CASE 1 \notin OfLink(s, l)
        <5>1. OfLink(s, l) = {}
          BY <4>1, <4>3
        <5>. QED  BY <1>4, <2>1, <4>3, <5>1 DEF EndsIn
      <4>. QED  BY <4>2, <4>3
    <3>2. ASSUME NEW i \in OfLink(t, l), \A j \in OfLink(t, l) : j <= i
          PROVE  t[i].type \in LastOf(st)
      <4>1. \A k \in OfLink(s, l) : k <= i + 1
        <5>1. SUFFICES ASSUME NEW k \in OfLink(s, l), k # 1 PROVE k <= i + 1
          BY <1>2
        <5>2. k \in Nat /\ k - 1 <= i
          BY <1>3, <3>2, <5>1
        <5>. QED  BY <1>2, <5>2
      <4>. QED  BY <1>2, <2>1, <4>1 DEF EndsIn
    <3>. QED  BY <3>1, <3>2 DEF EndsIn
  <2>5. Orderly(t, l, d2)
    BY <2>2, <2>3 DEF Orderly
  <2>6. st = "none" => OfLink(s, l) = {} /\ d = "none"
    BY DEF Live
  <2>7. st = "none" => OfLink(t, l) = {} /\ d2 = "none"
    BY <1>2, <1>4, <2>6
  <2>. QED  BY <2>4, <2>5, <2>7 DEF Live, t, h
<1>7. CASE ~b
  <2>1. st = "none" => OfLink(s, l) = {} /\ d = "none"
    BY DEF Live
  <2>2. st = "none" => OfLink(t, l) = {}
    BY <1>2, <2>1
  <2>. QED  BY <1>7, <2>1, <2>2 DEF Live, t
<1>. QED  BY <1>6, <1>7

\* The link goes on without an event.
LEMMA LiveState ==
  ASSUME NEW b, NEW s, NEW l, NEW d, NEW st, NEW st2, Live(b, s, l, d, st),
         LastOf(st) \subseteq LastOf(st2), st2 # "none"
  PROVE  Live(b, s, l, d, st2)
BY DEF Live, EndsIn


\* What opening link l reports, and no event of another link.
LEMMA LiveReports ==
  ASSUME TypeOK, NEW s \in Seq(Response), NEW b, NEW l \in Links, NEW reports \in OpenReports(l)
  PROVE  /\ \A d : Live(b, s, l, d, "none") => Live(b, s \o reports, l, d, StateAfter(reports, l))
         /\ \A k \in Links : \A d, st : k # l /\ Live(b, s, k, d, st) => Live(b, s \o reports, k, d, st)
         /\ s \o reports \in Seq(Response)
<1>. DEFINE open == Event("Open", l)
            start == Event("Start", l)
<1>1. /\ open \in Response /\ open.id = 0 /\ open.link = l /\ open.type = "Open"
      /\ start \in Response /\ start.id = 0 /\ start.link = l /\ start.type = "Start"
  BY EventType DEF Event, Events
<1>2. reports \in {<<>>, <<open>>, <<start>>, <<open, start>>}
  BY DEF OpenReports
<1>. HIDE DEF open, start
<1>3. /\ s \o <<>> = s
      /\ s \o <<open>> = Append(s, open) /\ s \o <<start>> = Append(s, start)
      /\ s \o <<open, start>> = Append(Append(s, open), start)
      /\ Append(s, open) \in Seq(Response) /\ Append(s, start) \in Seq(Response)
      /\ Append(Append(s, open), start) \in Seq(Response)
  BY <1>1
<1>4. ASSUME NEW d, Live(b, s, l, d, "none")
      PROVE  /\ Live(b, s, l, d, "open") /\ Live(b, Append(s, open), l, d, "open")
             /\ Live(b, Append(s, start), l, d, "start")
             /\ Live(b, Append(Append(s, open), start), l, d, "start")
  <2>1. LastOf("none") = {"none"} /\ LastOf("open") = {"none", "Open"}
        /\ LastOf("start") = {"Start", "Msg"}
    BY DEF LastOf
  <2>2. Live(b, s, l, d, "open")
    BY <1>4, <2>1, LiveState
  <2>3. Live(b, Append(s, open), l, d, "open")
    BY <1>1, <1>4, <2>1, LiveEvent DEF EventAfter
  <2>4. Live(b, Append(s, start), l, d, "start")
    BY <1>1, <1>4, <2>1, LiveEvent DEF EventAfter
  <2>5. Live(b, Append(Append(s, open), start), l, d, "start")
    BY <1>1, <1>3, <2>1, <2>3, LiveEvent DEF EventAfter
  <2>. QED  BY <2>2, <2>3, <2>4, <2>5
<1>5. ASSUME NEW k \in Links, NEW d, NEW st, k # l, Live(b, s, k, d, st)
      PROVE  /\ Live(b, Append(s, open), k, d, st) /\ Live(b, Append(s, start), k, d, st)
             /\ Live(b, Append(Append(s, open), start), k, d, st)
  <2>1. Live(b, Append(s, open), k, d, st) /\ Live(b, Append(s, start), k, d, st)
    BY <1>1, <1>5, LiveOther
  <2>. QED  BY <1>1, <1>3, <1>5, <2>1, LiveOther
<1>6. /\ StateAfter(<<>>, l) = "open" /\ StateAfter(<<open>>, l) = "open"
      /\ StateAfter(<<start>>, l) = "start" /\ StateAfter(<<open, start>>, l) = "start"
  <2>1. StateAfter(<<>>, l) = "open" /\ StateAfter(<<open>>, l) = "open"
    BY <1>1 DEF StateAfter
  <2>2. 1 \in DOMAIN <<start>> /\ 2 \in DOMAIN <<open, start>> /\ <<start>>[1] = start
        /\ <<open, start>>[2] = start
    OBVIOUS
  <2>3. StateAfter(<<start>>, l) = "start" /\ StateAfter(<<open, start>>, l) = "start"
    BY <1>1, <2>2 DEF StateAfter
  <2>. QED  BY <2>1, <2>3
<1>7. CASE reports = <<>>
  BY <1>3, <1>4, <1>6, <1>7
<1>8. CASE reports = <<open>>
  BY <1>3, <1>4, <1>5, <1>6, <1>8
<1>9. CASE reports = <<start>>
  BY <1>3, <1>4, <1>5, <1>6, <1>9
<1>10. CASE reports = <<open, start>>
  BY <1>3, <1>4, <1>5, <1>6, <1>10
<1>. QED  BY <1>2, <1>7, <1>8, <1>9, <1>10

\* No event moves, and links at most begin to close.
LEMMA LivesKept ==
  ASSUME Lives, UNCHANGED <<Resps, seen, bound>>,
         \A l \in Links : \/ link'[l] = link[l]
                          \/ link[l] \in {"open", "start"} /\ link'[l] = "closing"
  PROVE  Lives'
<1>. SUFFICES ASSUME NEW l \in Links
              PROVE  Live(bound, Resps, l, seen[l], link'[l])
  BY DEF Lives
<1>1. Live(bound, Resps, l, seen[l], link[l])
  BY DEF Lives
<1>2. CASE link[l] \in {"open", "start"} /\ link'[l] = "closing"
  <2>1. LastOf(link[l]) \subseteq LastOf("closing")
    BY <1>2 DEF LastOf
  <2>. QED  BY <1>1, <1>2, <2>1, LiveState
<1>. QED  BY <1>1, <1>2

\* An item that is no event of a link is sent to the application.
LEMMA LivesAnswered ==
  ASSUME TypeOK, Lives, NEW e \in Response, e.id # 0, Resps' = Append(Resps, e),
         UNCHANGED <<seen, bound, link>>
  PROVE  Lives'
<1>1. Resps \in Seq(Response)
  BY Channels
<1>. SUFFICES ASSUME NEW l \in Links
              PROVE  Live(bound, Append(Resps, e), l, seen[l], link[l])
  BY DEF Lives
<1>2. Live(bound, Resps, l, seen[l], link[l])
  BY DEF Lives
<1>. QED  BY <1>1, <1>2, LiveOther

\* An event of link l is sent to the application.
LEMMA LivesReported ==
  ASSUME TypeOK, Lives, NEW l \in Links, NEW type \in Events,
         Resps' = Append(Resps, Event(type, l)), UNCHANGED <<seen, bound>>,
         \A k \in Links : k # l => link'[k] = link[k],
         link'[l] # "none", type \in LastOf(link'[l]),
         \A t \in LastOf(link[l]) : <<t, type>> \in EventAfter
  PROVE  Lives'
<1>. DEFINE e == Event(type, l)
<1>1. Resps \in Seq(Response) /\ e \in Response /\ e.id = 0 /\ e.link = l /\ e.type = type
  BY Channels, EventType DEF Event
<1>. HIDE DEF e
<1>. SUFFICES ASSUME NEW k \in Links
              PROVE  Live(bound, Append(Resps, e), k, seen[k], link'[k])
  BY DEF Lives, e
<1>2. Live(bound, Resps, k, seen[k], link[k])
  BY DEF Lives
<1>3. CASE k = l
  BY <1>1, <1>2, <1>3, LiveEvent
<1>4. CASE k # l
  BY <1>1, <1>2, <1>4, LiveOther
<1>. QED  BY <1>3, <1>4

\* Link l opens.
LEMMA LivesOpened ==
  ASSUME TypeOK, Lives, NEW l \in Links, link[l] = "none", NEW reports \in OpenReports(l),
         link' = [link EXCEPT ![l] = StateAfter(reports, l)], UNCHANGED <<seen, bound>>
  PROVE  /\ Resps' = Resps \o reports => Lives'
         /\ \A e \in Response : e.id # 0 /\ Resps' = Append(Resps \o reports, e) => Lives'
<1>. DEFINE s == Resps \o reports
<1>1. Resps \in Seq(Response) /\ s \in Seq(Response)
  BY Channels, LiveReports
<1>. HIDE DEF s
<1>2. ASSUME NEW k \in Links
      PROVE  Live(bound, s, k, seen[k], link'[k])
  <2>1. Live(bound, Resps, k, seen[k], link[k])
    BY DEF Lives
  <2>2. link'[k] = IF k = l THEN StateAfter(reports, l) ELSE link[k]
    BY DEF TypeOK
  <2>3. CASE k = l
    BY <1>1, <2>1, <2>2, <2>3, LiveReports DEF s
  <2>4. CASE k # l
    BY <1>1, <2>1, <2>2, <2>4, LiveReports DEF s
  <2>. QED  BY <2>3, <2>4
<1>3. ASSUME Resps' = s PROVE Lives'
  BY <1>2, <1>3 DEF Lives
<1>4. ASSUME NEW e \in Response, e.id # 0, Resps' = Append(s, e) PROVE Lives'
  <2>1. ASSUME NEW k \in Links PROVE Live(bound, Append(s, e), k, seen[k], link'[k])
    BY <1>1, <1>2, <1>4, LiveOther
  <2>. QED  BY <1>4, <2>1 DEF Lives
<1>. QED  BY <1>3, <1>4 DEF s


\* Each step keeps Lives.
LEMMA NextLives == IInv /\ Lives /\ [Next]_vars => Lives'
<1>. SUFFICES ASSUME IInv, Lives, [Next]_vars PROVE Lives'
  OBVIOUS
<1>. USE DEF logicVars, sharedVars, workVars, netVars, histVars
<1>0. TypeOK
  BY DEF IInv
<1>1. CASE \/ UpdateBegin \/ AppReturns \/ LogicReq \/ Sweep \/ StopBegin
           \/ WorkBegin \/ WorkInit \/ WorkReq \/ WorkUpdate \/ WorkResp \/ WorkRelease
           \/ WorkReleased \/ WorkExit \/ Tick \/ \E l \in Links : NetEnd(l)
  <2>1. UNCHANGED <<Resps, seen>>
    BY <1>1, StillSteps
  <2>2. /\ bound' = bound
        /\ \A l \in Links : \/ link'[l] = link[l]
                            \/ link[l] \in {"open", "start"} /\ link'[l] = "closing"
    BY <1>0, <1>1 DEF UpdateBegin, AppReturns, LogicReq, Sweep, StopBegin, WorkBegin, WorkInit,
       WorkReq, WorkUpdate, WorkResp, WorkRelease, WorkReleased, WorkExit, Tick, NetEnd, TypeOK
  <2>. QED  BY <2>1, <2>2, LivesKept
<1>2. CASE Start
  <2>1. UNCHANGED <<Resps, seen, link>>
    BY <1>2, StillSteps DEF Start
  <2>2. Resps = <<>>
    <3>1. nl = <<>> /\ swapResp = <<>> /\ respQueue = <<>>
      BY <1>2 DEF Start, IInv, Drained, Joining, Down
    <3>. QED  BY <3>1, Spliced DEF Resps
  <2>3. ASSUME NEW l \in Links PROVE Live(TRUE, <<>>, l, seen[l], link[l])
    <3>1. OfLink(<<>>, l) = {}
      BY DEF OfLink
    <3>2. seen[l] \in Events \cup {"none"} /\ link[l] \in {"none", "close"}
      BY <1>0, <1>2 DEF Start, IInv, TypeOK, Drained, Down
    <3>3. link[l] = "none" => seen[l] = "none"
      BY DEF Lives, Live
    <3>4. seen[l] \in LastOf(link[l])
      BY <3>2, <3>3 DEF LastOf, Events
    <3>. QED  BY <3>1, <3>3, <3>4 DEF Live, Orderly, EndsIn
  <2>4. bound' = TRUE
    BY <1>2 DEF Start
  <2>. QED  BY <2>1, <2>2, <2>3, <2>4 DEF Lives
<1>3. CASE DeliverEvent \/ DeliverAnswer
  <2>1. /\ nl # <<>> /\ nl' = Tail(nl) /\ UNCHANGED <<swapResp, respQueue, link, bound>>
    BY <1>3 DEF DeliverEvent, DeliverAnswer
  <2>2. Resps # <<>> /\ Head(Resps) = Head(nl) /\ Resps' = Tail(Resps) /\ Resps \in Seq(Response)
    BY <1>0, <2>1, TakeSteps, Channels
  <2>3. \A l \in Links : seen'[l] = IF bound /\ Head(nl).id = 0 /\ Head(nl).link = l
                                      THEN Head(nl).type ELSE seen[l]
    <3>1. CASE DeliverEvent
      BY <1>0, <3>1 DEF DeliverEvent, TypeOK
    <3>2. CASE DeliverAnswer
      BY <3>2 DEF DeliverAnswer
    <3>. QED  BY <1>3, <3>1, <3>2
  <2>4. ASSUME NEW l \in Links PROVE Live(bound, Tail(Resps), l, seen'[l], link[l])
    <3>1. Live(bound, Resps, l, seen[l], link[l])
      BY DEF Lives
    <3>2. Live(bound, Tail(Resps), l, IF bound /\ Head(Resps).id = 0 /\ Head(Resps).link = l
                                        THEN Head(Resps).type ELSE seen[l], link[l])
      BY <2>2, <3>1, LiveTail
    <3>. QED  BY <2>2, <2>3, <3>2
  <2>. QED  BY <2>1, <2>2, <2>4 DEF Lives
<1>4. CASE StopEnd
  <2>1. Resps' = nl /\ Resps = nl \o swapResp /\ UNCHANGED <<seen, link>> /\ bound' = FALSE
    BY <1>4, StopEndSteps DEF StopEnd
  <2>2. nl \in Seq(Response) /\ swapResp \in Seq(Response)
    BY <1>0 DEF TypeOK
  <2>3. ASSUME NEW l \in Links PROVE Live(FALSE, nl, l, seen[l], link[l])
    <3>1. OfLink(nl, l) \subseteq OfLink(Resps, l)
      <4>1. /\ DOMAIN nl = 1 .. Len(nl) /\ Len(nl) \in Nat /\ Len(swapResp) \in Nat
            /\ DOMAIN Resps = 1 .. (Len(nl) + Len(swapResp))
            /\ \A i \in 1 .. Len(nl) : Resps[i] = nl[i]
        <5>1. /\ Len(nl) \in Nat /\ Len(swapResp) \in Nat /\ DOMAIN nl = 1 .. Len(nl)
          BY <2>2, LenProperties
        <5>2. /\ Resps \in Seq(Response) /\ Len(Resps) = Len(nl) + Len(swapResp)
              /\ \A i \in 1 .. Len(nl) + Len(swapResp) :
                   Resps[i] = IF i <= Len(nl) THEN nl[i] ELSE swapResp[i - Len(nl)]
          BY <2>1, <2>2, ConcatProperties
        <5>3. DOMAIN Resps = 1 .. Len(Resps)
          BY <5>2, LenProperties
        <5>. QED  BY <5>1, <5>2, <5>3
      <4>. QED  BY <4>1 DEF OfLink
    <3>. QED  BY <3>1 DEF Lives, Live
  <2>. QED  BY <2>1, <2>3 DEF Lives
<1>5. CASE WorkItem
  <2>. DEFINE req == Head(wnl)
  <2>1. UNCHANGED <<nl, swapReq, swapResp, reqQueue, seen, bound>>
    BY <1>5 DEF WorkItem
  <2>2. req \in Request /\ (req.type \in Calls => req.id \in ReqIDs)
    BY <1>0, <1>5, NextTaken, CallRequest DEF WorkItem
  <2>3. \/ OnNetListen(req) \/ OnNetAsync(req) \/ OnNetStopListen(req) \/ OnNetCloseLink(req)
        \/ OnNetSendMsg(req)
    BY <1>5 DEF WorkItem
  <2>. HIDE DEF req
  <2>4. CASE OnNetListen(req)
    <3>1. /\ Answer(req) \in Response /\ Answer(req).id # 0
          /\ respQueue' = Append(respQueue, Answer(req)) /\ link' = link
      BY <1>0, <2>2, <2>4, AnswerType DEF OnNetListen, Calls, Answer, ReqIDs
    <3>. QED  BY <1>0, <2>1, <3>1, ReportSteps, LivesAnswered
  <2>5. CASE OnNetAsync(req) \/ OnNetStopListen(req) \/ OnNetCloseLink(req) \/ OnNetSendMsg(req)
    <3>1. /\ respQueue' = respQueue
          /\ \A l \in Links : \/ link'[l] = link[l]
                              \/ link[l] \in {"open", "start"} /\ link'[l] = "closing"
      BY <1>0, <2>5 DEF OnNetAsync, OnNetStopListen, OnNetCloseLink, OnNetSendMsg, TypeOK
    <3>. QED  BY <2>1, <3>1, ReportSteps, LivesKept
  <2>. QED  BY <2>3, <2>4, <2>5
<1>6. ASSUME UNCHANGED <<nl, swapResp, respQueue, seen, bound, link>>
      PROVE  Lives'
  BY <1>6, LivesKept DEF Resps
<1>7. ASSUME NEW op \in pend, \/ NetFinish(op)
                              \/ \E l \in Links : NetConnectFailed(op, l) \/ NetConnected(op, l)
      PROVE  Lives'
  <2>. DEFINE e == Answer([id |-> op[1], type |-> op[2]])
  <2>1. e \in Response /\ e.id # 0
    <3>1. e \in Response
      BY <1>0, PendType
    <3>2. op[1] \in ReqIDs /\ e.id = op[1]
      BY <1>0 DEF TypeOK, Answer
    <3>. QED  BY <3>1, <3>2 DEF ReqIDs
  <2>. HIDE DEF e
  <2>2. UNCHANGED <<nl, swapReq, swapResp, reqQueue, seen, bound>>
    BY <1>7 DEF NetFinish, NetConnectFailed, NetConnected
  <2>3. CASE NetFinish(op)
    <3>1. respQueue' = Append(respQueue, e) /\ link' = link
      BY <2>3 DEF NetFinish, e
    <3>. QED  BY <1>0, <2>1, <2>2, <3>1, ReportSteps, LivesAnswered
  <2>4. ASSUME NEW l \in Links, NetConnectFailed(op, l)
        PROVE  Lives'
    <3>1. /\ respQueue' = Append(respQueue, e) /\ link[l] = "none"
          /\ \A k \in Links : link'[k] = IF k = l THEN "closing" ELSE link[k]
      BY <1>0, <2>4 DEF NetConnectFailed, e, TypeOK
    <3>2. Resps' = Append(Resps, e) /\ Resps \in Seq(Response)
      BY <1>0, <2>1, <2>2, <3>1, ReportSteps, Channels
    <3>3. ASSUME NEW k \in Links PROVE Live(bound, Append(Resps, e), k, seen[k], link'[k])
      <4>1. Live(bound, Resps, k, seen[k], link[k])
        BY DEF Lives
      <4>2. LastOf("none") \subseteq LastOf("closing")
        BY DEF LastOf
      <4>3. Live(bound, Resps, k, seen[k], link'[k])
        BY <3>1, <4>1, <4>2, LiveState
      <4>. QED  BY <2>1, <3>2, <4>3, LiveOther
    <3>. QED  BY <2>2, <3>2, <3>3 DEF Lives
  <2>5. ASSUME NEW l \in Links, NetConnected(op, l)
        PROVE  Lives'
    <3>1. PICK reports \in OpenReports(l) :
            /\ respQueue' = (respQueue \o reports) \o <<e>>
            /\ link' = [link EXCEPT ![l] = StateAfter(reports, l)]
      BY <2>5 DEF NetConnected, e
    <3>2. reports \in Seq(Response) /\ link[l] = "none"
      BY <1>0, <2>5, ReportsType DEF NetConnected
    <3>3. Resps' = Append(Resps \o reports, e)
      BY <2>1, <2>2, <3>1, <3>2, ReportSteps
    <3>. QED  BY <1>0, <2>1, <2>2, <3>1, <3>2, <3>3, LivesOpened
  <2>. QED  BY <1>7, <2>3, <2>4, <2>5
<1>8. ASSUME NEW l \in Links, NetAccept(l)
      PROVE  Lives'
  <2>1. UNCHANGED <<nl, swapReq, swapResp, reqQueue, seen, bound>> /\ link[l] = "none"
    BY <1>8 DEF NetAccept
  <2>2. PICK reports \in OpenReports(l) :
          /\ respQueue' = respQueue \o reports
          /\ link' = [link EXCEPT ![l] = StateAfter(reports, l)]
    BY <1>8 DEF NetAccept
  <2>3. reports \in Seq(Response)
    BY <1>0, ReportsType
  <2>4. Resps' = Resps \o reports
    BY <2>1, <2>2, <2>3, ReportSteps
  <2>. QED  BY <1>0, <2>1, <2>2, <2>4, LivesOpened
<1>9. ASSUME NEW l \in Links, NetStart(l) \/ NetMsg(l) \/ NetClosed(l)
      PROVE  Lives'
  <2>1. UNCHANGED <<nl, swapReq, swapResp, reqQueue, seen, bound>>
    BY <1>9 DEF NetStart, NetMsg, NetClosed
  <2>2. PICK type \in Events :
          /\ respQueue' = Append(respQueue, Event(type, l))
          /\ \A k \in Links : k # l => link'[k] = link[k]
          /\ link'[l] # "none" /\ type \in LastOf(link'[l])
          /\ \A t \in LastOf(link[l]) : <<t, type>> \in EventAfter
    <3>1. CASE NetStart(l)
      <4>1. /\ respQueue' = Append(respQueue, Event("Start", l)) /\ link[l] = "open"
            /\ \A k \in Links : link'[k] = IF k = l THEN "start" ELSE link[k]
        BY <1>0, <3>1 DEF NetStart, TypeOK
      <4>2. /\ "Start" \in LastOf("start") /\ "Start" \in Events
            /\ \A t \in LastOf("open") : <<t, "Start">> \in EventAfter
        BY DEF LastOf, EventAfter, Events
      <4>. QED  BY <4>1, <4>2
    <3>2. CASE NetMsg(l)
      <4>1. respQueue' = Append(respQueue, Event("Msg", l)) /\ link[l] = "start" /\ link' = link
        BY <3>2 DEF NetMsg
      <4>2. /\ "Msg" \in LastOf("start") /\ "Msg" \in Events
            /\ \A t \in LastOf("start") : <<t, "Msg">> \in EventAfter
        BY DEF LastOf, EventAfter, Events
      <4>. QED  BY <4>1, <4>2
    <3>3. CASE NetClosed(l)
      <4>1. /\ respQueue' = Append(respQueue, Event("Close", l)) /\ link[l] = "closing"
            /\ \A k \in Links : link'[k] = IF k = l THEN "close" ELSE link[k]
        BY <1>0, <3>3 DEF NetClosed, TypeOK
      <4>2. /\ "Close" \in LastOf("close") /\ "Close" \in Events
            /\ \A t \in LastOf("closing") : <<t, "Close">> \in EventAfter
        BY DEF LastOf, EventAfter, Events
      <4>. QED  BY <4>1, <4>2
    <3>. QED  BY <1>9, <3>1, <3>2, <3>3
  <2>3. Resps' = Append(Resps, Event(type, l))
    BY <1>0, <2>1, <2>2, EventType, ReportSteps
  <2>. QED  BY <1>0, <2>1, <2>2, <2>3, LivesReported
<1>10. (\E call \in Calls : Issue(call))
       \/ (\E type \in OneWays, l \in LinkNames : IssueOneWay(type, l)) \/ UNCHANGED vars =>
         UNCHANGED <<nl, swapResp, respQueue, seen, bound, link>>
  BY DEF Issue, IssueOneWay, vars
<1>. QED  BY <1>1, <1>2, <1>3, <1>4, <1>5, <1>6, <1>7, <1>8, <1>9, <1>10
            DEF Next, Logic, App, Worker, Net

LEMMA InitLives == Init => Lives
<1>. SUFFICES ASSUME Init, NEW l \in Links PROVE Live(bound, Resps, l, seen[l], link[l])
  BY DEF Lives
<1>1. Resps = <<>> /\ OfLink(<<>>, l) = {} /\ seen[l] = "none" /\ ~bound
  BY Spliced DEF Init, Resps, OfLink
<1>. QED  BY <1>1 DEF Live

\* The events of one link that the application has not seen follow the last one
\* it saw in a legal order, through the three lists between the threads.
THEOREM EventsInOrder == Spec => []EventOrder
<1>1. IInv /\ [Next]_vars => IInv'
  BY NextTypeOK, NextPhases, NextDrained, NextRequests, NextSessions DEF IInv
<1>2. Spec => []Lives
  BY InitIInv, InitLives, NextLives, <1>1, PTL DEF Spec
<1>3. Lives => EventOrder
  <2>. SUFFICES ASSUME Lives, bound, NEW l \in Links PROVE Orderly(Resps, l, seen[l])
    BY DEF EventOrder, Orderly, OfLink
  <2>. QED  BY DEF Lives, Live
<1>. QED  BY <1>2, <1>3, PTL
================================================================================
