--------------------------- MODULE TaskPool_proofs ---------------------------
(***************************************************************************)
(* For every number of workers, callers, tasks and sessions of the pool:   *)
(* what a stop leaves behind is bounded, and no wake-up is lost.           *)
(***************************************************************************)
EXTENDS TaskPool, FiniteSetTheorems, TLAPS

-----------------------------------------------------------------------------
(* The inductive invariant.                                                *)

\* While the owner is in stop() nobody sets the flag.
OwnerStops == ctl # "idle" => ~mRunning

\* What is still offered to a pool that is stopped was offered before that stop.
OffersOvertaken == ~mRunning => Offered \subseteq overtaken

\* A worker that is past the flag of a stopped pool has not begun its last task.
LastTask ==
  ~mRunning => \A w \in Workers : pc[w] \in {"lock", "taken"} => begun[w] = 0

\* What stop() waits for is executing or has finished.
StillAwaited == awaited \subseteq finished \cup Executing

IInv ==
  /\ TypeOK /\ OnePlace
  /\ OwnerStops /\ OffersOvertaken /\ OnlyOvertakenLeft
  /\ LastTask /\ OneMoreTask
  /\ StillAwaited /\ StopWaits
  /\ NoLostWakeup

-----------------------------------------------------------------------------
(* Sequences as sets.                                                      *)

\* Popping leaves fewer elements, pushing adds one.
LEMMA QueueAsSet ==
  ASSUME NEW s \in Seq(Tasks)
  PROVE  /\ ToSet(<<>>) = {}
         /\ ToSet(s) \subseteq Tasks
         /\ s # <<>> => /\ Head(s) \in Tasks /\ Tail(s) \in Seq(Tasks)
                        /\ ToSet(Tail(s)) \subseteq ToSet(s)
         /\ \A t \in Tasks : /\ Append(s, t) \in Seq(Tasks)
                             /\ ToSet(Append(s, t)) \subseteq ToSet(s) \cup {t}
<1>1. ToSet(<<>>) = {} /\ ToSet(s) \subseteq Tasks
  BY DEF ToSet
<1>2. ASSUME s # <<>>
      PROVE  /\ Head(s) \in Tasks /\ Tail(s) \in Seq(Tasks)
             /\ ToSet(Tail(s)) \subseteq ToSet(s)
  BY <1>2 DEF ToSet
<1>3. ASSUME NEW t \in Tasks
      PROVE  /\ Append(s, t) \in Seq(Tasks)
             /\ ToSet(Append(s, t)) \subseteq ToSet(s) \cup {t}
  BY DEF ToSet
<1>. QED  BY <1>1, <1>2, <1>3

\* Pushing a new element and popping keep the elements distinct; what is popped is
\* not in the queue any more.
LEMMA QueueDistinct ==
  ASSUME NEW s \in Seq(Tasks), IsInjective(s)
  PROVE  /\ s # <<>> => IsInjective(Tail(s)) /\ Head(s) \in ToSet(s) /\ Head(s) \notin ToSet(Tail(s))
         /\ \A t \in Tasks \ ToSet(s) : IsInjective(Append(s, t))
<1>1. ASSUME s # <<>>
      PROVE  IsInjective(Tail(s)) /\ Head(s) \in ToSet(s) /\ Head(s) \notin ToSet(Tail(s))
  BY <1>1 DEF IsInjective, ToSet
<1>2. ASSUME NEW t \in Tasks \ ToSet(s)
      PROVE  IsInjective(Append(s, t))
  BY DEF IsInjective, ToSet
<1>. QED  BY <1>1, <1>2

\* The counter of running tasks: one worker more, one worker fewer, none.
LEMMA Counted ==
  ASSUME NEW S \in SUBSET Workers
  PROVE  /\ Cardinality(S) \in Nat
         /\ Cardinality(S) = 0 => S = {}
         /\ \A w \in Workers \ S : Cardinality(S \cup {w}) = Cardinality(S) + 1
         /\ \A w \in S : Cardinality(S \ {w}) = Cardinality(S) - 1
<1>1. IsFiniteSet(S)
  BY PoolAssumption, FS_Subset
<1>. QED  BY <1>1, FS_CardinalityType, FS_EmptySet, FS_AddElement, FS_RemoveElement

-----------------------------------------------------------------------------
(* Type correctness.                                                       *)

LEMMA TypeInit == Init => TypeOK
<1>. SUFFICES ASSUME Init PROVE TypeOK
  OBVIOUS
<1>1. {w \in Workers : pc[w] = "calling"} = {}
  BY DEF Init
<1>2. mRunningTask = Cardinality({w \in Workers : pc[w] = "calling"})
  BY <1>1, FS_EmptySet DEF Init
<1>3. /\ pc \in [Workers -> {"check", "lock", "asleep", "taken", "calling", "left"}]
      /\ node \in [Workers -> Tasks \cup {None}] /\ begun \in [Workers -> Nat]
      /\ adding \in [Callers -> Tasks \cup {None}]
      /\ mRunning \in BOOLEAN /\ mCondition \subseteq Workers
  BY DEF Init
<1>6. mNodes \in Seq(Tasks)
  BY DEF Init
<1>4. \A w \in Workers : /\ pc[w] = "asleep" <=> w \in mCondition
                         /\ pc[w] \in {"taken", "calling"} <=> node[w] # None
  BY DEF Init
<1>5. /\ ctl \in {"idle", "clear", "poll"} /\ runs \in 0..MaxRuns
      /\ finished \cup dropped \cup overtaken \cup awaited \subseteq Tasks
  BY PoolAssumption DEF Init
<1>. QED  BY <1>2, <1>3, <1>4, <1>5, <1>6 DEF TypeOK

\* The workers that execute a task.
Calling == {w \in Workers : pc[w] = "calling"}

\* A worker's step keeps the types.
LEMMA TypeWorker ==
  ASSUME TypeOK, NEW w \in Workers, WorkerStep(w) \/ Spurious(w)
  PROVE  TypeOK'
<1>0. Calling \subseteq Workers /\ mRunningTask = Cardinality(Calling)
  BY DEF TypeOK, Calling
<1>1. CASE Check(w)
  <2>1. Calling' = Calling
    BY <1>1 DEF Check, TypeOK, Calling
  <2>. QED  BY <1>0, <1>1, <2>1 DEF Check, TypeOK, Calling, pool, hist, Known
<1>2. CASE Take(w)
  <2>1. Calling' = Calling
    BY <1>2 DEF Take, TypeOK, Calling
  <2>2. CASE mNodes = <<>>
    BY <1>0, <1>2, <2>1, <2>2 DEF Take, TypeOK, Calling, hist
  <2>3. CASE mNodes # <<>>
    <3>1. Head(mNodes) \in Tasks /\ Tail(mNodes) \in Seq(Tasks) /\ Head(mNodes) # None
      BY <2>3, QueueAsSet, PoolAssumption DEF TypeOK
    <3>. QED  BY <1>0, <1>2, <2>1, <2>3, <3>1 DEF Take, Popped, TypeOK, Calling, hist
  <2>. QED  BY <2>2, <2>3
<1>3. CASE Call(w)
  <2>1. Calling' = Calling \cup {w} /\ w \notin Calling
    BY <1>3 DEF Call, TypeOK, Calling
  <2>2. mRunningTask' = Cardinality(Calling')
    BY <1>0, <1>3, <2>1, Counted DEF Call, CountUp
  <2>. QED  BY <1>3, <2>2 DEF Call, TypeOK, Calling
<1>4. CASE Return(w)
  <2>1. Calling' = Calling \ {w} /\ w \in Calling
    BY <1>4 DEF Return, TypeOK, Calling
  <2>2. mRunningTask' = Cardinality(Calling')
    BY <1>0, <1>4, <2>1, Counted DEF Return, CountDown
  <2>3. node[w] \in Tasks
    BY <1>4 DEF Return, TypeOK
  <2>. QED  BY <1>4, <2>2, <2>3 DEF Return, TypeOK, Calling
<1>5. CASE Spurious(w)
  <2>1. Calling' = Calling
    BY <1>5 DEF Spurious, TypeOK, Calling
  <2>. QED  BY <1>0, <1>5, <2>1 DEF Spurious, TypeOK, Calling, hist
<1>. QED  BY <1>1, <1>2, <1>3, <1>4, <1>5 DEF WorkerStep

\* Waking sleepers keeps the types and moves nobody who executes a task.
LEMMA TypeWake ==
  ASSUME TypeOK, NEW S \in SUBSET mCondition, Wake(S)
  PROVE  /\ mCondition' \subseteq Workers
         /\ pc' \in [Workers -> {"check", "lock", "asleep", "taken", "calling", "left"}]
         /\ \A w \in Workers : /\ pc'[w] = "asleep" <=> w \in mCondition'
                               /\ pc'[w] \in {"taken", "calling"} <=> pc[w] \in {"taken", "calling"}
         /\ Calling' = Calling
<1>1. \A w \in Workers : pc'[w] = IF w \in S THEN "check" ELSE pc[w]
  BY DEF Wake
<1>2. \A w \in S : w \in Workers /\ pc[w] = "asleep"
  BY DEF TypeOK
<1>. QED  BY <1>1, <1>2 DEF Wake, TypeOK, Calling

\* notify_one wakes a set of sleepers.
LEMMA NotifyOneWakes ==
  ASSUME NotifyOne
  PROVE  \E S \in SUBSET mCondition : Wake(S)
<1>1. CASE \E w \in mCondition : Wake({w})
  BY <1>1
<1>2. CASE mCondition = {} /\ Wake({})
  BY <1>2
<1>. QED  BY <1>1, <1>2 DEF NotifyOne

LEMMA TypePush ==
  ASSUME TypeOK, NEW c \in Callers, Push(c)
  PROVE  TypeOK'
<1>1. PICK S \in SUBSET mCondition : Wake(S)
  BY NotifyOneWakes DEF Push
<1>2. adding[c] \in Tasks
  BY DEF Push, TypeOK
<1>3. mNodes' \in Seq(Tasks)
  BY <1>2, QueueAsSet DEF Push, TypeOK
<1>4. /\ mCondition' \subseteq Workers
      /\ pc' \in [Workers -> {"check", "lock", "asleep", "taken", "calling", "left"}]
      /\ \A w \in Workers : /\ pc'[w] = "asleep" <=> w \in mCondition'
                            /\ pc'[w] \in {"taken", "calling"} <=> pc[w] \in {"taken", "calling"}
      /\ Calling' = Calling
  BY <1>1, TypeWake
<1>. QED  BY <1>3, <1>4 DEF Push, TypeOK, Calling, hist

LEMMA TypeStopClear ==
  ASSUME TypeOK, StopClear
  PROVE  TypeOK'
<1>1. /\ mCondition' \subseteq Workers
      /\ pc' \in [Workers -> {"check", "lock", "asleep", "taken", "calling", "left"}]
      /\ \A w \in Workers : /\ pc'[w] = "asleep" <=> w \in mCondition'
                            /\ pc'[w] \in {"taken", "calling"} <=> pc[w] \in {"taken", "calling"}
      /\ Calling' = Calling
  BY TypeWake DEF StopClear
<1>2. mNodes' \in Seq(Tasks) /\ ToSet(mNodes) \subseteq Tasks
  BY QueueAsSet DEF StopClear, TypeOK
<1>. QED  BY <1>1, <1>2 DEF StopClear, TypeOK, Calling

\* The flag, the offers and the owner's steps touch no worker.
LEMMA TypeOwner ==
  ASSUME TypeOK,
         \/ \E c \in Callers, t \in Tasks : Offer(c, t)
         \/ Run \/ Stop \/ StopReturn \/ StopGiveUp \/ UNCHANGED vars
  PROVE  TypeOK'
<1>1. CASE \E c \in Callers, t \in Tasks : Offer(c, t)
  BY <1>1 DEF Offer, TypeOK, pool, work, hist
<1>2. CASE Run
  BY <1>2, PoolAssumption DEF Run, TypeOK, work, hist
<1>3. CASE Stop
  <2>1. Offered \subseteq Tasks /\ Executing \subseteq Tasks
    BY DEF TypeOK, Offered, Executing
  <2>. QED  BY <1>3, <2>1 DEF Stop, TypeOK, work
<1>4. CASE StopReturn
  BY <1>4 DEF StopReturn, TypeOK, pool, work, hist
<1>5. CASE StopGiveUp
  BY <1>5 DEF StopGiveUp, TypeOK, pool, work
<1>6. CASE UNCHANGED vars
  BY <1>6 DEF TypeOK, vars, pool, work, hist
<1>. QED  BY <1>1, <1>2, <1>3, <1>4, <1>5, <1>6

LEMMA TypeStep == TypeOK /\ [Next]_vars => TypeOK'
BY TypeWorker, TypePush, TypeStopClear, TypeOwner DEF Next

-----------------------------------------------------------------------------
(* What a stop leaves behind.                                              *)

LEMMA RestInit == Init => IInv
<1>. SUFFICES ASSUME Init PROVE IInv
  OBVIOUS
<1>1. Offered = {} /\ Executing = {}
  BY DEF Init, Offered, Executing
<1>2. ToSet(mNodes) = {}
  BY DEF Init, ToSet
<1>3. OnePlace
  BY <1>1, <1>2 DEF Init, OnePlace, Taken, IsInjective
<1>. QED
  BY <1>1, <1>2, <1>3, TypeInit DEF Init, IInv, OwnerStops, OffersOvertaken, OnlyOvertakenLeft,
       LastTask, OneMoreTask, StillAwaited, StopWaits, NoLostWakeup

\* Only the owner sets the flag, and not while it stops.
LEMMA OwnerStep == OwnerStops /\ [Next]_vars => OwnerStops'
BY DEF OwnerStops, Next, WorkerStep, Check, Take, Call, Return, Spurious, Offer, Push, Run, Stop,
  StopClear, StopReturn, StopGiveUp, vars, pool, work, hist

\* An offer needs the flag; a stop counts what is offered.
LEMMA OffersStep ==
  ASSUME TypeOK, OffersOvertaken, [Next]_vars
  PROVE  OffersOvertaken'
<1>1. ASSUME NEW c \in Callers, NEW t \in Tasks, Offer(c, t)
      PROVE  OffersOvertaken'
  BY <1>1 DEF Offer, Accepts, OffersOvertaken, pool
<1>2. ASSUME NEW c \in Callers, Push(c)
      PROVE  OffersOvertaken'
  <2>1. Offered' \subseteq Offered
    BY <1>2 DEF Push, Offered, TypeOK
  <2>. QED  BY <1>2, <2>1 DEF Push, OffersOvertaken, hist
<1>3. CASE Stop
  <2>1. Offered' = Offered
    BY <1>3 DEF Stop, Offered
  <2>. QED  BY <1>3, <2>1 DEF Stop, OffersOvertaken
<1>4. CASE Run
  BY <1>4 DEF Run, OffersOvertaken
<1>5. ASSUME \/ \E w \in Workers : WorkerStep(w) \/ Spurious(w)
             \/ StopClear \/ StopReturn \/ StopGiveUp \/ UNCHANGED vars
      PROVE  OffersOvertaken'
  <2>1. UNCHANGED <<adding, mRunning, overtaken>>
    BY <1>5 DEF WorkerStep, Check, Take, Call, Return, Spurious, StopClear, StopReturn,
         StopGiveUp, vars, pool, work, hist
  <2>. QED  BY <2>1 DEF OffersOvertaken, Offered
<1>. QED  BY <1>1, <1>2, <1>3, <1>4, <1>5 DEF Next

\* The queue of a stopped pool grows by overtaken offers only.
LEMMA QueueStep ==
  ASSUME TypeOK, OwnerStops, OffersOvertaken, OnlyOvertakenLeft, [Next]_vars
  PROVE  OnlyOvertakenLeft'
<1>1. ASSUME NEW c \in Callers, Push(c)
      PROVE  OnlyOvertakenLeft'
  <2>1. adding[c] \in Tasks /\ adding[c] \in Offered
    BY <1>1 DEF Push, TypeOK, Offered
  <2>2. ToSet(mNodes') \subseteq ToSet(mNodes) \cup {adding[c]}
    BY <1>1, <2>1, QueueAsSet DEF Push, TypeOK
  <2>. QED  BY <1>1, <2>1, <2>2 DEF Push, OffersOvertaken, OnlyOvertakenLeft, hist
<1>2. ASSUME NEW w \in Workers, Take(w)
      PROVE  OnlyOvertakenLeft'
  <2>1. ToSet(mNodes') \subseteq ToSet(mNodes)
    BY <1>2, QueueAsSet DEF Take, Popped, TypeOK
  <2>. QED  BY <1>2, <2>1 DEF Take, OnlyOvertakenLeft, hist
<1>3. CASE StopClear
  BY <1>3, QueueAsSet DEF StopClear, OnlyOvertakenLeft, TypeOK
<1>4. CASE Run \/ Stop
  BY <1>4 DEF Run, Stop, OnlyOvertakenLeft
<1>5. CASE StopReturn \/ StopGiveUp
  <2>1. UNCHANGED <<mNodes, mRunning, overtaken>> /\ ctl # "clear"
    BY <1>5 DEF StopReturn, StopGiveUp, pool, hist
  <2>. QED  BY <2>1 DEF OnlyOvertakenLeft
<1>6. ASSUME \/ \E w \in Workers : Check(w) \/ Call(w) \/ Return(w) \/ Spurious(w)
             \/ \E c \in Callers, t \in Tasks : Offer(c, t)
             \/ UNCHANGED vars
      PROVE  OnlyOvertakenLeft'
  <2>1. UNCHANGED <<mNodes, mRunning, overtaken, ctl>>
    BY <1>6 DEF Check, Call, Return, Spurious, Offer, vars, pool, work, hist
  <2>. QED  BY <2>1 DEF OnlyOvertakenLeft
<1>. QED  BY <1>1, <1>2, <1>3, <1>4, <1>5, <1>6 DEF Next, WorkerStep

\* Once the flag is clear a worker that is past it begins one task, and a worker
\* that is not goes no further.
LEMMA BegunStep ==
  ASSUME TypeOK, LastTask, OneMoreTask, [Next]_vars
  PROVE  LastTask' /\ OneMoreTask'
<1>1. ASSUME NEW w \in Workers, Check(w)
      PROVE  LastTask' /\ OneMoreTask'
  BY <1>1 DEF Check, GoesOn, LastTask, OneMoreTask, TypeOK, pool, hist
<1>2. ASSUME NEW w \in Workers, Take(w)
      PROVE  LastTask' /\ OneMoreTask'
  BY <1>2 DEF Take, LastTask, OneMoreTask, TypeOK, hist
<1>3. ASSUME NEW w \in Workers, Call(w)
      PROVE  LastTask' /\ OneMoreTask'
  BY <1>3 DEF Call, LastTask, OneMoreTask, TypeOK
<1>4. ASSUME NEW w \in Workers, Return(w) \/ Spurious(w)
      PROVE  LastTask' /\ OneMoreTask'
  BY <1>4 DEF Return, Spurious, LastTask, OneMoreTask, TypeOK, hist
<1>5. ASSUME NEW S \in SUBSET mCondition, Wake(S), UNCHANGED <<mRunning, begun>>
      PROVE  LastTask' /\ OneMoreTask'
  <2>1. \A w \in Workers : pc'[w] \in {"lock", "taken"} => pc[w] \in {"lock", "taken"}
    BY <1>5 DEF Wake
  <2>. QED  BY <1>5, <2>1 DEF LastTask, OneMoreTask
<1>6. ASSUME NEW c \in Callers, Push(c)
      PROVE  LastTask' /\ OneMoreTask'
  BY <1>5, <1>6, NotifyOneWakes DEF Push, hist
<1>7. CASE StopClear
  BY <1>5, <1>7 DEF StopClear
<1>8. CASE Run \/ Stop
  BY <1>8 DEF Run, Stop, LastTask, OneMoreTask, work, hist
<1>9. ASSUME \/ \E c \in Callers, t \in Tasks : Offer(c, t)
             \/ StopReturn \/ StopGiveUp \/ UNCHANGED vars
      PROVE  LastTask' /\ OneMoreTask'
  <2>1. UNCHANGED <<pc, begun, mRunning>>
    BY <1>9 DEF Offer, StopReturn, StopGiveUp, vars, pool, work, hist
  <2>. QED  BY <2>1 DEF LastTask, OneMoreTask
<1>. QED  BY <1>1, <1>2, <1>3, <1>4, <1>6, <1>7, <1>8, <1>9 DEF Next, WorkerStep

\* A task stop() waits for stays awaited until it has finished; the counter is zero
\* only when none executes.
LEMMA AwaitedStep ==
  ASSUME TypeOK, StillAwaited, StopWaits, [Next]_vars
  PROVE  StillAwaited' /\ StopWaits'
<1>1. ASSUME NEW w \in Workers, Check(w) \/ Take(w) \/ Spurious(w)
      PROVE  StillAwaited' /\ StopWaits'
  <2>1. Executing \subseteq Executing'
    BY <1>1 DEF Check, Take, Spurious, Executing, TypeOK
  <2>. QED
    BY <1>1, <2>1 DEF Check, Take, Spurious, StillAwaited, StopWaits, pool, hist
<1>2. ASSUME NEW w \in Workers, Call(w)
      PROVE  StillAwaited' /\ StopWaits'
  <2>1. Executing \subseteq Executing'
    BY <1>2 DEF Call, Executing, TypeOK
  <2>. QED  BY <1>2, <2>1 DEF Call, StillAwaited, StopWaits
<1>3. ASSUME NEW w \in Workers, Return(w)
      PROVE  StillAwaited' /\ StopWaits'
  <2>1. Executing \subseteq Executing' \cup {node[w]}
    BY <1>3 DEF Return, Executing, TypeOK
  <2>. QED  BY <1>3, <2>1 DEF Return, StillAwaited, StopWaits
<1>4. ASSUME NEW S \in SUBSET mCondition, Wake(S), UNCHANGED <<node, finished, awaited>>
      PROVE  StillAwaited'
  <2>1. Executing \subseteq Executing'
    BY <1>4 DEF Wake, Executing, TypeOK
  <2>. QED  BY <1>4, <2>1 DEF StillAwaited
<1>5. ASSUME NEW c \in Callers, Push(c)
      PROVE  StillAwaited' /\ StopWaits'
  BY <1>4, <1>5, NotifyOneWakes DEF Push, StopWaits, hist
<1>6. CASE StopClear
  BY <1>4, <1>6 DEF StopClear, StopWaits
<1>7. CASE Stop
  BY <1>7 DEF Stop, StillAwaited, StopWaits, Executing, work
<1>8. CASE StopReturn
  <2>1. Calling \subseteq Workers /\ Cardinality(Calling) = 0
    BY <1>8 DEF StopReturn, TypeOK, Calling
  <2>2. Executing = {}
    BY <2>1, Counted DEF Calling, Executing
  <2>. QED  BY <1>8, <2>2 DEF StopReturn, StillAwaited, StopWaits, Executing, work, hist
<1>9. CASE StopGiveUp
  BY <1>9 DEF StopGiveUp, StillAwaited, StopWaits
<1>10. ASSUME \/ \E c \in Callers, t \in Tasks : Offer(c, t)
              \/ Run \/ UNCHANGED vars
       PROVE  StillAwaited' /\ StopWaits'
  <2>1. UNCHANGED <<pc, node, finished, awaited, ctl>>
    BY <1>10 DEF Offer, Run, vars, work, hist
  <2>. QED  BY <2>1 DEF StillAwaited, StopWaits, Executing
<1>. QED  BY <1>1, <1>2, <1>3, <1>5, <1>6, <1>7, <1>8, <1>9, <1>10 DEF Next, WorkerStep

\* A push wakes a worker if one sleeps, a worker sleeps on an empty queue only, and
\* leaves only when the pool is stopped; a session that begins with a queue finds
\* nothing there but what a stop overtook.
LEMMA WakeupStep ==
  ASSUME TypeOK, OwnerStops, OnlyOvertakenLeft, NoLostWakeup, [Next]_vars
  PROVE  NoLostWakeup'
<1>1. ASSUME NEW w \in Workers, WorkerStep(w) \/ Spurious(w)
      PROVE  NoLostWakeup'
  <2>1. CASE Check(w) /\ mRunning
    BY <1>1, <2>1 DEF Check, GoesOn, NoLostWakeup, Live, TypeOK, pool
  <2>2. CASE Check(w) /\ ~mRunning
    BY <2>2 DEF Check, NoLostWakeup, pool
  <2>3. CASE Take(w) /\ mNodes = <<>>
    BY <2>3 DEF Take, NoLostWakeup
  <2>4. CASE Take(w) /\ mNodes # <<>>
    BY <2>4 DEF Take, NoLostWakeup, Live, TypeOK
  <2>5. CASE Call(w) \/ Return(w) \/ Spurious(w)
    BY <1>1, <2>5 DEF Call, Return, Spurious, NoLostWakeup, Live, TypeOK
  <2>. QED  BY <1>1, <2>1, <2>2, <2>3, <2>4, <2>5 DEF WorkerStep
<1>2. ASSUME NEW c \in Callers, Push(c)
      PROVE  NoLostWakeup'
  <2>1. CASE \E w \in mCondition : Wake({w})
    BY <2>1 DEF Wake, NoLostWakeup, Live, TypeOK
  <2>2. CASE mCondition = {} /\ Wake({})
    BY <2>2 DEF Wake, NoLostWakeup, Live
  <2>. QED  BY <1>2, <2>1, <2>2 DEF Push, NotifyOne
<1>3. CASE StopClear
  BY <1>3 DEF StopClear, NoLostWakeup
<1>4. CASE Stop
  BY <1>4 DEF Stop, NoLostWakeup
<1>5. CASE Run
  BY <1>5 DEF Run, NoLostWakeup, OnlyOvertakenLeft, Live, work, hist
<1>6. ASSUME \/ \E c \in Callers, t \in Tasks : Offer(c, t)
             \/ StopReturn \/ StopGiveUp \/ UNCHANGED vars
      PROVE  NoLostWakeup'
  <2>1. UNCHANGED <<mRunning, mNodes, mCondition, pc, overtaken>>
    BY <1>6 DEF Offer, StopReturn, StopGiveUp, vars, pool, work, hist
  <2>. QED  BY <2>1 DEF NoLostWakeup, Live
<1>. QED  BY <1>1, <1>2, <1>3, <1>4, <1>5, <1>6 DEF Next

-----------------------------------------------------------------------------
(* No task is executed twice.                                              *)

\* A task moves from one place to the next: offered, queued, taken, finished.
LEMMA PlaceStep ==
  ASSUME TypeOK, OnePlace, [Next]_vars
  PROVE  OnePlace'
<1>1. ASSUME NEW w \in Workers, Take(w), mNodes # <<>>
      PROVE  OnePlace'
  <2>1. /\ IsInjective(mNodes') /\ Head(mNodes) \in ToSet(mNodes) /\ Head(mNodes) \in Tasks
        /\ Head(mNodes) \notin ToSet(mNodes') /\ ToSet(mNodes') \subseteq ToSet(mNodes)
    <3>1. mNodes' = Tail(mNodes)
      BY <1>1 DEF Take, Popped
    <3>2. mNodes \in Seq(Tasks) /\ IsInjective(mNodes)
      BY DEF TypeOK, OnePlace
    <3>3. IsInjective(Tail(mNodes)) /\ Head(mNodes) \in ToSet(mNodes) /\ Head(mNodes) \notin ToSet(Tail(mNodes))
      BY <1>1, <3>2, QueueDistinct
    <3>4. Head(mNodes) \in Tasks /\ ToSet(Tail(mNodes)) \subseteq ToSet(mNodes)
      BY <1>1, <3>2, QueueAsSet
    <3>. QED  BY <3>1, <3>3, <3>4
  <2>2. /\ \A v \in Workers : node'[v] = IF v = w THEN Head(mNodes) ELSE node[v]
        /\ Head(mNodes) # None
    BY <1>1, <2>1, PoolAssumption DEF Take, TypeOK
  <2>3. Taken' \subseteq Taken \cup {Head(mNodes)}
    BY <2>2 DEF Taken
  <2>4. Offered' = Offered /\ UNCHANGED <<adding, finished, dropped>>
    BY <1>1 DEF Take, Offered, hist
  <2>5. \A u, v \in Workers : node'[u] = node'[v] /\ node'[u] # None => u = v
    <3>1. \A v \in Workers : node[v] # Head(mNodes)
      BY <2>1, <2>2 DEF OnePlace, Taken
    <3>. QED  BY <2>2, <3>1 DEF OnePlace
  <2>. QED  BY <2>1, <2>3, <2>4, <2>5 DEF OnePlace
<1>2. ASSUME NEW w \in Workers, Return(w)
      PROVE  OnePlace'
  <2>1. node[w] \in Taken /\ node[w] # None
    BY <1>2 DEF Return, TypeOK, Taken
  <2>2. \A v \in Workers : node'[v] = IF v = w THEN None ELSE node[v]
    BY <1>2 DEF Return, TypeOK
  <2>3. Taken' \subseteq Taken \ {node[w]}
    BY <2>1, <2>2 DEF Taken, OnePlace
  <2>4. Offered' = Offered /\ UNCHANGED <<mNodes, adding, dropped>>
    BY <1>2 DEF Return, Offered
  <2>5. finished' = finished \cup {node[w]}
    BY <1>2 DEF Return
  <2>6. \A u, v \in Workers : node'[u] = node'[v] /\ node'[u] # None => u = v
    BY <2>2 DEF OnePlace
  <2>. QED  BY <2>1, <2>3, <2>4, <2>5, <2>6 DEF OnePlace
<1>3. ASSUME NEW c \in Callers, NEW t \in Tasks, Offer(c, t)
      PROVE  OnePlace'
  <2>1. /\ t \notin ToSet(mNodes) \cup Taken \cup Offered \cup finished \cup dropped /\ t # None
        /\ \A d \in Callers : adding'[d] = IF d = c THEN t ELSE adding[d]
    BY <1>3, PoolAssumption DEF Offer, Known, TypeOK
  <2>2. Offered' \subseteq Offered \cup {t}
    BY <2>1 DEF Offered
  <2>3. Taken' = Taken /\ UNCHANGED <<mNodes, node, finished, dropped>>
    BY <1>3 DEF Offer, Taken, pool, work, hist
  <2>4. \A d, e \in Callers : adding'[d] = adding'[e] /\ adding'[d] # None => d = e
    <3>1. \A d \in Callers : adding[d] # t
      BY <2>1 DEF Offered
    <3>. QED  BY <2>1, <3>1 DEF OnePlace
  <2>. QED  BY <2>1, <2>2, <2>3, <2>4 DEF OnePlace
<1>4. ASSUME NEW c \in Callers, Push(c)
      PROVE  OnePlace'
  <2>1. adding[c] \in Tasks /\ adding[c] \in Offered /\ adding[c] # None
    BY <1>4 DEF Push, TypeOK, Offered
  <2>2. /\ IsInjective(mNodes')
        /\ ToSet(mNodes') \subseteq ToSet(mNodes) \cup {adding[c]}
    BY <1>4, <2>1, QueueDistinct, QueueAsSet DEF Push, TypeOK, OnePlace
  <2>3. \A d \in Callers : adding'[d] = IF d = c THEN None ELSE adding[d]
    BY <1>4 DEF Push, TypeOK
  <2>4. Offered' \subseteq Offered \ {adding[c]}
    BY <2>1, <2>3 DEF Offered, OnePlace
  <2>5. Taken' = Taken /\ UNCHANGED <<node, finished, dropped>>
    BY <1>4 DEF Push, Taken, hist
  <2>6. \A d, e \in Callers : adding'[d] = adding'[e] /\ adding'[d] # None => d = e
    BY <2>3 DEF OnePlace
  <2>. QED  BY <2>1, <2>2, <2>4, <2>5, <2>6 DEF OnePlace
<1>5. CASE StopClear
  <2>1. /\ ToSet(mNodes') = {} /\ IsInjective(mNodes')
        /\ dropped' = dropped \cup ToSet(mNodes)
    BY <1>5, QueueAsSet DEF StopClear, IsInjective, TypeOK
  <2>2. Taken' = Taken /\ Offered' = Offered /\ UNCHANGED <<node, adding, finished>>
    BY <1>5 DEF StopClear, Taken, Offered
  <2>. QED  BY <2>1, <2>2 DEF OnePlace
<1>6. ASSUME \/ \E w \in Workers : \/ Check(w) \/ Call(w) \/ Spurious(w)
                                   \/ Take(w) /\ mNodes = <<>>
             \/ Run \/ Stop \/ StopReturn \/ StopGiveUp \/ UNCHANGED vars
      PROVE  OnePlace'
  <2>1. UNCHANGED <<mNodes, node, adding, finished, dropped>>
    BY <1>6 DEF Check, Call, Spurious, Take, Run, Stop, StopReturn, StopGiveUp, vars, pool, work, hist
  <2>. QED  BY <2>1 DEF OnePlace, Taken, Offered
<1>. QED  BY <1>1, <1>2, <1>3, <1>4, <1>5, <1>6 DEF Next, WorkerStep

-----------------------------------------------------------------------------
(* The theorems.                                                           *)

\* The invariant is inductive.
THEOREM Invariant == Spec => []IInv
<1>1. Init => IInv
  BY RestInit
<1>2. IInv /\ [Next]_vars => IInv'
  BY TypeStep, OwnerStep, OffersStep, QueueStep, BegunStep, AwaitedStep, WakeupStep, PlaceStep
  DEF IInv
<1>. QED  BY <1>1, <1>2, PTL DEF Spec

\* TypeOK: the counter counts the workers that execute a task, whatever the order in
\* which they count up and down.
THEOREM TypeCorrect == Spec => []TypeOK
<1>1. IInv => TypeOK
  BY DEF IInv
<1>. QED  BY <1>1, Invariant, PTL

\* OnePlace: a task add_task accepted is never executed twice, nor executed after a
\* stop deleted it.
THEOREM AlwaysOnePlace == Spec => []OnePlace
<1>1. IInv => OnePlace
  BY DEF IInv
<1>. QED  BY <1>1, Invariant, PTL

\* NoLostWakeup: no accepted task waits in a running pool whose workers all sleep.
THEOREM NoWakeupLost == Spec => []NoLostWakeup
<1>1. IInv => NoLostWakeup
  BY DEF IInv
<1>. QED  BY <1>1, Invariant, PTL

\* OneMoreTask: after stop cleared the flag each worker begins one more task at most.
THEOREM AtMostOneMore == Spec => []OneMoreTask
<1>1. IInv => OneMoreTask
  BY DEF IInv
<1>. QED  BY <1>1, Invariant, PTL

\* StopWaits: stop() returns only when what executed at its call has finished.
THEOREM StopHasWaited == Spec => []StopWaits
<1>1. IInv => StopWaits
  BY DEF IInv
<1>. QED  BY <1>1, Invariant, PTL

\* OnlyOvertakenLeft: a stopped pool queues nothing that was offered after the stop.
THEOREM OnlyLateOffers == Spec => []OnlyOvertakenLeft
<1>1. IInv => OnlyOvertakenLeft
  BY DEF IInv
<1>. QED  BY <1>1, Invariant, PTL
=============================================================================
