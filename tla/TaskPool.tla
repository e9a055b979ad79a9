------------------------------ MODULE TaskPool ------------------------------
(***************************************************************************)
(* The task pool of PureCore (PureCore/src/Task.cpp).  A fixed set of      *)
(* worker threads takes tasks from one queue under a mutex and sleeps in a *)
(* condition variable while the queue is empty.  Any thread may call       *)
(* add_task; one owner calls run and stop.  The running flag is an atomic  *)
(* that is read and written outside the mutex, so every call is split at   *)
(* the points where another thread can run.                                *)
(***************************************************************************)
EXTENDS Naturals, FiniteSets, SequencesExt

CONSTANTS Workers,   \* the threads the constructor makes
          Callers,   \* the threads that call add_task
          Tasks,     \* the functions handed to add_task, each at most once
          None,
          MaxRuns    \* bound: how often the owner calls run

ASSUME PoolAssumption == IsFiniteSet(Workers) /\ Workers # {} /\ None \notin Tasks /\ MaxRuns \in Nat

VARIABLES
    mRunning,      \* the atomic flag
    mNodes,        \* the queue, guarded by the mutex
    mCondition,    \* the workers asleep in the condition variable
    mRunningTask,  \* the atomic counter of tasks being executed
    pc,            \* where each worker is in work()
    node,          \* the task a worker has taken
    adding,        \* the task a caller is about to push, past the check
    ctl,           \* where the owner is in stop()
    runs,          \* calls of run so far
    finished,      \* history: tasks whose function has returned
    dropped,       \* history: tasks stop deleted unexecuted
    overtaken,     \* history: offered before a stop that is now past
    begun,         \* history: tasks each worker began since the last stop
    awaited        \* history: tasks executing when the last stop began

pool == <<mRunning, mNodes, mCondition, mRunningTask>>
work == <<pc, node>>
hist == <<finished, dropped, overtaken, begun, awaited>>
vars == <<pool, work, adding, ctl, runs, hist>>

Executing == {node[w] : w \in {v \in Workers : pc[v] = "calling"}}
Taken == {node[w] : w \in Workers} \ {None}
Offered == {adding[c] : c \in Callers} \ {None}
Known == ToSet(mNodes) \cup Taken \cup Offered \cup finished \cup dropped
Live == {w \in Workers : pc[w] # "left"}

Init ==
    /\ mRunning = FALSE /\ mNodes = <<>> /\ mCondition = {} /\ mRunningTask = 0
    /\ pc = [w \in Workers |-> "check"] /\ node = [w \in Workers |-> None]
    /\ adding = [c \in Callers |-> None]
    /\ ctl = "idle" /\ runs = 0
    /\ finished = {} /\ dropped = {} /\ overtaken = {}
    /\ begun = [w \in Workers |-> 0] /\ awaited = {}

(***************************************************************************)
(* work(): one action per interval between two visible operations.         *)
(***************************************************************************)
\* Mutant of GoesOn: the loop first drains the queue.
DrainsFirst == mRunning \/ mNodes # <<>>

\* The loop condition; a thread that leaves is never started again.
GoesOn == mRunning
Check(w) ==
    /\ pc[w] = "check"
    /\ pc' = [pc EXCEPT ![w] = IF GoesOn THEN "lock" ELSE "left"]
    /\ UNCHANGED <<pool, node, adding, ctl, runs, hist>>

Popped == Tail(mNodes)

\* Under the mutex: take the front task, or go to sleep.
Take(w) ==
    /\ pc[w] = "lock"
    /\ IF mNodes = <<>>
       THEN /\ mCondition' = mCondition \cup {w}
            /\ pc' = [pc EXCEPT ![w] = "asleep"]
            /\ UNCHANGED <<mNodes, node>>
       ELSE /\ mNodes' = Popped
            /\ node' = [node EXCEPT ![w] = Head(mNodes)]
            /\ pc' = [pc EXCEPT ![w] = "taken"]
            /\ UNCHANGED mCondition
    /\ UNCHANGED <<mRunning, mRunningTask, adding, ctl, runs, hist>>

\* wait() has no predicate: it may also return unasked.
Spurious(w) ==
    /\ w \in mCondition
    /\ mCondition' = mCondition \ {w}
    /\ pc' = [pc EXCEPT ![w] = "check"]
    /\ UNCHANGED <<mRunning, mNodes, mRunningTask, node, adding, ctl, runs, hist>>

\* Mutants of CountUp and CountDown: the counter is left alone.
CountKept == mRunningTask

CountUp == mRunningTask + 1
CountDown == mRunningTask - 1

Call(w) ==
    /\ pc[w] = "taken"
    /\ mRunningTask' = CountUp
    /\ pc' = [pc EXCEPT ![w] = "calling"]
    /\ begun' = [begun EXCEPT ![w] = @ + 1]
    /\ UNCHANGED <<mRunning, mNodes, mCondition, node, adding, ctl, runs,
                   finished, dropped, overtaken, awaited>>

Return(w) ==
    /\ pc[w] = "calling"
    /\ mRunningTask' = CountDown
    /\ finished' = finished \cup {node[w]}
    /\ node' = [node EXCEPT ![w] = None]
    /\ pc' = [pc EXCEPT ![w] = "check"]
    /\ UNCHANGED <<mRunning, mNodes, mCondition, adding, ctl, runs,
                   dropped, overtaken, begun, awaited>>

(***************************************************************************)
(* add_task(): the flag is tested before the mutex is taken.               *)
(***************************************************************************)
\* Mutant of Accepts: the flag is not tested.
AcceptsAlways == TRUE

Accepts == mRunning

Offer(c, t) ==
    /\ adding[c] = None /\ t \notin Known
    /\ Accepts
    /\ adding' = [adding EXCEPT ![c] = t]
    /\ UNCHANGED <<pool, work, ctl, runs, hist>>

Wake(S) ==
    /\ mCondition' = mCondition \ S
    /\ pc' = [w \in Workers |-> IF w \in S THEN "check" ELSE pc[w]]

\* Mutant of NotifyOne: nobody is told of the push.
NotifyNone == Wake({})

\* notify_one wakes one sleeper if there is one.
NotifyOne ==
    \/ \E w \in mCondition : Wake({w})
    \/ mCondition = {} /\ Wake({})

Push(c) ==
    /\ adding[c] # None
    /\ mNodes' = Append(mNodes, adding[c])
    /\ NotifyOne
    /\ adding' = [adding EXCEPT ![c] = None]
    /\ UNCHANGED <<mRunning, mRunningTask, node, ctl, runs, hist>>

(***************************************************************************)
(* run() and stop(), called by the owner.                                  *)
(***************************************************************************)
Run ==
    /\ ctl = "idle" /\ runs < MaxRuns
    /\ mRunning' = TRUE
    /\ runs' = runs + 1
    /\ UNCHANGED <<mNodes, mCondition, mRunningTask, work, adding, ctl, hist>>

Stop ==
    /\ ctl = "idle"
    /\ mRunning' = FALSE
    /\ ctl' = "clear"
    /\ overtaken' = overtaken \cup Offered
    /\ begun' = [w \in Workers |-> 0]
    /\ awaited' = Executing
    /\ UNCHANGED <<mNodes, mCondition, mRunningTask, work, adding, runs,
                   finished, dropped>>

\* Under the mutex: delete what is queued and notify_all.
StopClear ==
    /\ ctl = "clear"
    /\ dropped' = dropped \cup ToSet(mNodes)
    /\ mNodes' = <<>>
    /\ Wake(mCondition)
    /\ ctl' = "poll"
    /\ UNCHANGED <<mRunning, mRunningTask, node, adding, runs,
                   finished, overtaken, begun, awaited>>

\* The loop that polls the counter every 10 ms; with timeout <= 0 it has no end
\* of its own.
StopReturn ==
    /\ ctl = "poll" /\ mRunningTask = 0
    /\ ctl' = "idle"
    /\ UNCHANGED <<pool, work, adding, runs, hist>>

\* With timeout > 0 the poll gives up.
StopGiveUp ==
    /\ ctl = "poll" /\ mRunningTask # 0
    /\ ctl' = "idle"
    /\ awaited' = {}
    /\ UNCHANGED <<pool, work, adding, runs, finished, dropped, overtaken, begun>>

WorkerStep(w) == Check(w) \/ Take(w) \/ Call(w) \/ Return(w)
Next ==
    \/ \E w \in Workers : WorkerStep(w) \/ Spurious(w)
    \/ \E c \in Callers : Push(c) \/ \E t \in Tasks : Offer(c, t)
    \/ Run \/ Stop \/ StopClear \/ StopReturn \/ StopGiveUp

Spec == Init /\ [][Next]_vars

\* Threads that can run are scheduled and a task's function returns; nothing is
\* assumed of what callers offer, of run and stop, or of spurious wake-ups.
Fairness ==
    /\ \A w \in Workers : WF_vars(WorkerStep(w))
    /\ \A c \in Callers : WF_vars(Push(c))
    /\ WF_vars(StopClear) /\ WF_vars(StopReturn)

LiveSpec == Spec /\ Fairness

-----------------------------------------------------------------------------
\* Every variable keeps its type, and a worker sleeps exactly when it is in the
\* condition variable and holds a task exactly between taking and returning.
TypeOK ==
    /\ mRunning \in BOOLEAN /\ mNodes \in Seq(Tasks) /\ mCondition \subseteq Workers
    /\ mRunningTask = Cardinality({w \in Workers : pc[w] = "calling"})
    /\ pc \in [Workers -> {"check", "lock", "asleep", "taken", "calling", "left"}]
    /\ \A w \in Workers : /\ pc[w] = "asleep" <=> w \in mCondition
                          /\ pc[w] \in {"taken", "calling"} <=> node[w] # None
    /\ node \in [Workers -> Tasks \cup {None}]
    /\ adding \in [Callers -> Tasks \cup {None}]
    /\ ctl \in {"idle", "clear", "poll"} /\ runs \in 0..MaxRuns
    /\ finished \cup dropped \cup overtaken \cup awaited \subseteq Tasks
    /\ begun \in [Workers -> Nat]

\* A task add_task accepted is in one place only: on its way to the queue, once
\* in the queue, with one worker, finished, or dropped by stop.  So it is never
\* executed twice, nor executed after stop deleted it.
OnePlace ==
    /\ IsInjective(mNodes)
    /\ \A w, v \in Workers : node[w] = node[v] /\ node[w] # None => w = v
    /\ \A c, d \in Callers : adding[c] = adding[d] /\ adding[c] # None => c = d
    /\ Taken \cap ToSet(mNodes) = {}
    /\ Offered \cap (ToSet(mNodes) \cup Taken) = {}
    /\ (finished \cup dropped) \cap (ToSet(mNodes) \cup Taken \cup Offered) = {}
    /\ finished \cap dropped = {}

\* No wake-up is lost within a session: while the pool runs, a queued task that
\* was not overtaken by a stop never waits with every remaining worker asleep.
NoLostWakeup ==
    mRunning /\ mNodes # <<>> /\ Live # {} /\ Live \subseteq mCondition
        => ToSet(mNodes) \subseteq overtaken

\* After stop has cleared the flag every worker begins one more task at most,
\* the one it had taken or was about to take, until the owner calls run again.
OneMoreTask == ~mRunning => \A w \in Workers : begun[w] <= 1

\* A stop that polled the counter down to zero returns only when the tasks that
\* were executing when it was called have finished.
StopWaits == ctl = "idle" => awaited \subseteq finished

\* What the queue holds while the pool is stopped was offered before that stop: a
\* caller that tested the flag early pushes late, nothing else gets in.
OnlyOvertakenLeft == ~mRunning /\ ctl # "clear" => ToSet(mNodes) \subseteq overtaken

\* A queued task is taken, or dropped by a stop, unless every worker has left
\* or a stop overtook its push.
Served ==
    \A t \in Tasks : (t \in ToSet(mNodes) /\ t \notin overtaken)
                        ~> (t \notin ToSet(mNodes) \/ Live = {})

\* stop without a timeout returns once the running tasks have returned.
StopReturns == (ctl = "poll") ~> (ctl = "idle")
=============================================================================
