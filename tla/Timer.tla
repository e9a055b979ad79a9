------------------------------- MODULE Timer -------------------------------
(***************************************************************************)
(* What both timer queues of PureCore promise (RBTimer.h and TWTimer.h     *)
(* offer the same calls): update(delta) moves the clock and calls every    *)
(* timer that is due, until none is; a callback may add, remove and clear  *)
(* timers, its own included.  TimerNode.cpp is common to both queues and is *)
(* modelled here.                                                          *)
(***************************************************************************)
EXTENDS Integers, FiniteSets, Functions

CONSTANTS Starts,     \* start times, relative to the clock
          Intervals,  \* intervals of periodic timers
          Times,      \* numbers of calls asked for, negative for no end
          Deltas,     \* steps of the clock
          MaxTimers,  \* bound: timers ever added
          MaxNow      \* bound: the clock

VARIABLES
    mNow,      \* the clock of the queue
    mTimers,   \* the timers by id
    lastID,    \* the id generator
    calling,   \* the timer whose callback runs, 0 for none
    cleared,   \* the running callback has cleared the queue
    updating   \* update() is running

vars == <<mNow, mTimers, lastID, calling, cleared, updating>>

Timers == [next : Nat, interval : Intervals, left : Int, fromNow : BOOLEAN]
Due == {t \in DOMAIN mTimers : mTimers[t].next <= mNow}

\* A callback runs, or the owner is between two updates.
Outside == calling # 0 \/ ~updating

\* TimerNode::init, with the times add_timer accepts.
NewTimer(start, interval, times, fromNow) ==
    [next |-> mNow + start, interval |-> interval, left |-> times, fromNow |-> fromNow]

\* TimerNode::time_out before the callback: one call less, unless there is no end.
TimedOut(r) == IF r.left > 0 THEN [r EXCEPT !.left = @ - 1] ELSE r

\* TimerNode::next_time.
NextTime(r) == [r EXCEPT !.next = (IF r.fromNow THEN mNow ELSE r.next) + r.interval]

\* Whether the timer is done with after its callback returned ok.
Ends(ok) == calling \notin DOMAIN mTimers \/ ~ok \/ mTimers[calling].left = 0

Init ==
    /\ mNow = 0 /\ mTimers = <<>> /\ lastID = 0
    /\ calling = 0 /\ cleared = FALSE /\ updating = FALSE

\* A callback that cleared the queue adds nothing: see Clear.
Add(start, interval, times, fromNow) ==
    /\ Outside /\ ~cleared /\ lastID < MaxTimers
    /\ lastID' = lastID + 1
    /\ mTimers' = [t \in DOMAIN mTimers \cup {lastID'} |->
                     IF t = lastID' THEN NewTimer(start, interval, times, fromNow)
                                    ELSE mTimers[t]]
    /\ UNCHANGED <<mNow, calling, cleared, updating>>

\* A timer that is being called is only marked: its callback still runs.
Remove(t) ==
    /\ Outside /\ t \in DOMAIN mTimers
    /\ mTimers' = IF t = calling THEN [mTimers EXCEPT ![t].left = 0]
                                 ELSE Restrict(mTimers, DOMAIN mTimers \ {t})
    /\ UNCHANGED <<mNow, lastID, calling, cleared, updating>>

\* Unlike Remove, this frees the timer that is being called as well.  The queue
\* goes on with the freed node; it stays harmless while nothing reuses it.
Clear ==
    /\ Outside
    /\ mTimers' = <<>>
    /\ cleared' = (calling # 0)
    /\ UNCHANGED <<mNow, lastID, calling, updating>>

\* init() and release() give every timer back and turn the clock to 0.
Reset ==
    /\ ~updating
    /\ mTimers' = <<>> /\ mNow' = 0
    /\ UNCHANGED <<lastID, calling, cleared, updating>>

Update(delta) ==
    /\ ~updating /\ mNow + delta <= MaxNow
    /\ mNow' = mNow + delta
    /\ updating' = TRUE
    /\ UNCHANGED <<mTimers, lastID, calling, cleared>>

Fire(t) ==
    /\ updating /\ calling = 0 /\ t \in Due
    /\ calling' = t
    /\ mTimers' = [mTimers EXCEPT ![t] = TimedOut(@)]
    /\ UNCHANGED <<mNow, lastID, cleared, updating>>

Return(ok) ==
    /\ calling # 0
    /\ mTimers' = IF Ends(ok) THEN Restrict(mTimers, DOMAIN mTimers \ {calling})
                              ELSE [mTimers EXCEPT ![calling] = NextTime(@)]
    /\ calling' = 0 /\ cleared' = FALSE
    /\ UNCHANGED <<mNow, lastID, updating>>

Done ==
    /\ updating /\ calling = 0 /\ Due = {}
    /\ updating' = FALSE
    /\ UNCHANGED <<mNow, mTimers, lastID, calling, cleared>>

Run == (\E t \in 1..MaxTimers : Fire(t)) \/ (\E ok \in BOOLEAN : Return(ok)) \/ Done

Next ==
    \/ Run \/ Clear \/ Reset
    \/ \E s \in Starts, i \in Intervals, n \in Times, b \in BOOLEAN : Add(s, i, n, b)
    \/ \E t \in 1..MaxTimers : Remove(t)
    \/ \E d \in Deltas : Update(d)

Spec == Init /\ [][Next]_vars

-----------------------------------------------------------------------------
\* Every variable keeps its type, and a timer that rests has calls left and, when
\* no update runs, lies in the future or was added since the last one.
TypeOK ==
    /\ mNow \in 0..MaxNow /\ lastID \in 0..MaxTimers
    /\ DOMAIN mTimers \subseteq 1..lastID
    /\ \A t \in DOMAIN mTimers : mTimers[t] \in Timers /\ (t # calling => mTimers[t].left # 0)
    /\ calling \in 0..lastID /\ cleared \in BOOLEAN /\ updating \in BOOLEAN
    /\ calling # 0 => updating
=============================================================================
