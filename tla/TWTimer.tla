------------------------------ MODULE TWTimer ------------------------------
(***************************************************************************)
(* The timer queue of PureCore as a hierarchy of wheels (TWTimer.cpp).     *)
(* Wheel 0 has one slot per tick, a slot of wheel i covers a whole turn of *)
(* wheel i-1, and what lies beyond the last wheel waits in an overflow     *)
(* list.  A wheel that comes round hands the next slot of the wheel above  *)
(* down.  It is to behave as Timer.                                        *)
(***************************************************************************)
EXTENDS Integers, Functions, SequencesExt

CONSTANTS Starts, Intervals, Times, Deltas, MaxTimers, MaxNow,
          StepCount   \* slots of a wheel

VARIABLES
    mNow, mTimers, lastID, calling, cleared,   \* as in Timer
    at,      \* the clock of each wheel
    lists,   \* the timers of each slot and of the overflow list, in order
    pc,      \* where update() is
    step     \* the slot of wheel 0 whose timers are being called

vars == <<mNow, mTimers, lastID, calling, cleared, at, lists, pc, step>>

Queue == INSTANCE Timer WITH updating <- (pc # "idle")

Wheels == 0..3
Slots == 0..(StepCount - 1)
Over == <<4, 0>>   \* mOverflowWheel, behind the wheels
Places == (Wheels \X Slots) \cup {Over}

\* init() multiplies the interval by the number of slots from wheel to wheel; the
\* fifth one is what the last wheel covers.
StepIntervals ==
    LET S == StepCount IN <<1, S, S * S, S * S * S, S * S * S * S>>
StepInterval(i) == StepIntervals[i + 1]

Empty == [p \in Places |-> <<>>]

Init ==
    /\ mNow = 0 /\ mTimers = <<>> /\ lastID = 0 /\ calling = 0 /\ cleared = FALSE
    /\ at = [i \in Wheels |-> 0] /\ lists = Empty
    /\ pc = "idle" /\ step = 0

-----------------------------------------------------------------------------
\* Mutant of Fits: the last slot is taken to be one further.
FitsOneMore(w, i, next) ==
    next <= w[i] \/ next \div StepInterval(i) - w[i] \div StepInterval(i) <= StepCount

\* TimerWheel::add_timer: whether wheel i takes a timer that is due at next, the
\* clocks of the wheels being w, and in which slot.
Fits(w, i, next) ==
    next <= w[i] \/ next \div StepInterval(i) - w[i] \div StepInterval(i) < StepCount

Slot(w, i, next) ==
    ((IF next > w[i] THEN next ELSE w[i]) \div StepInterval(i)) % StepCount

\* TWTimer::add_timer_node: the first wheel that takes it, or the overflow list.
Home(w, next) ==
    LET fit == {i \in Wheels : Fits(w, i, next)}
    IN  IF fit = {} THEN Over ELSE LET i == Min(fit) IN <<i, Slot(w, i, next)>>

Put(ls, w, t, next) == [ls EXCEPT ![Home(w, next)] = Append(@, t)]
Leave(ls, t) == [p \in Places |-> RemoveFirst(ls[p], t)]

Current(w, i) == <<i, (w[i] \div StepInterval(i)) % StepCount>>
IsNextWheel(w, i) == (w[i] \div StepInterval(i)) % StepCount = 0

\* The timers of place p are put where they belong by now, one after the other.
HandDown(ls, w, p) ==
    LET down[n \in 0..Len(ls[p])] ==
          IF n = 0 THEN [ls EXCEPT ![p] = <<>>]
          ELSE Put(down[n - 1], w, ls[p][n], mTimers[ls[p][n]].next)
    IN  down[Len(ls[p])]

\* Mutant of OverflowDue: the overflow list is forgotten.
OverflowNever(w, i) == FALSE

\* The last wheel has come round.
OverflowDue(w, i) == i = 3 /\ IsNextWheel(w, i)

\* One turn of wheel i in try_turn_wheel: wheel 0 stands at a multiple of its own
\* size, so the inner loop runs once or not at all.
TurnWheel(s, i) ==
    IF s.at[i] + StepInterval(i) > s.at[0] THEN s
    ELSE LET w == [s.at EXCEPT ![i] = @ + StepInterval(i)]
             l == HandDown(s.lists, w, Current(w, i))
         IN  [at |-> w, lists |-> IF OverflowDue(w, i) THEN HandDown(l, w, Over) ELSE l]

Turned(s) == TurnWheel(TurnWheel(TurnWheel(s, 1), 2), 3)

-----------------------------------------------------------------------------
Add(start, interval, times, fromNow) ==
    /\ Queue!Outside /\ ~cleared /\ lastID < MaxTimers
    /\ lastID' = lastID + 1
    /\ LET r == Queue!NewTimer(start, interval, times, fromNow)
       IN  /\ mTimers' = [t \in DOMAIN mTimers \cup {lastID'} |->
                            IF t = lastID' THEN r ELSE mTimers[t]]
           /\ lists' = Put(lists, at, lastID', r.next)
    /\ UNCHANGED <<mNow, calling, cleared, at, pc, step>>

RemoveTimer(t) ==
    /\ Queue!Outside /\ t \in DOMAIN mTimers
    /\ IF t = calling
       THEN mTimers' = [mTimers EXCEPT ![t].left = 0] /\ UNCHANGED lists
       ELSE mTimers' = Restrict(mTimers, DOMAIN mTimers \ {t}) /\ lists' = Leave(lists, t)
    /\ UNCHANGED <<mNow, lastID, calling, cleared, at, pc, step>>

Clear ==
    /\ Queue!Outside
    /\ mTimers' = <<>> /\ lists' = Empty
    /\ cleared' = (calling # 0)
    /\ UNCHANGED <<mNow, lastID, calling, at, pc, step>>

\* init(): release() and wheels that start at 0 again.
Reset ==
    /\ pc = "idle"
    /\ mTimers' = <<>> /\ mNow' = 0
    /\ at' = [i \in Wheels |-> 0] /\ lists' = Empty
    /\ UNCHANGED <<lastID, calling, cleared, pc, step>>

Update(delta) ==
    /\ pc = "idle" /\ mNow + delta <= MaxNow
    /\ mNow' = mNow + delta
    /\ pc' = "loop"
    /\ UNCHANGED <<mTimers, lastID, calling, cleared, at, lists, step>>

\* The loop of update(): wheel 0 moves on by a tick, the wheels above turn when it
\* has come round, and then the timers of the slot it has left are called.
Tick ==
    /\ pc = "loop" /\ at[0] + 1 <= mNow
    /\ step' = Current(at, 0)[2]
    /\ LET s == [at |-> [at EXCEPT ![0] = @ + 1], lists |-> lists]
           n == IF IsNextWheel(s.at, 0) THEN Turned(s) ELSE s
       IN  at' = n.at /\ lists' = n.lists
    /\ pc' = "slot"
    /\ UNCHANGED <<mNow, mTimers, lastID, calling, cleared>>

\* After the loop the slot of the present tick is called too.
LastSlot ==
    /\ pc = "loop" /\ at[0] + 1 > mNow
    /\ step' = Current(at, 0)[2]
    /\ pc' = "last"
    /\ UNCHANGED <<mNow, mTimers, lastID, calling, cleared, at, lists>>

Slotted == lists[<<0, step>>]

\* try_trigger_timer looks at the front of the slot only.
FrontDue ==
    /\ Slotted # <<>>
    /\ mTimers[Head(Slotted)].next <= mNow /\ mTimers[Head(Slotted)].left # 0

Fire ==
    /\ pc \in {"slot", "last"} /\ calling = 0 /\ FrontDue
    /\ calling' = Head(Slotted)
    /\ mTimers' = [mTimers EXCEPT ![calling'] = Queue!TimedOut(@)]
    /\ UNCHANGED <<mNow, lastID, cleared, at, lists, pc, step>>

Return(ok) ==
    /\ calling # 0
    /\ IF Queue!Ends(ok)
       THEN /\ mTimers' = Restrict(mTimers, DOMAIN mTimers \ {calling})
            /\ lists' = Leave(lists, calling)
       ELSE /\ mTimers' = [mTimers EXCEPT ![calling] = Queue!NextTime(@)]
            /\ lists' = Put(Leave(lists, calling), at, calling, mTimers'[calling].next)
    /\ calling' = 0 /\ cleared' = FALSE
    /\ UNCHANGED <<mNow, lastID, at, pc, step>>

SlotDone ==
    /\ pc \in {"slot", "last"} /\ calling = 0 /\ ~FrontDue
    /\ pc' = IF pc = "last" THEN "idle" ELSE "loop"
    /\ step' = 0
    /\ UNCHANGED <<mNow, mTimers, lastID, calling, cleared, at, lists>>

Run == Tick \/ LastSlot \/ Fire \/ (\E ok \in BOOLEAN : Return(ok)) \/ SlotDone

Next ==
    \/ Run \/ Clear \/ Reset
    \/ \E s \in Starts, i \in Intervals, n \in Times, b \in BOOLEAN : Add(s, i, n, b)
    \/ \E t \in 1..MaxTimers : RemoveTimer(t)
    \/ \E d \in Deltas : Update(d)

Spec == Init /\ [][Next]_vars

-----------------------------------------------------------------------------
\* When wheel i will next look at slot k; when the overflow list is looked at.
Reached(i, k) ==
    CHOOSE x \in at[i] \div StepInterval(i) .. at[i] \div StepInterval(i) + StepCount - 1 :
        x % StepCount = k
OverflowAt == (at[3] \div StepInterval(4) + 1) * StepInterval(4)

\* Every timer is in one place once, and that place is reached no later than the
\* timer is due: whatever the wheels hand down, none is forgotten or passed by.
InPlace ==
    /\ \A p \in Places : IsInjective(lists[p])
    /\ \A t \in 1..MaxTimers :
         LET in == {p \in Places : t \in ToSet(lists[p])}
         IN  IF t \in DOMAIN mTimers THEN \E p \in Places : in = {p} ELSE in = {}
    /\ \A t \in ToSet(lists[Over]) : mTimers[t].next >= OverflowAt
    /\ \A i \in Wheels, k \in Slots : \A t \in ToSet(lists[<<i, k>>]) \ {calling} :
         LET begin == Reached(i, k) * StepInterval(i)
         IN  \/ i = 0 /\ mTimers[t].next <= mNow
             \/ begin <= mTimers[t].next /\ mTimers[t].next < begin + StepInterval(i)
=============================================================================
