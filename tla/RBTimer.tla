------------------------------ MODULE RBTimer ------------------------------
(***************************************************************************)
(* The timer queue of PureCore as a multimap ordered by time (RBTimer.cpp).*)
(* It is to behave as Timer, and to call the timers in the order of their  *)
(* times.  The key of an entry and the time in the node it points to are   *)
(* two copies of one number; the model keeps both.                         *)
(***************************************************************************)
EXTENDS Integers, Functions, SequencesExt

CONSTANTS Starts, Intervals, Times, Deltas, MaxTimers, MaxNow

VARIABLES
    mNow, mTimers, lastID, calling, cleared, updating,   \* as in Timer
    mSortTimers   \* the multimap: entries <<time, timer>> by ascending time

vars == <<mNow, mTimers, lastID, calling, cleared, updating, mSortTimers>>

Queue == INSTANCE Timer

Init == Queue!Init /\ mSortTimers = <<>>

\* std::multimap::insert puts a new entry behind those with the same key.
Before(m, key) == {i \in 1..Len(m) : m[i][1] <= key}
Inserted(m, key, t) == InsertAt(m, Cardinality(Before(m, key)) + 1, <<key, t>>)

\* The entries remove_timer can find: those of the timer under its present time.
Sorted(t) == {i \in 1..Len(mSortTimers) : mSortTimers[i] = <<mTimers[t].next, t>>}
Unsorted(t) ==
    IF Sorted(t) = {} THEN mSortTimers ELSE RemoveAt(mSortTimers, Min(Sorted(t)))

Add(start, interval, times, fromNow) ==
    /\ Queue!Outside /\ ~cleared /\ lastID < MaxTimers
    /\ lastID' = lastID + 1
    /\ LET r == Queue!NewTimer(start, interval, times, fromNow)
       IN  /\ mTimers' = [t \in DOMAIN mTimers \cup {lastID'} |->
                            IF t = lastID' THEN r ELSE mTimers[t]]
           /\ mSortTimers' = Inserted(mSortTimers, r.next, lastID')
    /\ UNCHANGED <<mNow, calling, cleared, updating>>

RemoveTimer(t) ==
    /\ Queue!Outside /\ t \in DOMAIN mTimers
    /\ IF t = calling
       THEN mTimers' = [mTimers EXCEPT ![t].left = 0] /\ UNCHANGED mSortTimers
       ELSE mTimers' = Restrict(mTimers, DOMAIN mTimers \ {t}) /\ mSortTimers' = Unsorted(t)
    /\ UNCHANGED <<mNow, lastID, calling, cleared, updating>>

\* Mutant of Unlisted: clear_timer frees the nodes and keeps the entries.
StillListed == mSortTimers

Unlisted == <<>>

Clear ==
    /\ Queue!Outside
    /\ mTimers' = <<>> /\ mSortTimers' = Unlisted
    /\ cleared' = (calling # 0)
    /\ UNCHANGED <<mNow, lastID, calling, updating>>

\* init() and release().
Reset ==
    /\ ~updating
    /\ mTimers' = <<>> /\ mSortTimers' = <<>> /\ mNow' = 0
    /\ UNCHANGED <<lastID, calling, cleared, updating>>

Update(delta) ==
    /\ ~updating /\ mNow + delta <= MaxNow
    /\ mNow' = mNow + delta
    /\ updating' = TRUE
    /\ UNCHANGED <<mTimers, lastID, calling, cleared, mSortTimers>>

\* The loop of update() looks at the first entry, by the time in its node.
FirstDue ==
    /\ mSortTimers # <<>>
    /\ LET r == mTimers[Head(mSortTimers)[2]] IN r.next <= mNow /\ r.left # 0

\* The entry is erased before the callback runs.
Fire ==
    /\ updating /\ calling = 0 /\ FirstDue
    /\ calling' = Head(mSortTimers)[2]
    /\ mSortTimers' = Tail(mSortTimers)
    /\ mTimers' = [mTimers EXCEPT ![calling'] = Queue!TimedOut(@)]
    /\ UNCHANGED <<mNow, lastID, cleared, updating>>

Return(ok) ==
    /\ calling # 0
    /\ IF Queue!Ends(ok)
       THEN /\ mTimers' = Restrict(mTimers, DOMAIN mTimers \ {calling})
            /\ UNCHANGED mSortTimers
       ELSE /\ mTimers' = [mTimers EXCEPT ![calling] = Queue!NextTime(@)]
            /\ mSortTimers' = Inserted(mSortTimers, mTimers'[calling].next, calling)
    /\ calling' = 0 /\ cleared' = FALSE
    /\ UNCHANGED <<mNow, lastID, updating>>

Done ==
    /\ updating /\ calling = 0 /\ ~FirstDue
    /\ updating' = FALSE
    /\ UNCHANGED <<mNow, mTimers, lastID, calling, cleared, mSortTimers>>

Run == Fire \/ (\E ok \in BOOLEAN : Return(ok)) \/ Done

Next ==
    \/ Run \/ Clear \/ Reset
    \/ \E s \in Starts, i \in Intervals, n \in Times, b \in BOOLEAN : Add(s, i, n, b)
    \/ \E t \in 1..MaxTimers : RemoveTimer(t)
    \/ \E d \in Deltas : Update(d)

Spec == Init /\ [][Next]_vars

-----------------------------------------------------------------------------
\* The multimap and the table of timers tell one story: an entry for every timer
\* but the one being called, under the time its node holds, in ascending order.
SortAgrees ==
    /\ Queue!TypeOK
    /\ \A i, j \in 1..Len(mSortTimers) : i < j => mSortTimers[i][1] <= mSortTimers[j][1]
    /\ IsInjective(mSortTimers)
    /\ ToSet(mSortTimers) = {<<mTimers[t].next, t>> : t \in DOMAIN mTimers \ {calling}}
=============================================================================
