----------------------------- MODULE SnowIDGen -----------------------------
(***************************************************************************)
(* The generator of PureCore whose ids are a node, a second and a number   *)
(* within the second (SnowIDGen.cpp).  When the numbers of a second are    *)
(* used up gen_id sleeps until the clock shows another one.  The two       *)
(* members the constructor leaves uninitialised start with any value.      *)
(***************************************************************************)
EXTENDS Naturals, Sequences, FiniteSets

CONSTANTS MaxNumber,  \* the greatest number within a second (UINT16_MAX)
          MaxTime,    \* bound: the clock
          MaxBack     \* bound: how often the clock is set back

VARIABLES
    clock,      \* the system clock in seconds
    mLastTime,
    mLastID,
    sleeping,   \* gen_id waits for another second
    issued,     \* history: the ids given out, in order
    backs       \* history: how often the clock was set back, or reset called

vars == <<clock, mLastTime, mLastID, sleeping, issued, backs>>

Init ==
    /\ clock = 0
    /\ mLastTime \in 0..MaxTime /\ mLastID \in 0..MaxNumber
    /\ sleeping = FALSE /\ issued = <<>> /\ backs = 0

\* check_time(): another second starts with number 0 again.
NumberAt == IF clock # mLastTime THEN 0 ELSE mLastID

\* Mutant of UsedUp: one number too many.
UsedUpLate(n) == n > MaxNumber

UsedUp(n) == n >= MaxNumber

\* gen_id(): the answer is packed with shifts, here a pair of second and number.
GenID ==
    /\ mLastTime' = clock
    /\ IF UsedUp(NumberAt)
       THEN sleeping' = TRUE /\ mLastID' = NumberAt /\ UNCHANGED issued
       ELSE /\ sleeping' = FALSE
            /\ mLastID' = (NumberAt + 1) % (MaxNumber + 1)
            /\ issued' = Append(issued, <<clock, mLastID'>>)
    /\ UNCHANGED <<clock, backs>>

Tick ==
    /\ clock < MaxTime
    /\ clock' = clock + 1
    /\ UNCHANGED <<mLastTime, mLastID, sleeping, issued, backs>>

SetBack ==
    /\ clock > 0 /\ backs < MaxBack
    /\ clock' = clock - 1 /\ backs' = backs + 1
    /\ UNCHANGED <<mLastTime, mLastID, sleeping, issued>>

\* reset() with the same node starts the present second again.
Reset ==
    /\ ~sleeping /\ backs < MaxBack
    /\ mLastID' = 0 /\ backs' = backs + 1
    /\ UNCHANGED <<clock, mLastTime, sleeping, issued>>

Next == GenID \/ Tick \/ SetBack \/ Reset
Spec == Init /\ [][Next]_vars

-----------------------------------------------------------------------------
\* Every variable keeps its type, the number its width, and no id has number 0.
TypeOK ==
    /\ clock \in 0..MaxTime /\ mLastTime \in 0..MaxTime /\ mLastID \in 0..MaxNumber
    /\ sleeping \in BOOLEAN /\ issued \in Seq((0..MaxTime) \X (1..MaxNumber))
    /\ backs \in 0..MaxBack

Precedes(x, y) == x[1] < y[1] \/ (x[1] = y[1] /\ x[2] < y[2])

\* While nobody sets the clock back or resets the generator its ids ascend, so
\* none is given twice, whatever the uninitialised members held.
Ascending ==
    backs = 0 => \A i \in 1..Len(issued) - 1 : Precedes(issued[i], issued[i + 1])
=============================================================================
