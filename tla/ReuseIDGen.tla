----------------------------- MODULE ReuseIDGen -----------------------------
(***************************************************************************)
(* The generator of PureCore that gives freed ids out again                *)
(* (ReuseIDGen.cpp): a cursor on the ring of the 32-bit numbers and the    *)
(* set of the ids in use.  gen_id searches upwards for an id that is free, *)
(* free_id walks downwards to one in use; each number looked at is a step. *)
(* The caller may mark and free any number, 0 included.                    *)
(***************************************************************************)
EXTENDS Naturals, FiniteSets

CONSTANT MaxID   \* the greatest number of the counter's width, UINT32_MAX

VARIABLES
    mLastID,   \* the cursor
    mUsedIDs,  \* the ids in use
    loop       \* the loop a call is in: "gen_id", "free_id" or "none"

vars == <<mLastID, mUsedIDs, loop>>

Init == mLastID = 0 /\ mUsedIDs = {} /\ loop = "none"

Above(n) == IF n >= MaxID THEN 1 ELSE n + 1

\* Mutant of Below: the counter stops at 0.
BelowStops(n) == IF n = 0 THEN 0 ELSE n - 1

\* --mLastID of an unsigned number.
Below(n) == IF n = 0 THEN MaxID ELSE n - 1

\* gen_id() answers 0 when all ids but one, or all, are in use.
Full == Cardinality(mUsedIDs) >= MaxID - 1

GenID ==
    /\ loop = "none" /\ ~Full
    /\ loop' = "gen_id"
    /\ UNCHANGED <<mLastID, mUsedIDs>>

GenStep ==
    /\ loop = "gen_id"
    /\ mLastID' = Above(mLastID)
    /\ IF mLastID' \in mUsedIDs
       THEN UNCHANGED <<mUsedIDs, loop>>
       ELSE mUsedIDs' = mUsedIDs \cup {mLastID'} /\ loop' = "none"

UseID(id) ==
    /\ loop = "none"
    /\ mUsedIDs' = mUsedIDs \cup {id}
    /\ UNCHANGED <<mLastID, loop>>

FreeID(id) ==
    /\ loop = "none"
    /\ mUsedIDs' = mUsedIDs \ {id}
    /\ loop' = "free_id"
    /\ UNCHANGED mLastID

FreeStep ==
    /\ loop = "free_id"
    /\ IF mLastID \in mUsedIDs
       THEN loop' = "none" /\ UNCHANGED mLastID
       ELSE mLastID' = Below(mLastID) /\ UNCHANGED loop
    /\ UNCHANGED mUsedIDs

Reset ==
    /\ loop = "none"
    /\ mLastID' = 0 /\ mUsedIDs' = {}
    /\ UNCHANGED loop

Search == GenStep \/ FreeStep
Next == GenID \/ Search \/ Reset \/ \E id \in 0..MaxID : UseID(id) \/ FreeID(id)

Spec == Init /\ [][Next]_vars

-----------------------------------------------------------------------------
\* gen_id always finds an id, wherever the cursor stands and whatever is in use,
\* and free_id ends unless it has freed the last id: then it never does.
SearchEnds == (loop # "none") ~> (loop = "none" \/ mUsedIDs = {})
=============================================================================
