------------------------------- MODULE Event -------------------------------
(***************************************************************************)
(* The event of PureCore (Event.h): a map of callbacks by ascending id     *)
(* that notify() walks.  A callback may bind, unbind and clear while the   *)
(* walk stands on it; then unbind only empties the entry, and the walk, or *)
(* the next one, erases it.                                                *)
(***************************************************************************)
EXTENDS Naturals, FiniteSetsExt, Functions

CONSTANTS MaxBinds,    \* bound: callbacks ever bound
          MaxNotifies  \* bound: calls of notify

VARIABLES
    mCallbacks,  \* by id: whether the entry still holds a function
    lastID,      \* the id generator
    mNotifing,
    iter,        \* the entry the walk stands on, End behind the last
    running,     \* the function of that entry runs
    notifies,    \* calls of notify so far
    bound,       \* history: ids bound and not unbound, nor answered false
    owed         \* history: what the running walk has yet to call

vars == <<mCallbacks, lastID, mNotifing, iter, running, notifies, bound, owed>>

IDs == 1..MaxBinds
End == MaxBinds + 1

\* Iteration by ascending id over the entries a map holds.
NextEntry(m, id) == Min({End} \cup {i \in DOMAIN m : i > id})

\* notify() is not entered again from a callback: see the README.
Outside == running \/ ~mNotifing

Init ==
    /\ mCallbacks = <<>> /\ lastID = 0 /\ mNotifing = FALSE
    /\ iter = End /\ running = FALSE /\ notifies = 0
    /\ bound = {} /\ owed = {}

Bind ==
    /\ Outside /\ lastID < MaxBinds
    /\ lastID' = lastID + 1
    /\ mCallbacks' = [i \in DOMAIN mCallbacks \cup {lastID'} |->
                        i = lastID' \/ mCallbacks[i]]
    /\ bound' = bound \cup {lastID'}
    /\ owed' = IF mNotifing THEN owed \cup {lastID'} ELSE owed
    /\ UNCHANGED <<mNotifing, iter, running, notifies>>

\* Under a walk an entry is emptied, otherwise it is erased.
Emptied(S) ==
    IF mNotifing THEN [i \in DOMAIN mCallbacks |-> mCallbacks[i] /\ i \notin S]
                 ELSE Restrict(mCallbacks, DOMAIN mCallbacks \ S)

Forget(S) ==
    /\ mCallbacks' = Emptied(S)
    /\ bound' = bound \ S /\ owed' = owed \ S
    /\ UNCHANGED <<lastID, mNotifing, iter, running, notifies>>

Unbind(id) == Outside /\ id \in DOMAIN mCallbacks /\ Forget({id})
Clear == Outside /\ Forget(DOMAIN mCallbacks)

Notify ==
    /\ ~mNotifing /\ notifies < MaxNotifies
    /\ mNotifing' = TRUE /\ notifies' = notifies + 1
    /\ iter' = NextEntry(mCallbacks, 0)
    /\ owed' = bound
    /\ UNCHANGED <<mCallbacks, lastID, running, bound>>

\* Mutant of Holds: the walk does not look whether the entry is empty.
HoldsAnything == TRUE

Holds == mCallbacks[iter]

Call ==
    /\ mNotifing /\ ~running /\ iter # End /\ Holds
    /\ running' = TRUE
    /\ owed' = owed \ {iter}
    /\ UNCHANGED <<mCallbacks, lastID, mNotifing, iter, notifies, bound>>

\* Mutant of Erase: the walk goes on behind the entry after the erased one.
EraseAndSkip ==
    /\ mCallbacks' = Restrict(mCallbacks, DOMAIN mCallbacks \ {iter})
    /\ iter' = NextEntry(mCallbacks, NextEntry(mCallbacks, iter))

Erase ==
    /\ mCallbacks' = Restrict(mCallbacks, DOMAIN mCallbacks \ {iter})
    /\ iter' = NextEntry(mCallbacks, iter)

EraseEmpty ==
    /\ mNotifing /\ ~running /\ iter # End /\ ~Holds
    /\ Erase
    /\ UNCHANGED <<lastID, mNotifing, running, notifies, bound, owed>>

\* The function returned: true keeps the entry, false removes it, whatever the
\* function itself did to it.
Return(keep) ==
    /\ running
    /\ running' = FALSE
    /\ IF keep THEN iter' = NextEntry(mCallbacks, iter) /\ UNCHANGED <<mCallbacks, bound>>
               ELSE Erase /\ bound' = bound \ {iter}
    /\ UNCHANGED <<lastID, mNotifing, notifies, owed>>

NotifyEnd ==
    /\ mNotifing /\ ~running /\ iter = End
    /\ mNotifing' = FALSE
    /\ UNCHANGED <<mCallbacks, lastID, iter, running, notifies, bound, owed>>

Next ==
    \/ Bind \/ Clear \/ \E id \in IDs : Unbind(id)
    \/ Notify \/ Call \/ EraseEmpty \/ NotifyEnd
    \/ \E keep \in BOOLEAN : Return(keep)

Spec == Init /\ [][Next]_vars

-----------------------------------------------------------------------------
\* Every variable keeps its type, and the entry the walk stands on exists.
TypeOK ==
    /\ DOMAIN mCallbacks \subseteq 1..lastID /\ lastID \in 0..MaxBinds
    /\ \A i \in DOMAIN mCallbacks : mCallbacks[i] \in BOOLEAN
    /\ mNotifing \in BOOLEAN /\ running \in BOOLEAN /\ notifies \in 0..MaxNotifies
    /\ iter \in (DOMAIN mCallbacks) \cup {End} /\ (running => iter # End)
    /\ (iter # End => mNotifing)
    /\ bound \subseteq IDs /\ owed \subseteq IDs

\* No callback begins after it was unbound, cleared or answered false.
NeverAfterUnbind == [][Call => iter \in bound]_vars

\* A walk calls everything that was bound when it began or during it, except what
\* was unbound before its turn, whatever was bound, unbound or erased meanwhile.
WalkComplete == [][NotifyEnd => owed = {}]_vars

\* What the map holds is what is bound, and what the walk still owes lies where it
\* stands or ahead of it: ahead while the function there runs.
EntriesAgree ==
    /\ bound = {i \in DOMAIN mCallbacks : mCallbacks[i]}
    /\ owed \subseteq bound
    /\ mNotifing => \A i \in owed : i >= iter
    /\ running => iter \notin owed
=============================================================================
