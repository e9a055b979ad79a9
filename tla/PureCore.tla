------------------------------ MODULE PureCore ------------------------------
(***************************************************************************)
(* What the core library keeps in one thread: the two queues of timers,    *)
(* ordered (RBTimer, the module extended) and of wheels, the lists they    *)
(* stand in and the pool that makes their nodes, the event, and the        *)
(* generator of ascending ids.  They share nothing but the type of the     *)
(* nodes; a behaviour is of one of them, and the variables of the others   *)
(* keep their first values.                                                *)
(***************************************************************************)
EXTENDS RBTimer

CONSTANTS
    StepCount,                    \* TWTimer
    MaxBinds, MaxNotifies,        \* Event
    MaxNumber, MaxTime, MaxBack,  \* SnowIDGen
    Chunks, N,                    \* FixedAllocator
    Nodes, Lists, Temp            \* NodeList

VARIABLES
    runs,                         \* the component that runs
    at, slots, pc, step,                                                    \* TWTimer
    chunk, lists, mFullCount, mEmptyCount, owned,                           \* FixedAllocator
    mCallbacks, eventID, mNotifing, iter, running, notifies, bound, owed,   \* Event
    clock, mLastTime, mLastID, sleeping, issued, backs,                     \* SnowIDGen
    pointers                                                                \* NodeList

W == INSTANCE TWTimer WITH lists <- slots
AnyQueue == INSTANCE Timer WITH updating <- (updating \/ pc # "idle")
Pool == INSTANCE FixedAllocator
E == INSTANCE Event WITH lastID <- eventID
Snow == INSTANCE SnowIDGen
List == INSTANCE NodeList WITH p <- pointers
\* What the lists hold, for NodeSeqs.
listsHeld == [l \in Lists |-> IF runs = "list" THEN List!Contents(pointers, l) ELSE <<>>]
Seqs == INSTANCE NodeSeqs WITH lists <- listsHeld

wheelVars == <<at, slots, pc, step>>
poolVars == <<chunk, lists, mFullCount, mEmptyCount, owned>>
eventVars == <<mCallbacks, eventID, mNotifing, iter, running, notifies, bound, owed>>
snowVars == <<clock, mLastTime, mLastID, sleeping, issued, backs>>
coreVars == <<runs, vars, wheelVars, poolVars, eventVars, snowVars, pointers>>

CoreParts == {"tree", "wheel", "pool", "event", "snow", "list"}

AllInit ==
    /\ Init /\ W!Init /\ Pool!Init /\ E!Init /\ List!Init
    /\ Snow!Init /\ (runs # "snow" => mLastTime = 0 /\ mLastID = 0)

CoreInit == runs \in CoreParts /\ AllInit

\* What the parts other than the timers keep.
restVars == <<poolVars, eventVars, snowVars, pointers>>

RunsTree == runs = "tree" /\ Next /\ UNCHANGED <<runs, wheelVars, restVars>>
RunsWheel ==
    runs = "wheel" /\ W!Next /\ UNCHANGED <<runs, updating, mSortTimers, restVars>>
RunsPool ==
    runs = "pool" /\ Pool!Next /\ UNCHANGED <<runs, vars, wheelVars, eventVars, snowVars, pointers>>
RunsEvent ==
    runs = "event" /\ E!Next /\ UNCHANGED <<runs, vars, wheelVars, poolVars, snowVars, pointers>>
RunsSnow ==
    runs = "snow" /\ Snow!Next /\ UNCHANGED <<runs, vars, wheelVars, poolVars, eventVars, pointers>>
RunsList ==
    runs = "list" /\ List!Next
      /\ UNCHANGED <<runs, vars, wheelVars, poolVars, eventVars, snowVars>>

CoreNext == RunsTree \/ RunsWheel \/ RunsPool \/ RunsEvent \/ RunsSnow \/ RunsList

CoreSpec == CoreInit /\ [][CoreNext]_coreVars

-----------------------------------------------------------------------------
\* In the wheels every timer lies where it is looked at in time; in the tree the
\* multimap and the nodes tell one story.
TimersInPlace == (runs = "wheel" => W!InPlace) /\ (runs = "tree" => SortAgrees)

\* The tree calls timers in the order of their times, however late the update is.  In
\* the wheels a periodic timer comes back into the slot that is being called, so calls
\* are out of order, but by less than a turn of wheel 0 if no interval is zero.
BoundedDisorder ==
    [][calling = 0 /\ calling' # 0
          => \A t \in DOMAIN mTimers :
               mTimers[calling'].next
                 < mTimers[t].next + (IF runs = "tree" THEN 1 ELSE StepCount)]_coreVars

\* Both queues implement the abstract one: no timer is called early, none that is
\* due is left out of an update, and each is called as often as was asked.
ImplementsTimer == AnyQueue!Spec

\* The pool of timers gives no block out twice and loses none, and its chunks stand in
\* the lists, and are counted, by how many of their blocks are free.
BlocksAgree == Pool!BlocksAgree

\* The lists the wheels' timers and the pools' chunks stand in: their pointers implement
\* sequences, whatever is pushed, popped, spliced, swapped, cleared or leaves, and with
\* a list spliced to or swapped with itself.
NodesImplement == Seqs!Spec

\* Event: no callback begins after it was unbound, cleared or answered false.
NeverAfterUnbind == E!NeverAfterUnbind

\* Event: a walk leaves out nothing that was bound when it began or during it.
WalkComplete == E!WalkComplete

\* SnowIDGen: ids ascend while nobody sets the clock back.
Ascending == Snow!Ascending
=============================================================================
