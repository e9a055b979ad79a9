--------------------------- MODULE PureCore_proofs ---------------------------
(***************************************************************************)
(* The event, the id generator, the two queues of timers, the pool of      *)
(* their nodes and the lists these stand in, for every number of           *)
(* callbacks, walks, timers, slots, blocks, nodes and lists, and every     *)
(* width of an id.                                                         *)
(***************************************************************************)
EXTENDS PureCore, FiniteSetTheorems, SequenceTheorems, WellFoundedInduction, TLAPS

-----------------------------------------------------------------------------
(* A behaviour of PureCore is one of each of its components: those that do *)
(* not run stand still.                                                    *)

LEMMA PartsRun == CoreSpec => E!Spec /\ Snow!Spec /\ Pool!Spec
<1>1. CoreInit => E!Init /\ Snow!Init /\ Pool!Init
  BY DEF CoreInit, AllInit
<1>2. ASSUME [CoreNext]_coreVars
      PROVE  [E!Next]_(E!vars) /\ [Snow!Next]_(Snow!vars) /\ [Pool!Next]_(Pool!vars)
  <2>. USE DEF eventVars, snowVars, poolVars, restVars, E!vars, Snow!vars, Pool!vars
  <2>1. CASE RunsTree
    BY <2>1 DEF RunsTree
  <2>6. CASE RunsWheel
    BY <2>6 DEF RunsWheel
  <2>2. CASE RunsPool
    BY <2>2 DEF RunsPool
  <2>3. CASE RunsEvent
    BY <2>3 DEF RunsEvent
  <2>4. CASE RunsSnow
    BY <2>4 DEF RunsSnow
  <2>5. CASE UNCHANGED coreVars
    BY <2>5 DEF coreVars
  <2>7. CASE RunsList
    BY <2>7 DEF RunsList
  <2>. QED  BY <1>2, <2>1, <2>2, <2>3, <2>4, <2>5, <2>6, <2>7 DEF CoreNext
<1>. QED  BY <1>1, <1>2, PTL DEF CoreSpec, E!Spec, Snow!Spec, Pool!Spec

-----------------------------------------------------------------------------
(* Numbers.                                                                *)

\* A set of numbers that is not empty has a least one.
LEMMA MinIsLeast ==
  ASSUME NEW S \in SUBSET Nat, S # {}
  PROVE  Min(S) \in S /\ \A i \in S : Min(S) =< i
<1>. DEFINE R == {ss \in Nat \X Nat : ss[1] < ss[2]}
<1>1. IsWellFoundedOn(R, Nat)
  BY NatLessThanWellFounded DEF OpToRel
<1>2. PICK x \in S : \A y \in S : ~(<<y, x>> \in R)
  <2>. HIDE DEF R
  <2>. QED  BY <1>1, WFMin
<1>3. ASSUME NEW y \in S PROVE x =< y
  <2>1. x \in Nat /\ y \in Nat
    OBVIOUS
  <2>2. y < x => <<y, x>> \in R
    <3>1. <<y, x>> \in Nat \X Nat /\ <<y, x>>[1] = y /\ <<y, x>>[2] = x
      BY <2>1
    <3>. QED  BY <3>1
  <2>. QED  BY <1>2, <2>1, <2>2
<1>. QED  BY <1>3 DEF Min

\* So many numbers there are from 1 to n.
LEMMA CountTo == ASSUME NEW n \in Nat PROVE IsFiniteSet(1..n) /\ Cardinality(1..n) = n
<1>1. 1 \in Int /\ n \in Int
  OBVIOUS
<1>2. IsFiniteSet(1..n) /\ Cardinality(1..n) = IF 1 > n THEN 0 ELSE n - 1 + 1
  BY <1>1, FS_Interval
<1>3. n = 0 \/ ~(1 > n)
  OBVIOUS
<1>4. (IF 1 > n THEN 0 ELSE n - 1 + 1) = n
  BY <1>3
<1>. QED  BY <1>2, <1>4

-----------------------------------------------------------------------------
(* The event.  What the map holds is what is bound, and what the walk owes *)
(* lies where it stands or ahead of it.                                    *)

EventInv == E!TypeOK /\ E!EntriesAgree

\* NextEntry is the first entry behind id, or End behind the last.
LEMMA NextIsFirst ==
  ASSUME MaxBinds \in Nat, NEW m, DOMAIN m \subseteq E!IDs, NEW id \in Nat
  PROVE  /\ E!NextEntry(m, id) \in (DOMAIN m) \cup {E!End}
         /\ id < E!End => E!NextEntry(m, id) > id
         /\ \A i \in DOMAIN m : i > id => i >= E!NextEntry(m, id)
<1>. DEFINE S == {E!End} \cup {i \in DOMAIN m : i > id}
<1>1. S \in SUBSET Nat /\ S # {} /\ E!End \in S
  BY DEF E!IDs, E!End
<1>2. E!Min(S) \in S /\ \A i \in S : E!Min(S) =< i
  BY <1>1, MinIsLeast DEF Min, E!Min
<1>3. E!NextEntry(m, id) = E!Min(S)
  BY DEF E!NextEntry
<1>. QED  BY <1>1, <1>2, <1>3 DEF E!IDs, E!End

\* Erase takes the entry away and stands on the next one.
LEMMA ErasedEntry ==
  ASSUME E!Erase
  PROVE  /\ DOMAIN mCallbacks' = DOMAIN mCallbacks \ {iter}
         /\ \A i \in DOMAIN mCallbacks' : mCallbacks'[i] = mCallbacks[i]
         /\ iter' = E!NextEntry(mCallbacks, iter)
BY DEF E!Erase, E!Restrict

LEMMA InitEventInv == ASSUME MaxBinds \in Nat, MaxNotifies \in Nat, E!Init PROVE EventInv
<1>1. DOMAIN mCallbacks = {}
  BY DEF E!Init
<1>2. E!TypeOK
  <2>1. DOMAIN mCallbacks \subseteq 1..eventID /\ eventID \in 0..MaxBinds /\ notifies \in 0..MaxNotifies
    BY <1>1 DEF E!Init
  <2>2. /\ mNotifing \in BOOLEAN /\ running \in BOOLEAN /\ ~running /\ iter = E!End
        /\ bound = {} /\ owed = {}
    BY DEF E!Init
  <2>. QED  BY <1>1, <2>1, <2>2 DEF E!TypeOK
<1>3. bound = {i \in DOMAIN mCallbacks : mCallbacks[i]}
  BY <1>1 DEF E!Init
<1>. QED  BY <1>2, <1>3 DEF E!Init, EventInv, E!EntriesAgree

\* An entry is bound behind all others, so a walk that runs still comes to it.
LEMMA BindStep == ASSUME MaxBinds \in Nat, EventInv, E!Bind PROVE EventInv'
<1>0. /\ eventID' = eventID + 1 /\ eventID + 1 \notin DOMAIN mCallbacks
      /\ mCallbacks' = [i \in DOMAIN mCallbacks \cup {eventID'} |-> i = eventID' \/ mCallbacks[i]]
  BY DEF E!Bind, EventInv, E!TypeOK
<1>1. /\ DOMAIN mCallbacks' = DOMAIN mCallbacks \cup {eventID + 1}
      /\ mCallbacks'[eventID + 1] = TRUE
      /\ \A i \in DOMAIN mCallbacks : mCallbacks'[i] = mCallbacks[i]
  <2>1. \A i \in DOMAIN mCallbacks : i # eventID + 1 /\ mCallbacks[i] \in BOOLEAN
    BY <1>0 DEF EventInv, E!TypeOK
  <2>2. DOMAIN mCallbacks' = DOMAIN mCallbacks \cup {eventID + 1}
    BY <1>0
  <2>3. \A i \in DOMAIN mCallbacks \cup {eventID + 1} : mCallbacks'[i] = (i = eventID + 1 \/ mCallbacks[i])
    BY <1>0, Zenon
  <2>. QED  BY <2>1, <2>2, <2>3, Zenon
<1>2. eventID' = eventID + 1 /\ eventID + 1 \in E!IDs /\ eventID \in Nat
  BY DEF E!Bind, EventInv, E!TypeOK, E!IDs
<1>3. running => iter =< eventID
  BY DEF EventInv, E!TypeOK
<1>4. E!TypeOK'
  <2>1. DOMAIN mCallbacks' \subseteq 1..eventID' /\ eventID' \in 0..MaxBinds
    BY <1>1, <1>2 DEF E!Bind, EventInv, E!TypeOK
  <2>2. \A i \in DOMAIN mCallbacks' : mCallbacks'[i] \in BOOLEAN
    BY <1>1 DEF EventInv, E!TypeOK
  <2>3. bound' \subseteq E!IDs /\ owed' \subseteq E!IDs
    BY <1>2 DEF E!Bind, EventInv, E!TypeOK
  <2>4. UNCHANGED <<mNotifing, iter, running, notifies>>
    BY DEF E!Bind
  <2>. QED  BY <1>1, <2>1, <2>2, <2>3, <2>4 DEF EventInv, E!TypeOK
<1>5. bound' = {i \in DOMAIN mCallbacks' : mCallbacks'[i]}
  BY <1>1 DEF E!Bind, EventInv, E!EntriesAgree
<1>6. owed' \subseteq bound' /\ (running' => iter' \notin owed')
  BY <1>2, <1>3 DEF E!Bind, EventInv, E!EntriesAgree, E!TypeOK
<1>7. mNotifing' => \A i \in owed' : i >= iter'
  BY <1>2, <1>3 DEF E!Bind, E!Outside, EventInv, E!EntriesAgree, E!TypeOK
<1>. QED  BY <1>4, <1>5, <1>6, <1>7 DEF EventInv, E!EntriesAgree

\* What is forgotten is empty or gone, and owed no more.
LEMMA ForgetStep ==
  ASSUME EventInv, E!Outside, NEW S \in SUBSET DOMAIN mCallbacks, E!Forget(S)
  PROVE  EventInv'
<1>1. CASE mNotifing
  <2>1. /\ DOMAIN mCallbacks' = DOMAIN mCallbacks
        /\ \A i \in DOMAIN mCallbacks : mCallbacks'[i] = (mCallbacks[i] /\ i \notin S)
    BY <1>1 DEF E!Forget, E!Emptied
  <2>2. E!TypeOK'
    BY <2>1 DEF E!Forget, EventInv, E!TypeOK
  <2>3. bound' = {i \in DOMAIN mCallbacks' : mCallbacks'[i]}
    BY <2>1 DEF E!Forget, EventInv, E!EntriesAgree
  <2>. QED  BY <2>2, <2>3 DEF E!Forget, EventInv, E!EntriesAgree
<1>2. CASE ~mNotifing
  <2>1. /\ DOMAIN mCallbacks' = DOMAIN mCallbacks \ S
        /\ \A i \in DOMAIN mCallbacks' : mCallbacks'[i] = mCallbacks[i]
    BY <1>2 DEF E!Forget, E!Emptied, E!Restrict
  <2>2. bound' = {i \in DOMAIN mCallbacks' : mCallbacks'[i]}
    BY <2>1 DEF E!Forget, EventInv, E!EntriesAgree
  <2>3. iter' \in (DOMAIN mCallbacks') \cup {E!End} /\ ~running'
    BY <1>2, <2>1 DEF E!Forget, EventInv, E!TypeOK
  <2>4. E!TypeOK'
    BY <2>1, <2>3 DEF E!Forget, EventInv, E!TypeOK
  <2>. QED  BY <1>2, <2>2, <2>3, <2>4 DEF E!Forget, EventInv, E!EntriesAgree
<1>. QED  BY <1>1, <1>2 DEF EventInv, E!TypeOK

\* A walk begins at the first entry and owes all that is bound.
LEMMA NotifyStep ==
  ASSUME MaxBinds \in Nat, MaxNotifies \in Nat, EventInv, E!Notify
  PROVE  EventInv'
<1>1. DOMAIN mCallbacks \subseteq E!IDs
  BY DEF EventInv, E!TypeOK, E!IDs
<1>2. /\ iter' \in (DOMAIN mCallbacks) \cup {E!End}
      /\ \A i \in DOMAIN mCallbacks : i > 0 => i >= iter'
  BY <1>1, NextIsFirst DEF E!Notify
<1>3. E!TypeOK'
  BY <1>2 DEF E!Notify, EventInv, E!TypeOK
<1>4. bound' = {i \in DOMAIN mCallbacks' : mCallbacks'[i]} /\ ~running'
  BY DEF E!Notify, EventInv, E!EntriesAgree, E!TypeOK
<1>5. \A i \in owed' : i >= iter'
  BY <1>1, <1>2 DEF E!Notify, EventInv, E!EntriesAgree, E!IDs
<1>. QED  BY <1>3, <1>4, <1>5 DEF E!Notify, E!EntriesAgree, EventInv

\* The walk calls the entry it stands on, which it then no longer owes.
LEMMA CallStep == ASSUME EventInv, E!Call PROVE EventInv'
<1>1. E!TypeOK'
  BY DEF E!Call, EventInv, E!TypeOK
<1>2. E!EntriesAgree'
  BY DEF E!Call, EventInv, E!EntriesAgree
<1>. QED  BY <1>1, <1>2 DEF EventInv

\* Leaving an entry that is not owed: the walk still comes to all that is.
LEMMA LeaveEntry ==
  ASSUME MaxBinds \in Nat, EventInv, iter # E!End, iter \notin owed,
         iter' = E!NextEntry(mCallbacks, iter), UNCHANGED <<mNotifing, notifies, eventID, owed>>, ~running',
         running' \in BOOLEAN,
         DOMAIN mCallbacks' \in {DOMAIN mCallbacks, DOMAIN mCallbacks \ {iter}},
         \A i \in DOMAIN mCallbacks' : mCallbacks'[i] = mCallbacks[i],
         bound' = {i \in DOMAIN mCallbacks' : mCallbacks'[i]},
         bound' \in {bound, bound \ {iter}}
  PROVE  EventInv'
<1>1. DOMAIN mCallbacks \subseteq E!IDs /\ iter \in Nat /\ iter < E!End
  BY DEF EventInv, E!TypeOK, E!IDs, E!End
<1>2. /\ iter' \in (DOMAIN mCallbacks) \cup {E!End} /\ iter' > iter
      /\ \A i \in DOMAIN mCallbacks : i > iter => i >= iter'
  BY <1>1, NextIsFirst
<1>3. E!TypeOK'
  <2>1. iter' \in (DOMAIN mCallbacks') \cup {E!End} /\ mNotifing
    BY <1>1, <1>2 DEF EventInv, E!TypeOK
  <2>2. \A i \in DOMAIN mCallbacks' : mCallbacks'[i] \in BOOLEAN
    BY DEF EventInv, E!TypeOK
  <2>. QED  BY <2>1, <2>2 DEF EventInv, E!TypeOK
<1>4. owed' \subseteq bound'
  BY DEF EventInv, E!EntriesAgree
<1>5. \A i \in owed' : i >= iter'
  <2>1. TAKE i \in owed'
  <2>2. i \in DOMAIN mCallbacks /\ i # iter /\ i \in Nat /\ i >= iter
    BY <1>1 DEF EventInv, E!EntriesAgree, E!TypeOK, E!IDs
  <2>. QED  BY <1>1, <1>2, <2>2
<1>. QED  BY <1>3, <1>4, <1>5 DEF EventInv, E!EntriesAgree

\* An entry that holds no function is not owed.
LEMMA EraseEmptyStep == ASSUME MaxBinds \in Nat, EventInv, E!EraseEmpty PROVE EventInv'
<1>1. iter \in DOMAIN mCallbacks /\ iter \notin bound /\ iter \notin owed
  BY DEF E!EraseEmpty, E!Holds, EventInv, E!TypeOK, E!EntriesAgree
<1>2. /\ DOMAIN mCallbacks' = DOMAIN mCallbacks \ {iter}
      /\ \A i \in DOMAIN mCallbacks' : mCallbacks'[i] = mCallbacks[i]
      /\ iter' = E!NextEntry(mCallbacks, iter)
  BY ErasedEntry DEF E!EraseEmpty
<1>3. bound' = {i \in DOMAIN mCallbacks' : mCallbacks'[i]} /\ bound' = bound
  BY <1>1, <1>2 DEF E!EraseEmpty, EventInv, E!EntriesAgree
<1>. QED  BY <1>1, <1>2, <1>3, LeaveEntry DEF E!EraseEmpty, EventInv, E!TypeOK

\* The function returned; its entry stays or goes.
LEMMA ReturnStep ==
  ASSUME MaxBinds \in Nat, EventInv, NEW keep \in BOOLEAN, E!Return(keep)
  PROVE  EventInv'
<1>1. iter # E!End /\ iter \in DOMAIN mCallbacks /\ iter \notin owed
  BY DEF E!Return, EventInv, E!TypeOK, E!EntriesAgree
<1>2. CASE keep
  <2>1. iter' = E!NextEntry(mCallbacks, iter) /\ UNCHANGED <<mCallbacks, bound>>
    BY <1>2 DEF E!Return
  <2>2. bound' = {i \in DOMAIN mCallbacks' : mCallbacks'[i]}
    BY <2>1 DEF EventInv, E!EntriesAgree
  <2>. QED  BY <1>1, <2>1, <2>2, LeaveEntry DEF E!Return
<1>3. CASE ~keep
  <2>1. /\ DOMAIN mCallbacks' = DOMAIN mCallbacks \ {iter}
        /\ \A i \in DOMAIN mCallbacks' : mCallbacks'[i] = mCallbacks[i]
        /\ iter' = E!NextEntry(mCallbacks, iter) /\ bound' = bound \ {iter}
    BY <1>3, ErasedEntry DEF E!Return
  <2>2. bound' = {i \in DOMAIN mCallbacks' : mCallbacks'[i]}
    BY <2>1 DEF EventInv, E!EntriesAgree
  <2>. QED  BY <1>1, <2>1, <2>2, LeaveEntry DEF E!Return
<1>. QED  BY <1>2, <1>3

LEMMA NextEventInv ==
  ASSUME MaxBinds \in Nat, MaxNotifies \in Nat, EventInv, [E!Next]_(E!vars)
  PROVE  EventInv'
<1>1. ASSUME NEW id \in E!IDs, E!Unbind(id)
      PROVE  EventInv'
  BY <1>1, ForgetStep DEF E!Unbind
<1>2. CASE E!Clear
  BY <1>2, ForgetStep DEF E!Clear
<1>3. CASE E!NotifyEnd
  BY <1>3 DEF E!NotifyEnd, EventInv, E!TypeOK, E!EntriesAgree
<1>4. CASE UNCHANGED E!vars
  BY <1>4 DEF E!vars, EventInv, E!TypeOK, E!EntriesAgree
<1>. QED
  BY <1>1, <1>2, <1>3, <1>4, BindStep, NotifyStep, CallStep, EraseEmptyStep, ReturnStep DEF E!Next

LEMMA AlwaysEventInv ==
  ASSUME MaxBinds \in Nat, MaxNotifies \in Nat
  PROVE  E!Spec => []EventInv
<1>1. E!Init => EventInv
  BY InitEventInv
<1>2. EventInv /\ [E!Next]_(E!vars) => EventInv'
  BY NextEventInv
<1>. QED  BY <1>1, <1>2, PTL DEF E!Spec

\* The map and the walk agree with what was bound and what is owed.
THEOREM EntriesAlwaysAgree ==
  ASSUME MaxBinds \in Nat, MaxNotifies \in Nat
  PROVE  CoreSpec => [](E!TypeOK /\ E!EntriesAgree)
BY AlwaysEventInv, PartsRun, PTL DEF EventInv

\* NeverAfterUnbind: notify() calls no callback that was unbound, cleared or answered
\* false, although unbind only empties the entry while a walk runs.
THEOREM NeverCalledUnbound ==
  ASSUME MaxBinds \in Nat, MaxNotifies \in Nat
  PROVE  CoreSpec => NeverAfterUnbind
<1>1. EventInv /\ [E!Next]_(E!vars) => [E!Call => iter \in bound]_(E!vars)
  BY DEF EventInv, E!EntriesAgree, E!TypeOK, E!Call, E!Holds
<1>2. CoreSpec => [][E!Call => iter \in bound]_(E!vars)
  BY <1>1, AlwaysEventInv, PartsRun, PTL DEF E!Spec
<1>. QED  BY <1>2 DEF NeverAfterUnbind, E!NeverAfterUnbind

\* WalkComplete: at its end notify() has called everything that was bound when it
\* began or meanwhile and not unbound before its turn.
THEOREM WalkLeavesNoneOut ==
  ASSUME MaxBinds \in Nat, MaxNotifies \in Nat
  PROVE  CoreSpec => WalkComplete
<1>1. EventInv /\ [E!Next]_(E!vars) => [E!NotifyEnd => owed = {}]_(E!vars)
  BY DEF EventInv, E!EntriesAgree, E!TypeOK, E!NotifyEnd, E!IDs, E!End
<1>2. CoreSpec => [][E!NotifyEnd => owed = {}]_(E!vars)
  BY <1>1, AlwaysEventInv, PartsRun, PTL DEF E!Spec
<1>. QED  BY <1>2 DEF WalkComplete, E!WalkComplete

-----------------------------------------------------------------------------
(* The generator of ids.  While the clock is not set back, the last id     *)
(* given out is not ahead of the generator, nor the generator of the clock. *)

LastIssued == issued[Len(issued)]

SnowBehind ==
  backs = 0 /\ issued # <<>> =>
    /\ mLastTime =< clock /\ LastIssued[1] =< mLastTime
    /\ LastIssued[1] = mLastTime => LastIssued[2] =< mLastID

SnowInv == Snow!TypeOK /\ SnowBehind /\ Snow!Ascending

LEMMA SmallRemainder == ASSUME NEW m \in Nat, NEW n \in 0..m PROVE n % (m + 1) = n
OBVIOUS

LEMMA InitSnowInv ==
  ASSUME MaxNumber \in Nat, MaxTime \in Nat, MaxBack \in Nat, Snow!Init
  PROVE  SnowInv
<1>1. issued = <<>> /\ Len(issued) = 0 /\ issued \in Seq((0..MaxTime) \X (1..MaxNumber))
  BY DEF Snow!Init
<1>2. Snow!TypeOK
  <2>1. /\ clock \in 0..MaxTime /\ mLastTime \in 0..MaxTime /\ mLastID \in 0..MaxNumber
        /\ backs \in 0..MaxBack
    BY DEF Snow!Init
  <2>2. sleeping \in BOOLEAN
    BY DEF Snow!Init
  <2>. QED  BY <1>1, <2>1, <2>2 DEF Snow!TypeOK
<1>3. Snow!Ascending
  BY <1>1 DEF Snow!Ascending
<1>. QED  BY <1>1, <1>2, <1>3 DEF SnowInv, SnowBehind

\* The number given out is one more than the last of its second, and needs no wrap.
LEMMA NumberGrows ==
  ASSUME MaxNumber \in Nat, Snow!TypeOK, Snow!GenID, ~Snow!UsedUp(Snow!NumberAt)
  PROVE  /\ mLastID' = Snow!NumberAt + 1 /\ mLastID' \in 1..MaxNumber
         /\ issued' = Append(issued, <<clock, mLastID'>>) /\ sleeping' = FALSE
<1>1. Snow!NumberAt \in 0..(MaxNumber - 1)
  BY DEF Snow!NumberAt, Snow!UsedUp, Snow!TypeOK
<1>2. (Snow!NumberAt + 1) % (MaxNumber + 1) = Snow!NumberAt + 1
  <2>. DEFINE n == Snow!NumberAt + 1
  <2>1. n \in 0..MaxNumber
    BY <1>1
  <2>. HIDE DEF n
  <2>2. n % (MaxNumber + 1) = n
    BY <2>1, SmallRemainder
  <2>. QED  BY <2>2 DEF n
<1>. QED  BY <1>1, <1>2 DEF Snow!GenID

LEMMA GenIDStep ==
  ASSUME MaxNumber \in Nat, MaxTime \in Nat, MaxBack \in Nat, SnowInv, Snow!GenID
  PROVE  SnowInv'
<1>0. /\ Snow!TypeOK /\ Len(issued) \in Nat /\ mLastTime' = clock /\ UNCHANGED <<clock, backs>>
      /\ \A i \in 1..Len(issued) : issued[i] \in (0..MaxTime) \X (1..MaxNumber)
  BY DEF SnowInv, Snow!TypeOK, Snow!GenID
<1>1. CASE Snow!UsedUp(Snow!NumberAt)
  <2>1. mLastID' = Snow!NumberAt /\ sleeping' = TRUE /\ issued' = issued
    BY <1>1 DEF Snow!GenID
  <2>2. Snow!TypeOK'
    BY <1>0, <2>1 DEF Snow!TypeOK, Snow!NumberAt
  <2>3. SnowBehind'
    BY <1>0, <2>1 DEF SnowInv, SnowBehind, LastIssued, Snow!NumberAt, Snow!TypeOK
  <2>4. Snow!Ascending'
    BY <1>0, <2>1 DEF SnowInv, Snow!Ascending, Snow!Precedes
  <2>. QED  BY <2>2, <2>3, <2>4 DEF SnowInv
<1>2. CASE ~Snow!UsedUp(Snow!NumberAt)
  <2>0. /\ mLastID' = Snow!NumberAt + 1 /\ mLastID' \in 1..MaxNumber
        /\ issued' = Append(issued, <<clock, mLastID'>>) /\ sleeping' = FALSE
    BY <1>0, <1>2, NumberGrows
  <2>. DEFINE id == <<clock, mLastID'>>
  <2>1. id \in (0..MaxTime) \X (1..MaxNumber)
    BY <1>0, <2>0 DEF Snow!TypeOK
  <2>2. /\ Len(issued') = Len(issued) + 1 /\ issued'[Len(issued) + 1] = id
        /\ \A i \in 1..Len(issued) : issued'[i] = issued[i]
        /\ issued' \in Seq((0..MaxTime) \X (1..MaxNumber))
    BY <1>0, <2>0, <2>1 DEF Snow!TypeOK
  <2>3. Snow!TypeOK'
    <3>1. /\ clock' \in 0..MaxTime /\ mLastTime' \in 0..MaxTime /\ mLastID' \in 0..MaxNumber
          /\ backs' \in 0..MaxBack
      BY <1>0, <2>0 DEF Snow!TypeOK
    <3>2. sleeping' \in BOOLEAN
      BY <2>0
    <3>. QED  BY <2>2, <3>1, <3>2 DEF Snow!TypeOK
  <2>4. SnowBehind'
    BY <1>0, <2>0, <2>2 DEF SnowBehind, LastIssued, Snow!TypeOK
  <2>5. backs = 0 /\ issued # <<>> => Snow!Precedes(LastIssued, id)
    <3>1. HAVE backs = 0 /\ issued # <<>>
    <3>2. Len(issued) \in 1..Len(issued)
      BY <1>0, <3>1 DEF Snow!TypeOK
    <3>3. LastIssued[1] \in Nat /\ LastIssued[2] \in Nat
      BY <1>0, <3>2 DEF LastIssued
    <3>4. id[1] = clock /\ id[2] = Snow!NumberAt + 1
      BY <2>0
    <3>. QED  BY <1>0, <3>1, <3>3, <3>4 DEF SnowInv, SnowBehind, Snow!Precedes, Snow!NumberAt, Snow!TypeOK
  <2>6. Snow!Ascending'
    <3>1. SUFFICES ASSUME backs' = 0, NEW i \in 1..Len(issued') - 1
                   PROVE  Snow!Precedes(issued'[i], issued'[i + 1])
      BY DEF Snow!Ascending, Snow!Precedes
    <3>2. i \in 1..Len(issued) /\ issued # <<>> /\ issued'[i] = issued[i] /\ backs = 0
      BY <1>0, <2>2, <3>1
    <3>3. CASE i = Len(issued)
      BY <2>2, <2>5, <3>2, <3>3 DEF LastIssued
    <3>4. CASE i # Len(issued)
      <4>1. i \in 1..Len(issued) - 1 /\ i + 1 \in 1..Len(issued)
        BY <1>0, <3>2, <3>4
      <4>2. Snow!Precedes(issued[i], issued[i + 1]) /\ issued'[i + 1] = issued[i + 1]
        BY <2>2, <3>2, <4>1 DEF SnowInv, Snow!Ascending
      <4>. QED  BY <3>2, <4>2
    <3>. QED  BY <3>3, <3>4
  <2>. QED  BY <2>3, <2>4, <2>6 DEF SnowInv
<1>. QED  BY <1>1, <1>2

LEMMA NextSnowInv ==
  ASSUME MaxNumber \in Nat, MaxTime \in Nat, MaxBack \in Nat, SnowInv, [Snow!Next]_(Snow!vars)
  PROVE  SnowInv'
<1>1. CASE Snow!Tick
  <2>1. Snow!TypeOK' /\ SnowBehind'
    BY <1>1 DEF Snow!Tick, SnowInv, SnowBehind, LastIssued, Snow!TypeOK
  <2>. QED  BY <1>1, <2>1 DEF Snow!Tick, SnowInv, Snow!Ascending, Snow!Precedes
<1>2. CASE Snow!SetBack
  BY <1>2 DEF Snow!SetBack, SnowInv, SnowBehind, Snow!TypeOK, Snow!Ascending
<1>3. CASE Snow!Reset
  BY <1>3 DEF Snow!Reset, SnowInv, SnowBehind, Snow!TypeOK, Snow!Ascending
<1>4. CASE UNCHANGED Snow!vars
  BY <1>4 DEF Snow!vars, SnowInv, SnowBehind, LastIssued, Snow!TypeOK, Snow!Ascending, Snow!Precedes
<1>. QED  BY <1>1, <1>2, <1>3, <1>4, GenIDStep DEF Snow!Next

\* Ascending: while nobody sets the clock back or resets the generator each id it gives
\* out is greater than the one before, whatever the uninitialised members held, and
\* none has number 0.
THEOREM AlwaysAscending ==
  ASSUME MaxNumber \in Nat, MaxTime \in Nat, MaxBack \in Nat
  PROVE  CoreSpec => [](Snow!TypeOK /\ Ascending)
<1>1. Snow!Init => SnowInv
  BY InitSnowInv
<1>2. SnowInv /\ [Snow!Next]_(Snow!vars) => SnowInv'
  BY NextSnowInv
<1>3. SnowInv => Snow!TypeOK /\ Ascending
  BY DEF SnowInv, Ascending
<1>. QED  BY <1>1, <1>2, <1>3, PartsRun, PTL DEF Snow!Spec

-----------------------------------------------------------------------------
(* Sequences.                                                              *)

\* An element put in at a position, and one taken out.
LEMMA InsertedAt ==
  ASSUME NEW S, NEW m \in Seq(S), NEW k \in 0..Len(m), NEW e \in S
  PROVE  /\ InsertAt(m, k + 1, e) \in Seq(S)
         /\ Len(InsertAt(m, k + 1, e)) = Len(m) + 1
         /\ \A i \in 1..Len(m) + 1 : InsertAt(m, k + 1, e)[i] =
              IF i =< k THEN m[i] ELSE IF i = k + 1 THEN e ELSE m[i - 1]
<1>. DEFINE front == SubSeq(m, 1, k)
            back == SubSeq(m, k + 1, Len(m))
            n == Len(m)
<1>0. n \in Nat /\ \A i \in 1..n : m[i] \in S
  OBVIOUS
<1>1. /\ front \in Seq(S) /\ Len(front) = k /\ \A i \in 1..k : front[i] = m[i]
  <2>1. /\ SubSeq(m, 1, k) \in Seq(S)
        /\ Len(SubSeq(m, 1, k)) = IF 1 <= k THEN k - 1 + 1 ELSE 0
        /\ \A i \in 1..k - 1 + 1 : SubSeq(m, 1, k)[i] = m[1 + i - 1]
    BY <1>0, SubSeqProperties
  <2>. QED  BY <1>0, <2>1
<1>2. /\ back \in Seq(S) /\ Len(back) = n - k /\ \A i \in 1..n - k : back[i] = m[k + i]
  <2>1. /\ SubSeq(m, k + 1, n) \in Seq(S)
        /\ Len(SubSeq(m, k + 1, n)) = IF k + 1 <= n THEN n - (k + 1) + 1 ELSE 0
        /\ \A i \in 1..n - (k + 1) + 1 : SubSeq(m, k + 1, n)[i] = m[k + 1 + i - 1]
    BY <1>0, SubSeqProperties
  <2>. QED  BY <1>0, <2>1
<1>3. <<e>> \in Seq(S) /\ Len(<<e>>) = 1 /\ <<e>>[1] = e
  OBVIOUS
<1>4. InsertAt(m, k + 1, e) = front \o <<e>> \o back
  <2>1. (k + 1) - 1 = k
    BY <1>0
  <2>2. SubSeq(m, 1, (k + 1) - 1) = SubSeq(m, 1, k)
    BY <2>1, Zenon
  <2>3. InsertAt(m, k + 1, e) = SubSeq(m, 1, (k + 1) - 1) \o <<e>> \o SubSeq(m, k + 1, Len(m))
    BY Zenon DEF InsertAt
  <2>. QED  BY <2>2, <2>3, Zenon
<1>. HIDE DEF front, back, n
<1>5. /\ front \o <<e>> \in Seq(S) /\ Len(front \o <<e>>) = k + 1
      /\ \A i \in 1..k + 1 : (front \o <<e>>)[i] = IF i =< k THEN m[i] ELSE e
  <2>1. /\ front \o <<e>> \in Seq(S) /\ Len(front \o <<e>>) = k + 1
        /\ \A i \in 1..k + 1 : (front \o <<e>>)[i] = IF i =< k THEN front[i] ELSE <<e>>[i - k]
    BY <1>1, <1>3, ConcatProperties
  <2>. QED  BY <1>1, <1>3, <2>1
<1>. DEFINE f == front \o <<e>>
<1>. HIDE DEF f
<1>6. /\ f \o back \in Seq(S) /\ Len(f \o back) = k + 1 + (n - k)
      /\ \A i \in 1..k + 1 + (n - k) : (f \o back)[i] = IF i =< k + 1 THEN f[i] ELSE back[i - (k + 1)]
  <2>1. f \in Seq(S) /\ Len(f) = k + 1
    BY <1>5 DEF f
  <2>2. /\ f \o back \in Seq(S) /\ Len(f \o back) = Len(f) + Len(back)
        /\ \A i \in 1..Len(f) + Len(back) :
             (f \o back)[i] = IF i =< Len(f) THEN f[i] ELSE back[i - Len(f)]
    BY <1>2, <2>1, ConcatProperties
  <2>. QED  BY <1>2, <2>1, <2>2, Zenon
<1>7. k + 1 + (n - k) = n + 1 /\ k \in Nat /\ k =< n
  BY <1>0 DEF n
<1>8. \A i \in 1..n + 1 : (f \o back)[i] = IF i =< k THEN m[i] ELSE IF i = k + 1 THEN e ELSE m[i - 1]
  <2>1. TAKE i \in 1..n + 1
  <2>2. CASE i =< k + 1
    BY <1>0, <1>5, <1>6, <1>7, <2>2 DEF f
  <2>3. CASE i > k + 1
    <3>1. i - (k + 1) \in 1..n - k /\ k + (i - (k + 1)) = i - 1
      BY <1>0, <1>7, <2>3
    <3>. QED  BY <1>0, <1>2, <1>6, <1>7, <2>3, <3>1
  <2>4. i =< k + 1 \/ i > k + 1
    BY <1>0, <1>7
  <2>. QED  BY <2>2, <2>3, <2>4, Zenon
<1>. QED  BY <1>4, <1>6, <1>7, <1>8 DEF f, n

LEMMA RemovedAt ==
  ASSUME NEW S, NEW m \in Seq(S), NEW k \in 1..Len(m)
  PROVE  /\ RemoveAt(m, k) \in Seq(S)
         /\ Len(RemoveAt(m, k)) = Len(m) - 1
         /\ \A i \in 1..Len(m) - 1 : RemoveAt(m, k)[i] = IF i < k THEN m[i] ELSE m[i + 1]
<1>. DEFINE front == SubSeq(m, 1, k - 1)
            back == SubSeq(m, k + 1, Len(m))
            n == Len(m)
<1>0. n \in Nat /\ \A i \in 1..n : m[i] \in S
  OBVIOUS
<1>1. /\ front \in Seq(S) /\ Len(front) = k - 1 /\ \A i \in 1..k - 1 : front[i] = m[i]
  <2>1. /\ SubSeq(m, 1, k - 1) \in Seq(S)
        /\ Len(SubSeq(m, 1, k - 1)) = IF 1 <= k - 1 THEN k - 1 - 1 + 1 ELSE 0
        /\ \A i \in 1..k - 1 - 1 + 1 : SubSeq(m, 1, k - 1)[i] = m[1 + i - 1]
    BY <1>0, SubSeqProperties
  <2>. QED  BY <1>0, <2>1
<1>2. /\ back \in Seq(S) /\ Len(back) = n - k /\ \A i \in 1..n - k : back[i] = m[k + i]
  <2>1. /\ SubSeq(m, k + 1, n) \in Seq(S)
        /\ Len(SubSeq(m, k + 1, n)) = IF k + 1 <= n THEN n - (k + 1) + 1 ELSE 0
        /\ \A i \in 1..n - (k + 1) + 1 : SubSeq(m, k + 1, n)[i] = m[k + 1 + i - 1]
    BY <1>0, SubSeqProperties
  <2>. QED  BY <1>0, <2>1
<1>4. RemoveAt(m, k) = front \o back
  BY DEF RemoveAt
<1>7. k \in Nat /\ k >= 1 /\ k =< n
  BY <1>0
<1>. HIDE DEF front, back, n
<1>6. /\ front \o back \in Seq(S) /\ Len(front \o back) = k - 1 + (n - k)
      /\ \A i \in 1..k - 1 + (n - k) : (front \o back)[i] = IF i =< k - 1 THEN front[i] ELSE back[i - (k - 1)]
  <2>2. /\ front \o back \in Seq(S) /\ Len(front \o back) = Len(front) + Len(back)
        /\ \A i \in 1..Len(front) + Len(back) :
             (front \o back)[i] = IF i =< Len(front) THEN front[i] ELSE back[i - Len(front)]
    BY <1>1, <1>2, ConcatProperties
  <2>. QED  BY <1>1, <1>2, <2>2, Zenon
<1>8. \A i \in 1..n - 1 : (front \o back)[i] = IF i < k THEN m[i] ELSE m[i + 1]
  <2>1. TAKE i \in 1..n - 1
  <2>2. CASE i < k
    BY <1>0, <1>1, <1>6, <1>7, <2>2
  <2>3. CASE i >= k
    <3>1. i - (k - 1) \in 1..n - k /\ k + (i - (k - 1)) = i + 1
      BY <1>0, <1>7, <2>3
    <3>. QED  BY <1>0, <1>2, <1>6, <1>7, <2>3, <3>1
  <2>4. i < k \/ i >= k
    BY <1>0, <1>7
  <2>. QED  BY <2>2, <2>3, <2>4, Zenon
<1>9. k - 1 + (n - k) = n - 1
  BY <1>0, <1>7
<1>. QED  BY <1>4, <1>6, <1>8, <1>9, Zenon DEF n

\* Each element of a set stands once in a sequence.
Once(m, A, S) == m \in Seq(A) /\ IsInjective(m) /\ ToSet(m) = S

LEMMA OnceFacts ==
  ASSUME NEW A, NEW m, NEW S, Once(m, A, S)
  PROVE  /\ m \in Seq(A) /\ Len(m) \in Nat /\ S = {m[i] : i \in 1..Len(m)}
         /\ \A i, j \in 1..Len(m) : m[i] = m[j] => i = j
         /\ \A i \in 1..Len(m) : m[i] \in S /\ m[i] \in A
         /\ \A x \in S : \E i \in 1..Len(m) : m[i] = x
<1>1. m \in Seq(A) /\ Len(m) \in Nat /\ DOMAIN m = 1..Len(m)
  BY DEF Once
<1>2. S = {m[i] : i \in 1..Len(m)} /\ \A i, j \in 1..Len(m) : m[i] = m[j] => i = j
  BY <1>1 DEF Once, ToSet, IsInjective
<1>. QED  BY <1>1, <1>2

LEMMA OnceInserted ==
  ASSUME NEW A, NEW m, NEW S, Once(m, A, S), NEW k \in 0..Len(m), NEW e \in A, e \notin S
  PROVE  Once(InsertAt(m, k + 1, e), A, S \cup {e})
<1>. DEFINE r == InsertAt(m, k + 1, e)
            old(i) == IF i =< k THEN i ELSE i - 1
<1>0. m \in Seq(A) /\ Len(m) \in Nat
  BY OnceFacts
<1>1. /\ r \in Seq(A) /\ Len(r) = Len(m) + 1
      /\ \A i \in 1..Len(m) + 1 : r[i] = IF i =< k THEN m[i] ELSE IF i = k + 1 THEN e ELSE m[i - 1]
  BY <1>0, InsertedAt
<1>. HIDE DEF r
<1>2. /\ r[k + 1] = e /\ k + 1 \in 1..Len(r)
      /\ \A i \in 1..Len(r) : i # k + 1 => old(i) \in 1..Len(m) /\ r[i] = m[old(i)]
  BY <1>0, <1>1
<1>3. \A i \in 1..Len(m) : m[i] # e
  BY OnceFacts
<1>4. IsInjective(r)
  <2>1. SUFFICES ASSUME NEW i \in 1..Len(r), NEW j \in 1..Len(r), r[i] = r[j]
                 PROVE  i = j
    BY <1>1 DEF IsInjective
  <2>2. \A l \in 1..Len(r) : l # k + 1 => r[l] # e
    BY <1>2, <1>3, Zenon
  <2>3. CASE i = k + 1 \/ j = k + 1
    BY <1>2, <2>1, <2>2, <2>3
  <2>4. CASE i # k + 1 /\ j # k + 1
    <3>1. old(i) \in 1..Len(m) /\ old(j) \in 1..Len(m) /\ m[old(i)] = m[old(j)]
      BY <1>2, <2>1, <2>4
    <3>2. old(i) = old(j)
      BY <3>1, OnceFacts
    <3>. QED  BY <1>0, <1>1, <2>4, <3>2
  <2>. QED  BY <2>3, <2>4
<1>5. ToSet(r) = S \cup {e}
  <2>1. ToSet(r) = {r[i] : i \in 1..Len(r)} /\ S = {m[i] : i \in 1..Len(m)}
    BY <1>1, OnceFacts DEF ToSet
  <2>2. \A i \in 1..Len(r) : r[i] \in S \cup {e}
    BY <1>2, <2>1
  <2>3. ASSUME NEW i \in 1..Len(m) PROVE \E j \in 1..Len(r) : r[j] = m[i]
    <3>1. CASE i =< k
      BY <1>0, <1>1, <3>1
    <3>2. CASE i > k
      <4>1. i + 1 \in 1..Len(m) + 1 /\ ~(i + 1 =< k) /\ i + 1 # k + 1 /\ (i + 1) - 1 = i
        BY <1>0, <3>2
      <4>. QED  BY <1>1, <4>1
    <3>. QED  BY <1>0, <3>1, <3>2
  <2>4. S \cup {e} \subseteq ToSet(r)
    BY <1>2, <2>1, <2>3
  <2>. QED  BY <2>1, <2>2, <2>4
<1>. QED  BY <1>1, <1>4, <1>5 DEF Once, r

LEMMA OnceRemoved ==
  ASSUME NEW A, NEW m, NEW S, Once(m, A, S), NEW k \in 1..Len(m)
  PROVE  Once(RemoveAt(m, k), A, S \ {m[k]})
<1>. DEFINE r == RemoveAt(m, k)
            old(i) == IF i < k THEN i ELSE i + 1
<1>0. m \in Seq(A) /\ Len(m) \in Nat
  BY OnceFacts
<1>1. /\ r \in Seq(A) /\ Len(r) = Len(m) - 1
      /\ \A i \in 1..Len(m) - 1 : r[i] = IF i < k THEN m[i] ELSE m[i + 1]
  BY <1>0, RemovedAt
<1>. HIDE DEF r
<1>2. \A i \in 1..Len(r) : old(i) \in 1..Len(m) /\ old(i) # k /\ r[i] = m[old(i)]
  BY <1>0, <1>1
<1>3. \A i, j \in 1..Len(r) : old(i) = old(j) => i = j
  BY <1>0, <1>1
<1>4. \A i, j \in 1..Len(m) : m[i] = m[j] => i = j
  BY OnceFacts
<1>5. IsInjective(r)
  <2>1. SUFFICES ASSUME NEW i \in 1..Len(r), NEW j \in 1..Len(r), r[i] = r[j]
                 PROVE  i = j
    BY <1>1 DEF IsInjective
  <2>2. old(i) \in 1..Len(m) /\ old(j) \in 1..Len(m) /\ m[old(i)] = m[old(j)]
    BY <1>2, <2>1
  <2>. QED  BY <1>3, <1>4, <2>2
<1>6. ToSet(r) = S \ {m[k]}
  <2>1. S = {m[i] : i \in 1..Len(m)} /\ ToSet(r) = {r[i] : i \in 1..Len(r)}
    BY <1>1, OnceFacts DEF ToSet
  <2>2. \A i \in 1..Len(r) : r[i] \in S \ {m[k]}
    BY <1>2, <1>4, <2>1
  <2>3. ASSUME NEW i \in 1..Len(m), m[i] # m[k] PROVE \E j \in 1..Len(r) : r[j] = m[i]
    <3>1. CASE i < k
      BY <1>0, <1>1, <3>1
    <3>2. CASE i > k
      <4>1. i - 1 \in 1..Len(m) - 1 /\ ~(i - 1 < k) /\ (i - 1) + 1 = i
        BY <1>0, <3>2
      <4>. QED  BY <1>1, <4>1
    <3>. QED  BY <1>0, <2>3, <3>1, <3>2
  <2>. QED  BY <2>1, <2>2, <2>3
<1>. QED  BY <1>1, <1>5, <1>6 DEF Once, r

-----------------------------------------------------------------------------
(* The multimap of a RBTimer.  It keeps a set of entries: in ascending     *)
(* order of their times, each once.                                        *)

Entries == Nat \X Nat

Ascends(m) == \A i, j \in 1..Len(m) : i < j => m[i][1] =< m[j][1]

Keeps(m, S) == Once(m, Entries, S) /\ Ascends(m)

\* The entries up to a key stand in front of all others.
LEMMA BeforeIsPrefix ==
  ASSUME NEW m \in Seq(Entries), Ascends(m), NEW key \in Nat
  PROVE  \E k \in 0..Len(m) :
           /\ Cardinality(Before(m, key)) = k
           /\ \A i \in 1..k : m[i][1] =< key
           /\ \A i \in (k + 1)..Len(m) : m[i][1] > key
<1>0. Len(m) \in Nat /\ \A i \in 1..Len(m) : m[i][1] \in Nat
  <2>1. \A i \in 1..Len(m) : m[i] \in Nat \X Nat
    BY DEF Entries
  <2>. QED  BY <2>1
<1>. DEFINE behind == {i \in 1..Len(m) : ~(m[i][1] =< key)}
<1>1. ASSUME NEW k \in 0..Len(m), \A i \in 1..k : m[i][1] =< key,
             \A i \in (k + 1)..Len(m) : m[i][1] > key
      PROVE  Cardinality(Before(m, key)) = k
  <2>1. Before(m, key) = 1..k
    <3>1. ASSUME NEW i \in 1..Len(m), m[i][1] =< key PROVE i \in 1..k
      <4>1. CASE i \in (k + 1)..Len(m)
        BY <1>0, <1>1, <3>1, <4>1
      <4>. QED  BY <1>0, <4>1
    <3>2. 1..k \subseteq 1..Len(m)
      BY <1>0
    <3>. QED  BY <1>1, <3>1, <3>2 DEF Before
  <2>2. Cardinality(1..k) = k
    BY <1>0, FS_Interval
  <2>. QED  BY <2>1, <2>2
<1>2. CASE behind = {}
  <2>1. \A i \in 1..Len(m) : m[i][1] =< key
    BY <1>2
  <2>2. Len(m) \in 0..Len(m) /\ (Len(m) + 1)..Len(m) = {}
    BY <1>0
  <2>. QED  BY <1>1, <2>1, <2>2
<1>3. CASE behind # {}
  <2>1. behind \in SUBSET Nat
    BY <1>0
  <2>. DEFINE f == Min(behind)
  <2>2. f \in behind /\ \A i \in behind : f =< i
    BY <1>3, <2>1, MinIsLeast
  <2>3. f \in 1..Len(m) /\ ~(m[f][1] =< key)
    BY <2>2
  <2>. HIDE DEF f
  <2>4. ASSUME NEW i \in 1..Len(m), i < f PROVE m[i][1] =< key
    <3>1. ~(f =< i)
      BY <1>0, <2>3, <2>4
    <3>2. i \notin behind
      BY <2>2, <3>1
    <3>. QED  BY <3>2
  <2>. HIDE DEF behind
  <2>5. f - 1 \in 0..Len(m) /\ \A i \in 1..(f - 1) : i \in 1..Len(m) /\ i < f
    BY <1>0, <2>3
  <2>6. \A i \in ((f - 1) + 1)..Len(m) : m[i][1] > key
    <3>1. TAKE i \in ((f - 1) + 1)..Len(m)
    <3>2. i \in 1..Len(m) /\ (f < i \/ f = i)
      BY <1>0, <2>3
    <3>3. m[f][1] =< m[i][1]
      BY <1>0, <2>3, <3>2 DEF Ascends
    <3>. QED  BY <1>0, <2>3, <3>2, <3>3
  <2>7. \A i \in 1..(f - 1) : m[i][1] =< key
    BY <2>4, <2>5
  <2>8. Cardinality(Before(m, key)) = f - 1
    BY <1>1, <2>5, <2>6, <2>7
  <2>. QED  BY <2>5, <2>6, <2>7, <2>8
<1>. QED  BY <1>2, <1>3

LEMMA KeepsInserted ==
  ASSUME NEW m, NEW S, Keeps(m, S), NEW key \in Nat, NEW t \in Nat, <<key, t>> \notin S
  PROVE  Keeps(Inserted(m, key, t), S \cup {<<key, t>>})
<1>. DEFINE e == <<key, t>>
            r == Inserted(m, key, t)
<1>0. /\ m \in Seq(Entries) /\ Len(m) \in Nat /\ Ascends(m) /\ e \in Entries /\ e[1] = key
      /\ \A i \in 1..Len(m) : m[i] \in Entries /\ m[i][1] \in Nat
  <2>1. m \in Seq(Entries) /\ Len(m) \in Nat /\ \A i \in 1..Len(m) : m[i] \in Entries
    BY OnceFacts DEF Keeps
  <2>. QED  BY <2>1 DEF Keeps, Entries
<1>1. PICK k \in 0..Len(m) : /\ Cardinality(Before(m, key)) = k
                             /\ \A i \in 1..k : m[i][1] =< key
                             /\ \A i \in (k + 1)..Len(m) : m[i][1] > key
  BY <1>0, BeforeIsPrefix
<1>2. r = InsertAt(m, k + 1, e)
  BY <1>1 DEF Inserted
<1>. HIDE DEF e, r
<1>3. /\ r \in Seq(Entries) /\ Len(r) = Len(m) + 1
      /\ \A i \in 1..Len(m) + 1 : r[i] = IF i =< k THEN m[i] ELSE IF i = k + 1 THEN e ELSE m[i - 1]
  <2>1. /\ InsertAt(m, k + 1, e) \in Seq(Entries)
        /\ Len(InsertAt(m, k + 1, e)) = Len(m) + 1
        /\ \A i \in 1..Len(m) + 1 : InsertAt(m, k + 1, e)[i] =
             IF i =< k THEN m[i] ELSE IF i = k + 1 THEN e ELSE m[i - 1]
    BY <1>0, InsertedAt
  <2>. QED  BY <1>2, <2>1, Zenon
<1>. DEFINE old(i) == IF i =< k THEN i ELSE i - 1
<1>4. /\ r[k + 1] = e /\ k + 1 \in 1..Len(r)
      /\ \A i \in 1..Len(r) : i # k + 1 => old(i) \in 1..Len(m) /\ r[i] = m[old(i)]
  BY <1>0, <1>3
<1>5. Ascends(r)
  <2>1. SUFFICES ASSUME NEW i \in 1..Len(r), NEW j \in 1..Len(r), i < j
                 PROVE  r[i][1] =< r[j][1]
    BY DEF Ascends
  <2>2. CASE i = k + 1
    <3>1. j # k + 1 /\ old(j) \in (k + 1)..Len(m)
      BY <1>0, <1>3, <2>1, <2>2
    <3>2. m[old(j)][1] > key /\ r[j] = m[old(j)] /\ m[old(j)][1] \in Nat
      BY <1>0, <1>1, <1>4, <3>1
    <3>. QED  BY <1>0, <1>4, <2>2, <3>2
  <2>3. CASE j = k + 1
    <3>1. i # k + 1 /\ old(i) \in 1..k
      BY <1>0, <1>3, <2>1, <2>3
    <3>2. m[old(i)][1] =< key /\ r[i] = m[old(i)]
      BY <1>1, <1>4, <3>1
    <3>. QED  BY <1>0, <1>4, <2>3, <3>2
  <2>4. CASE i # k + 1 /\ j # k + 1
    <3>1. old(i) \in 1..Len(m) /\ old(j) \in 1..Len(m) /\ r[i] = m[old(i)] /\ r[j] = m[old(j)]
      BY <1>4, <2>4
    <3>2. old(i) < old(j)
      BY <1>0, <1>3, <2>1, <2>4
    <3>. QED  BY <1>0, <3>1, <3>2 DEF Ascends
  <2>. QED  BY <2>2, <2>3, <2>4
<1>6. Once(r, Entries, S \cup {e})
  <2>1. Once(InsertAt(m, k + 1, e), Entries, S \cup {e})
    BY <1>0, OnceInserted DEF Keeps, e
  <2>. QED  BY <1>2, <2>1, Zenon
<1>. QED  BY <1>5, <1>6 DEF Keeps, r, e

LEMMA KeepsRemoved ==
  ASSUME NEW m, NEW S, Keeps(m, S), NEW k \in 1..Len(m)
  PROVE  Keeps(RemoveAt(m, k), S \ {m[k]})
<1>. DEFINE r == RemoveAt(m, k)
            old(i) == IF i < k THEN i ELSE i + 1
<1>0. m \in Seq(Entries) /\ Len(m) \in Nat
  BY OnceFacts DEF Keeps
<1>1. /\ r \in Seq(Entries) /\ Len(r) = Len(m) - 1
      /\ \A i \in 1..Len(m) - 1 : r[i] = IF i < k THEN m[i] ELSE m[i + 1]
  BY <1>0, RemovedAt
<1>. HIDE DEF r
<1>2. \A i \in 1..Len(r) : old(i) \in 1..Len(m) /\ r[i] = m[old(i)]
  BY <1>0, <1>1
<1>3. \A i, j \in 1..Len(r) : i < j => old(i) < old(j)
  BY <1>0, <1>1
<1>4. Ascends(r)
  <2>1. SUFFICES ASSUME NEW i \in 1..Len(r), NEW j \in 1..Len(r), i < j
                 PROVE  r[i][1] =< r[j][1]
    BY DEF Ascends
  <2>2. old(i) \in 1..Len(m) /\ old(j) \in 1..Len(m) /\ old(i) < old(j) /\ r[i] = m[old(i)] /\ r[j] = m[old(j)]
    BY <1>2, <1>3, <2>1
  <2>. QED  BY <2>2 DEF Keeps, Ascends
<1>5. Once(r, Entries, S \ {m[k]})
  BY OnceRemoved DEF Keeps, r
<1>. QED  BY <1>4, <1>5 DEF Keeps, r

\* Tail takes the first element out.
LEMMA TailRemoves ==
  ASSUME NEW A, NEW m \in Seq(A), m # <<>>
  PROVE  RemoveAt(m, 1) = Tail(m) /\ Head(m) = m[1] /\ 1 \in 1..Len(m)
<1>1. RemoveAt(m, 1) = SubSeq(m, 1, 1 - 1) \o SubSeq(m, 1 + 1, Len(m))
  BY Zenon DEF RemoveAt
<1>2. SubSeq(m, 1, 1 - 1) = <<>>
  BY SubSeqEmpty
<1>3. SubSeq(m, 1 + 1, Len(m)) = Tail(m) /\ Tail(m) \in Seq(A)
  BY TailIsSubSeq, HeadTailProperties
<1>4. RemoveAt(m, 1) = Tail(m)
  BY <1>1, <1>2, <1>3, ConcatEmptySeq
<1>. QED  BY <1>4

LEMMA KeepsTail ==
  ASSUME NEW m, NEW S, Keeps(m, S), m # <<>>
  PROVE  Keeps(Tail(m), S \ {Head(m)})
<1>1. RemoveAt(m, 1) = Tail(m) /\ Head(m) = m[1] /\ 1 \in 1..Len(m)
  BY OnceFacts, TailRemoves DEF Keeps
<1>2. Keeps(RemoveAt(m, 1), S \ {m[1]})
  BY <1>1, KeepsRemoved
<1>. QED  BY <1>1, <1>2, Zenon

LEMMA OnceNothing == ASSUME NEW A PROVE Once(<<>>, A, {})
BY DEF Once, IsInjective, ToSet

LEMMA KeepsNothing == Keeps(<<>>, {})
BY OnceNothing DEF Keeps, Ascends

-----------------------------------------------------------------------------
(* The queue of timers.  What its constants are: add_timer accepts no      *)
(* timer that is never to be called.                                       *)

TimerConstants ==
  /\ Starts \subseteq Nat /\ Intervals \subseteq Nat /\ Times \subseteq Int \ {0}
  /\ Deltas \subseteq Nat /\ MaxTimers \in Nat /\ MaxNow \in Nat

\* update() of one of the queues runs.
Running == updating \/ pc # "idle"

\* A node keeps its type; only next_time changes when it is due.
LEMMA NodeTypes ==
  ASSUME TimerConstants, mNow \in Nat
  PROVE  /\ \A s \in Starts, i \in Intervals, n \in Times, b \in BOOLEAN :
              /\ AnyQueue!NewTimer(s, i, n, b) \in AnyQueue!Timers
              /\ AnyQueue!NewTimer(s, i, n, b).left # 0
         /\ \A r \in AnyQueue!Timers :
              /\ r.next \in Nat /\ r.left \in Int
              /\ AnyQueue!TimedOut(r) \in AnyQueue!Timers /\ AnyQueue!TimedOut(r).next = r.next
              /\ AnyQueue!NextTime(r) \in AnyQueue!Timers /\ AnyQueue!NextTime(r).left = r.left
              /\ [r EXCEPT !.left = 0] \in AnyQueue!Timers /\ [r EXCEPT !.left = 0].next = r.next
<1>1. ASSUME NEW s \in Starts, NEW i \in Intervals, NEW n \in Times, NEW b \in BOOLEAN
      PROVE  /\ AnyQueue!NewTimer(s, i, n, b) \in AnyQueue!Timers
             /\ AnyQueue!NewTimer(s, i, n, b).left # 0
  <2>1. mNow + s \in Nat /\ n \in Int /\ n # 0
    BY DEF TimerConstants
  <2>. QED  BY <2>1 DEF AnyQueue!NewTimer, AnyQueue!Timers
<1>2. ASSUME NEW r \in AnyQueue!Timers
      PROVE  /\ r.next \in Nat /\ r.left \in Int
             /\ AnyQueue!TimedOut(r) \in AnyQueue!Timers /\ AnyQueue!TimedOut(r).next = r.next
             /\ AnyQueue!NextTime(r) \in AnyQueue!Timers /\ AnyQueue!NextTime(r).left = r.left
             /\ [r EXCEPT !.left = 0] \in AnyQueue!Timers /\ [r EXCEPT !.left = 0].next = r.next
  <2>1. /\ r.next \in Nat /\ r.left \in Int /\ r.interval \in Intervals /\ r.interval \in Nat
        /\ r.fromNow \in BOOLEAN
        /\ r = [next |-> r.next, interval |-> r.interval, left |-> r.left, fromNow |-> r.fromNow]
    BY DEF AnyQueue!Timers, TimerConstants
  <2>2. /\ AnyQueue!TimedOut(r) \in AnyQueue!Timers /\ AnyQueue!TimedOut(r).next = r.next
    BY <2>1 DEF AnyQueue!TimedOut, AnyQueue!Timers
  <2>3. (IF r.fromNow THEN mNow ELSE r.next) + r.interval \in Nat
    BY <2>1
  <2>4. AnyQueue!NextTime(r) \in AnyQueue!Timers /\ AnyQueue!NextTime(r).left = r.left
    BY <2>1, <2>3 DEF AnyQueue!NextTime, AnyQueue!Timers
  <2>5. [r EXCEPT !.left = 0] \in AnyQueue!Timers /\ [r EXCEPT !.left = 0].next = r.next
    BY <2>1 DEF AnyQueue!Timers
  <2>. QED  BY <2>1, <2>2, <2>4, <2>5
<1>. QED  BY <1>1, <1>2

\* The nodes are the same in the tree.
LEMMA TreeNodes ==
  ASSUME TimerConstants, mNow \in Nat
  PROVE  /\ \A s \in Starts, i \in Intervals, n \in Times, b \in BOOLEAN :
              Queue!NewTimer(s, i, n, b).next \in Nat
         /\ \A r \in Queue!Timers : Queue!NextTime(r).next \in Nat
<1>1. /\ Queue!Timers = AnyQueue!Timers
      /\ \A s, i, n, b : Queue!NewTimer(s, i, n, b) = AnyQueue!NewTimer(s, i, n, b)
      /\ \A r : Queue!NextTime(r) = AnyQueue!NextTime(r)
  BY DEF Queue!Timers, AnyQueue!Timers, Queue!NewTimer, AnyQueue!NewTimer, Queue!NextTime, AnyQueue!NextTime
<1>. QED  BY <1>1, NodeTypes

\* The part of the type that the table of timers has.
TableTyped(m, id, c) ==
  /\ DOMAIN m \subseteq 1..id
  /\ \A t \in DOMAIN m : m[t] \in AnyQueue!Timers /\ (t # c => m[t].left # 0)

LEMMA QueueTypeStep ==
  ASSUME TimerConstants, AnyQueue!TypeOK, [AnyQueue!Next]_(AnyQueue!vars)
  PROVE  AnyQueue!TypeOK'
<1>. USE DEF Running
<1>0. /\ mNow \in Nat /\ lastID \in Nat /\ TableTyped(mTimers, lastID, calling)
      /\ calling \in 0..lastID /\ lastID \in 0..MaxTimers /\ mNow \in 0..MaxNow
      /\ MaxTimers \in Nat /\ MaxNow \in Nat
  BY DEF AnyQueue!TypeOK, TableTyped, TimerConstants
<1>1. ASSUME NEW s \in Starts, NEW i \in Intervals, NEW n \in Times, NEW b \in BOOLEAN,
             AnyQueue!Add(s, i, n, b)
      PROVE  AnyQueue!TypeOK'
  <2>1. /\ lastID' = lastID + 1 /\ lastID' \in 0..MaxTimers
        /\ UNCHANGED <<mNow, calling, cleared>> /\ Running' = Running
    BY <1>0, <1>1 DEF AnyQueue!Add
  <2>2. /\ DOMAIN mTimers' = DOMAIN mTimers \cup {lastID + 1}
        /\ mTimers'[lastID + 1] = AnyQueue!NewTimer(s, i, n, b)
        /\ \A t \in DOMAIN mTimers : t # lastID + 1 => mTimers'[t] = mTimers[t]
    BY <1>1 DEF AnyQueue!Add
  <2>3. AnyQueue!NewTimer(s, i, n, b) \in AnyQueue!Timers /\ AnyQueue!NewTimer(s, i, n, b).left # 0
    BY <1>0, NodeTypes
  <2>4. DOMAIN mTimers' \subseteq 1..lastID' /\ calling \in 0..lastID'
    BY <1>0, <2>1, <2>2 DEF TableTyped
  <2>5. \A t \in DOMAIN mTimers' : mTimers'[t] \in AnyQueue!Timers /\ (t # calling => mTimers'[t].left # 0)
    BY <1>0, <2>2, <2>3 DEF TableTyped
  <2>. QED  BY <2>1, <2>4, <2>5 DEF AnyQueue!TypeOK
<1>2. ASSUME NEW t \in 1..MaxTimers, AnyQueue!Remove(t)
      PROVE  AnyQueue!TypeOK'
  <2>1. t \in DOMAIN mTimers /\ UNCHANGED <<mNow, lastID, calling, cleared>> /\ Running' = Running
    BY <1>2 DEF AnyQueue!Remove
  <2>2. CASE t = calling
    <3>1. mTimers' = [mTimers EXCEPT ![t] = [@ EXCEPT !.left = 0]]
      BY <1>2, <2>2 DEF AnyQueue!Remove
    <3>2. /\ DOMAIN mTimers' = DOMAIN mTimers /\ mTimers'[t] = [mTimers[t] EXCEPT !.left = 0]
          /\ \A u \in DOMAIN mTimers : u # t => mTimers'[u] = mTimers[u]
      BY <2>1, <3>1
    <3>3. mTimers'[t] \in AnyQueue!Timers
      BY <1>0, <2>1, <3>2, NodeTypes DEF TableTyped
    <3>. QED  BY <1>0, <2>1, <2>2, <3>2, <3>3 DEF AnyQueue!TypeOK, TableTyped
  <2>3. CASE t # calling
    <3>1. /\ DOMAIN mTimers' = DOMAIN mTimers \ {t}
          /\ \A u \in DOMAIN mTimers' : mTimers'[u] = mTimers[u]
      BY <1>2, <2>3 DEF AnyQueue!Remove, AnyQueue!Restrict
    <3>. QED  BY <1>0, <2>1, <3>1 DEF AnyQueue!TypeOK, TableTyped
  <2>. QED  BY <2>2, <2>3
<1>3. CASE AnyQueue!Clear
  BY <1>3 DEF AnyQueue!Clear, AnyQueue!TypeOK
<1>4. CASE AnyQueue!Reset
  BY <1>0, <1>4 DEF AnyQueue!Reset, AnyQueue!TypeOK
<1>5. ASSUME NEW d \in Deltas, AnyQueue!Update(d)
      PROVE  AnyQueue!TypeOK'
  <2>1. mNow' \in 0..MaxNow
    BY <1>0, <1>5 DEF AnyQueue!Update, TimerConstants
  <2>. QED  BY <1>5, <2>1 DEF AnyQueue!Update, AnyQueue!TypeOK
<1>6. ASSUME NEW t \in 1..MaxTimers, AnyQueue!Fire(t)
      PROVE  AnyQueue!TypeOK'
  <2>1. /\ t \in DOMAIN mTimers /\ Running /\ calling = 0 /\ calling' = t
        /\ mTimers' = [mTimers EXCEPT ![t] = AnyQueue!TimedOut(@)]
        /\ UNCHANGED <<mNow, lastID, cleared>> /\ Running' = Running
    BY <1>6 DEF AnyQueue!Fire, AnyQueue!Due
  <2>2. /\ DOMAIN mTimers' = DOMAIN mTimers /\ mTimers'[t] = AnyQueue!TimedOut(mTimers[t])
        /\ \A u \in DOMAIN mTimers : u # t => mTimers'[u] = mTimers[u]
    BY <2>1
  <2>5. mTimers'[t] \in AnyQueue!Timers
    BY <1>0, <2>1, <2>2, NodeTypes DEF TableTyped
  <2>3. \A u \in DOMAIN mTimers' : mTimers'[u] \in AnyQueue!Timers /\ (u # t => mTimers'[u].left # 0)
    <3>1. TAKE u \in DOMAIN mTimers'
    <3>2. CASE u = t
      BY <2>5, <3>2
    <3>3. CASE u # t
      BY <1>0, <2>1, <2>2, <3>3 DEF TableTyped
    <3>. QED  BY <3>2, <3>3
  <2>4. t \in 0..lastID
    BY <1>0, <2>1 DEF TableTyped
  <2>. QED  BY <1>0, <2>1, <2>2, <2>3, <2>4 DEF AnyQueue!TypeOK
<1>7. ASSUME NEW ok \in BOOLEAN, AnyQueue!Return(ok)
      PROVE  AnyQueue!TypeOK'
  <2>1. calling # 0 /\ calling' = 0 /\ cleared' = FALSE /\ UNCHANGED <<mNow, lastID>> /\ Running' = Running
    BY <1>7 DEF AnyQueue!Return
  <2>4. mNow \in 0..MaxNow /\ lastID \in 0..MaxTimers /\ 0 \in 0..lastID /\ Running \in BOOLEAN
    BY <1>0 DEF AnyQueue!TypeOK
  <2>2. CASE AnyQueue!Ends(ok)
    <3>1. /\ DOMAIN mTimers' = DOMAIN mTimers \ {calling}
          /\ \A u \in DOMAIN mTimers' : mTimers'[u] = mTimers[u]
      BY <1>7, <2>2 DEF AnyQueue!Return, AnyQueue!Restrict
    <3>2. TableTyped(mTimers', lastID, 0)
      BY <1>0, <3>1 DEF TableTyped
    <3>. QED  BY <2>1, <2>4, <3>2 DEF AnyQueue!TypeOK, TableTyped
  <2>3. CASE ~AnyQueue!Ends(ok)
    <3>1. /\ calling \in DOMAIN mTimers /\ mTimers[calling].left # 0
          /\ mTimers' = [mTimers EXCEPT ![calling] = AnyQueue!NextTime(@)]
      BY <1>7, <2>3 DEF AnyQueue!Return, AnyQueue!Ends
    <3>2. /\ DOMAIN mTimers' = DOMAIN mTimers /\ mTimers'[calling] = AnyQueue!NextTime(mTimers[calling])
          /\ \A u \in DOMAIN mTimers : u # calling => mTimers'[u] = mTimers[u]
      BY <3>1
    <3>3. mTimers'[calling] \in AnyQueue!Timers /\ mTimers'[calling].left # 0
      BY <1>0, <3>1, <3>2, NodeTypes DEF TableTyped
    <3>4. TableTyped(mTimers', lastID, 0)
      BY <1>0, <3>2, <3>3 DEF TableTyped
    <3>. QED  BY <2>1, <2>4, <3>4 DEF AnyQueue!TypeOK, TableTyped
  <2>. QED  BY <2>2, <2>3
<1>8. CASE AnyQueue!Done
  BY <1>8 DEF AnyQueue!Done, AnyQueue!TypeOK
<1>9. CASE UNCHANGED AnyQueue!vars
  BY <1>9 DEF AnyQueue!vars, AnyQueue!TypeOK
<1>. QED
  BY <1>1, <1>2, <1>3, <1>4, <1>5, <1>6, <1>7, <1>8, <1>9 DEF AnyQueue!Next, AnyQueue!Run

\* While the tree runs, its queue is the one.
LEMMA TreeIsQueue ==
  ASSUME pc = "idle", pc' = "idle", updating \in BOOLEAN, updating' \in BOOLEAN
  PROVE  /\ Queue!TypeOK <=> AnyQueue!TypeOK
         /\ Queue!TypeOK' <=> AnyQueue!TypeOK'
         /\ Queue!Init => AnyQueue!Init
         /\ [Queue!Next]_(Queue!vars) => [AnyQueue!Next]_(AnyQueue!vars)
<1>1. /\ (updating \/ pc # "idle") = (updating)
      /\ (updating \/ pc # "idle")' = (updating)'
  OBVIOUS
<1>2. Queue!Timers = AnyQueue!Timers
  BY DEF Queue!Timers, AnyQueue!Timers
<1>3. Queue!TypeOK <=> AnyQueue!TypeOK
  BY <1>1, <1>2 DEF Queue!TypeOK, AnyQueue!TypeOK
<1>4. Queue!TypeOK' <=> AnyQueue!TypeOK'
  BY <1>1, <1>2 DEF Queue!TypeOK, AnyQueue!TypeOK, Queue!Timers, AnyQueue!Timers
<1>5. Queue!Init => AnyQueue!Init
  BY <1>1 DEF Queue!Init, AnyQueue!Init
<1>6. \A s, i, n, b : Queue!Add(s, i, n, b) => AnyQueue!Add(s, i, n, b)
  BY <1>1, Zenon DEF Queue!Add, AnyQueue!Add, Queue!Outside, AnyQueue!Outside, Queue!NewTimer, AnyQueue!NewTimer
<1>7. \A t : Queue!Remove(t) => AnyQueue!Remove(t)
  BY <1>1, Zenon DEF Queue!Remove, AnyQueue!Remove, Queue!Outside, AnyQueue!Outside, Queue!Restrict, AnyQueue!Restrict
<1>8. Queue!Clear => AnyQueue!Clear
  BY <1>1, Zenon DEF Queue!Clear, AnyQueue!Clear, Queue!Outside, AnyQueue!Outside
<1>9. Queue!Reset => AnyQueue!Reset
  BY <1>1, Zenon DEF Queue!Reset, AnyQueue!Reset
<1>10. \A d : Queue!Update(d) => AnyQueue!Update(d)
  BY <1>1, Zenon DEF Queue!Update, AnyQueue!Update
<1>11. \A t : Queue!Fire(t) => AnyQueue!Fire(t)
  BY <1>1, Zenon DEF Queue!Fire, AnyQueue!Fire, Queue!Due, AnyQueue!Due, Queue!TimedOut, AnyQueue!TimedOut
<1>12. \A ok : Queue!Return(ok) => AnyQueue!Return(ok)
  BY <1>1, Zenon DEF Queue!Return, AnyQueue!Return, Queue!Ends, AnyQueue!Ends, Queue!Restrict, AnyQueue!Restrict,
     Queue!NextTime, AnyQueue!NextTime
<1>13. Queue!Done => AnyQueue!Done
  BY <1>1, Zenon DEF Queue!Done, AnyQueue!Done, Queue!Due, AnyQueue!Due
<1>14. Queue!Next => AnyQueue!Next
  BY <1>6, <1>7, <1>8, <1>9, <1>10, <1>11, <1>12, <1>13 DEF Queue!Next, Queue!Run, AnyQueue!Next, AnyQueue!Run
<1>15. UNCHANGED Queue!vars => UNCHANGED AnyQueue!vars
  BY <1>1 DEF Queue!vars, AnyQueue!vars
<1>. QED  BY <1>3, <1>4, <1>5, <1>14, <1>15

\* While the wheels run, theirs is.
LEMMA WheelIsQueue ==
  ASSUME updating = FALSE, updating' = FALSE
  PROVE  /\ W!Queue!TypeOK <=> AnyQueue!TypeOK
         /\ W!Queue!TypeOK' <=> AnyQueue!TypeOK'
         /\ W!Queue!Init => AnyQueue!Init
         /\ [W!Queue!Next]_(W!Queue!vars) => [AnyQueue!Next]_(AnyQueue!vars)
<1>1. /\ (updating \/ pc # "idle") = (pc # "idle")
      /\ (updating \/ pc # "idle")' = (pc # "idle")'
  OBVIOUS
<1>2. W!Queue!Timers = AnyQueue!Timers
  BY DEF W!Queue!Timers, AnyQueue!Timers
<1>3. W!Queue!TypeOK <=> AnyQueue!TypeOK
  BY <1>1, <1>2 DEF W!Queue!TypeOK, AnyQueue!TypeOK
<1>4. W!Queue!TypeOK' <=> AnyQueue!TypeOK'
  BY <1>1, <1>2 DEF W!Queue!TypeOK, AnyQueue!TypeOK, W!Queue!Timers, AnyQueue!Timers
<1>5. W!Queue!Init => AnyQueue!Init
  BY <1>1 DEF W!Queue!Init, AnyQueue!Init
<1>6. \A s, i, n, b : W!Queue!Add(s, i, n, b) => AnyQueue!Add(s, i, n, b)
  BY <1>1, Zenon DEF W!Queue!Add, AnyQueue!Add, W!Queue!Outside, AnyQueue!Outside, W!Queue!NewTimer, AnyQueue!NewTimer
<1>7. \A t : W!Queue!Remove(t) => AnyQueue!Remove(t)
  BY <1>1, Zenon DEF W!Queue!Remove, AnyQueue!Remove, W!Queue!Outside, AnyQueue!Outside, W!Queue!Restrict, AnyQueue!Restrict
<1>8. W!Queue!Clear => AnyQueue!Clear
  BY <1>1, Zenon DEF W!Queue!Clear, AnyQueue!Clear, W!Queue!Outside, AnyQueue!Outside
<1>9. W!Queue!Reset => AnyQueue!Reset
  BY <1>1, Zenon DEF W!Queue!Reset, AnyQueue!Reset
<1>10. \A d : W!Queue!Update(d) => AnyQueue!Update(d)
  BY <1>1, Zenon DEF W!Queue!Update, AnyQueue!Update
<1>11. \A t : W!Queue!Fire(t) => AnyQueue!Fire(t)
  BY <1>1, Zenon DEF W!Queue!Fire, AnyQueue!Fire, W!Queue!Due, AnyQueue!Due, W!Queue!TimedOut, AnyQueue!TimedOut
<1>12. \A ok : W!Queue!Return(ok) => AnyQueue!Return(ok)
  BY <1>1, Zenon DEF W!Queue!Return, AnyQueue!Return, W!Queue!Ends, AnyQueue!Ends, W!Queue!Restrict, AnyQueue!Restrict,
     W!Queue!NextTime, AnyQueue!NextTime
<1>13. W!Queue!Done => AnyQueue!Done
  BY <1>1, Zenon DEF W!Queue!Done, AnyQueue!Done, W!Queue!Due, AnyQueue!Due
<1>14. W!Queue!Next => AnyQueue!Next
  BY <1>6, <1>7, <1>8, <1>9, <1>10, <1>11, <1>12, <1>13 DEF W!Queue!Next, W!Queue!Run, AnyQueue!Next, AnyQueue!Run
<1>15. UNCHANGED W!Queue!vars => UNCHANGED AnyQueue!vars
  BY <1>1 DEF W!Queue!vars, AnyQueue!vars
<1>. QED  BY <1>3, <1>4, <1>5, <1>14, <1>15

-----------------------------------------------------------------------------
(* The tree: its multimap keeps an entry for every timer but the one that  *)
(* is being called, under the time its node holds.                         *)

EntriesOf(m, c) == {<<m[t].next, t>> : t \in DOMAIN m \ {c}}

SortInv == Queue!TypeOK /\ Keeps(mSortTimers, EntriesOf(mTimers, calling))

\* A timer that rests has an entry, and an entry is of one that rests.
LEMMA EntryFacts ==
  ASSUME SortInv
  PROVE  /\ mSortTimers \in Seq(Entries) /\ Len(mSortTimers) \in Nat /\ Ascends(mSortTimers)
         /\ \A t \in DOMAIN mTimers : t \in Nat /\ t > 0 /\ mTimers[t].next \in Nat
         /\ \A i \in 1..Len(mSortTimers) : \E t \in DOMAIN mTimers \ {calling} :
              mSortTimers[i] = <<mTimers[t].next, t>>
         /\ \A t \in DOMAIN mTimers \ {calling} : \E i \in 1..Len(mSortTimers) :
              mSortTimers[i] = <<mTimers[t].next, t>>
<1>1. mSortTimers \in Seq(Entries) /\ Len(mSortTimers) \in Nat /\ Ascends(mSortTimers)
  BY OnceFacts DEF SortInv, Keeps
<1>2. {mSortTimers[i] : i \in 1..Len(mSortTimers)}
        = {<<mTimers[t].next, t>> : t \in DOMAIN mTimers \ {calling}}
  BY OnceFacts DEF SortInv, Keeps, EntriesOf
<1>3. \A t \in DOMAIN mTimers : t \in Nat /\ t > 0 /\ mTimers[t].next \in Nat
  BY DEF SortInv, Queue!TypeOK, Queue!Timers
<1>4. ASSUME NEW i \in 1..Len(mSortTimers)
      PROVE  \E t \in DOMAIN mTimers \ {calling} : mSortTimers[i] = <<mTimers[t].next, t>>
  <2>1. mSortTimers[i] \in {<<mTimers[t].next, t>> : t \in DOMAIN mTimers \ {calling}}
    BY <1>2
  <2>. QED  BY <2>1
<1>5. ASSUME NEW t \in DOMAIN mTimers \ {calling}
      PROVE  \E i \in 1..Len(mSortTimers) : mSortTimers[i] = <<mTimers[t].next, t>>
  <2>1. <<mTimers[t].next, t>> \in {mSortTimers[i] : i \in 1..Len(mSortTimers)}
    BY <1>2
  <2>. QED  BY <2>1
<1>. QED  BY <1>1, <1>3, <1>4, <1>5

\* The first entry is of a timer whose time no timer that rests is before.
LEMMA FirstIsLeast ==
  ASSUME SortInv, mSortTimers # <<>>
  PROVE  /\ Head(mSortTimers)[2] \in DOMAIN mTimers \ {calling}
         /\ Head(mSortTimers) = <<mTimers[Head(mSortTimers)[2]].next, Head(mSortTimers)[2]>>
         /\ \A t \in DOMAIN mTimers \ {calling} :
              mTimers[Head(mSortTimers)[2]].next =< mTimers[t].next
<1>1. 1 \in 1..Len(mSortTimers) /\ Head(mSortTimers) = mSortTimers[1]
  BY EntryFacts
<1>2. PICK f \in DOMAIN mTimers \ {calling} : Head(mSortTimers) = <<mTimers[f].next, f>>
  BY <1>1, EntryFacts
<1>3. ASSUME NEW t \in DOMAIN mTimers \ {calling}
      PROVE  mTimers[f].next =< mTimers[t].next
  <2>1. PICK i \in 1..Len(mSortTimers) : mSortTimers[i] = <<mTimers[t].next, t>>
    BY EntryFacts
  <2>2. mSortTimers[1][1] =< mSortTimers[i][1] \/ i = 1
    BY <1>1, <2>1, EntryFacts DEF Ascends
  <2>3. mSortTimers[1][1] = mTimers[f].next /\ mSortTimers[i][1] = mTimers[t].next
    BY <1>1, <1>2, <2>1
  <2>4. mTimers[f].next \in Nat
    BY EntryFacts
  <2>. QED  BY <2>2, <2>3, <2>4
<1>4. Head(mSortTimers)[2] = f
  BY <1>2
<1>. QED  BY <1>2, <1>3, <1>4, Zenon

\* Every step of the tree is one of the queue: update calls a timer that is due, and
\* ends when none is.
LEMMA TreeStepIsQueueStep ==
  ASSUME TimerConstants, SortInv, [Next]_vars
  PROVE  [Queue!Next]_(Queue!vars)
<1>1. ASSUME NEW s \in Starts, NEW i \in Intervals, NEW n \in Times, NEW b \in BOOLEAN,
             Add(s, i, n, b)
      PROVE  Queue!Add(s, i, n, b)
  BY <1>1 DEF Add, Queue!Add
<1>2. ASSUME NEW t \in 1..MaxTimers, RemoveTimer(t)
      PROVE  Queue!Remove(t)
  BY <1>2 DEF RemoveTimer, Queue!Remove, Restrict, Queue!Restrict
<1>3. CASE Clear
  BY <1>3, Zenon DEF Clear, Queue!Clear, Queue!Next
<1>4. CASE Reset
  BY <1>4, Zenon DEF Reset, Queue!Reset, Queue!Next
<1>5. ASSUME NEW d \in Deltas, Update(d)
      PROVE  Queue!Update(d)
  BY <1>5 DEF Update, Queue!Update
<1>6. CASE Fire
  <2>. DEFINE f == Head(mSortTimers)[2]
  <2>1. f \in DOMAIN mTimers /\ mTimers[f].next =< mNow
    BY <1>6, FirstIsLeast DEF Fire, FirstDue
  <2>2. f \in 1..MaxTimers
    <3>1. f \in 1..lastID /\ lastID \in 0..MaxTimers /\ MaxTimers \in Nat
      BY <2>1 DEF SortInv, Queue!TypeOK, TimerConstants
    <3>. HIDE DEF f
    <3>. QED  BY <3>1
  <2>3. Queue!Fire(f)
    BY <1>6, <2>1 DEF Fire, Queue!Fire, Queue!Due
  <2>. QED  BY <2>2, <2>3 DEF Queue!Next, Queue!Run
<1>7. ASSUME NEW ok \in BOOLEAN, Return(ok)
      PROVE  Queue!Return(ok)
  BY <1>7 DEF Return, Queue!Return, Restrict, Queue!Restrict
<1>8. CASE Done
  <2>1. ASSUME NEW t \in DOMAIN mTimers, mTimers[t].next =< mNow PROVE FALSE
    <3>1. t \in DOMAIN mTimers \ {calling} /\ mNow \in Nat
      BY <1>8, EntryFacts DEF Done, SortInv, Queue!TypeOK
    <3>2. mSortTimers # <<>>
      BY <3>1, EntryFacts
    <3>. DEFINE f == Head(mSortTimers)[2]
    <3>3. f \in DOMAIN mTimers /\ f # calling /\ mTimers[f].next =< mTimers[t].next
      BY <3>1, <3>2, FirstIsLeast
    <3>4. mTimers[f].left # 0 /\ mTimers[f].next \in Nat /\ mTimers[t].next \in Nat
      BY <3>3, EntryFacts DEF SortInv, Queue!TypeOK
    <3>5. mTimers[f].next =< mNow
      BY <2>1, <3>1, <3>3, <3>4
    <3>. QED  BY <1>8, <3>2, <3>4, <3>5 DEF Done, FirstDue
  <2>2. Queue!Due = {}
    BY <2>1 DEF Queue!Due
  <2>. QED  BY <1>8, <2>2, Zenon DEF Done, Queue!Done, Queue!Next, Queue!Run
<1>9. CASE UNCHANGED vars
  BY <1>9 DEF vars, Queue!vars
<1>. QED
  BY <1>1, <1>2, <1>3, <1>4, <1>5, <1>6, <1>7, <1>8, <1>9 DEF Next, Run, Queue!Next, Queue!Run

\* A timer is added to the table and to the multimap.
LEMMA AddKeeps ==
  ASSUME TimerConstants, SortInv,
         NEW s \in Starts, NEW i \in Intervals, NEW n \in Times, NEW b \in BOOLEAN,
         Add(s, i, n, b)
  PROVE  Keeps(mSortTimers', EntriesOf(mTimers', calling'))
<1>. DEFINE r == Queue!NewTimer(s, i, n, b)
            id == lastID + 1
<1>1. /\ lastID \in Nat /\ mNow \in Nat /\ calling # id /\ id \notin DOMAIN mTimers
      /\ id \in Nat
  BY DEF SortInv, Queue!TypeOK
<1>2. r.next \in Nat
  BY <1>1, TreeNodes
<1>3. /\ calling' = calling /\ mSortTimers' = Inserted(mSortTimers, r.next, id)
      /\ mTimers' = [t \in DOMAIN mTimers \cup {id} |-> IF t = id THEN r ELSE mTimers[t]]
  BY DEF Add
<1>. HIDE DEF r, id
<1>4. <<r.next, id>> \notin EntriesOf(mTimers, calling)
  BY <1>1 DEF EntriesOf
<1>5. EntriesOf(mTimers', calling') = EntriesOf(mTimers, calling) \cup {<<r.next, id>>}
  <2>1. /\ DOMAIN mTimers' \ {calling'} = (DOMAIN mTimers \ {calling}) \cup {id}
        /\ mTimers'[id] = r /\ \A t \in DOMAIN mTimers : mTimers'[t] = mTimers[t]
    BY <1>1, <1>3
  <2>. QED  BY <2>1 DEF EntriesOf
<1>6. Keeps(mSortTimers', EntriesOf(mTimers, calling) \cup {<<r.next, id>>})
  BY <1>1, <1>2, <1>3, <1>4, KeepsInserted DEF SortInv
<1>. QED  BY <1>5, <1>6

\* A timer that rests is taken out of both; the one that is called is only marked.
LEMMA RemoveKeeps ==
  ASSUME TimerConstants, SortInv, NEW t, RemoveTimer(t)
  PROVE  Keeps(mSortTimers', EntriesOf(mTimers', calling'))
<1>0. t \in DOMAIN mTimers /\ calling' = calling
  BY DEF RemoveTimer
<1>1. CASE t = calling
  <2>1. mTimers' = [mTimers EXCEPT ![t].left = 0] /\ mSortTimers' = mSortTimers
    BY <1>1 DEF RemoveTimer
  <2>2. DOMAIN mTimers' = DOMAIN mTimers /\ \A u \in DOMAIN mTimers : u # t => mTimers'[u] = mTimers[u]
    BY <2>1
  <2>3. EntriesOf(mTimers', calling') = EntriesOf(mTimers, calling)
    BY <1>0, <1>1, <2>2 DEF EntriesOf
  <2>. QED  BY <2>1, <2>3 DEF SortInv
<1>2. CASE t # calling
  <2>. DEFINE e == <<mTimers[t].next, t>>
              k == Min(Sorted(t))
  <2>1. Sorted(t) # {} /\ Sorted(t) \in SUBSET Nat
    <3>1. PICK i \in 1..Len(mSortTimers) : mSortTimers[i] = e
      BY <1>0, <1>2, EntryFacts
    <3>2. i \in Sorted(t)
      BY <3>1 DEF Sorted
    <3>3. Sorted(t) \subseteq 1..Len(mSortTimers) /\ Len(mSortTimers) \in Nat
      BY EntryFacts DEF Sorted
    <3>. QED  BY <3>2, <3>3
  <2>2. k \in Sorted(t)
    BY <2>1, MinIsLeast
  <2>3. k \in 1..Len(mSortTimers) /\ mSortTimers[k] = e
    BY <2>2 DEF Sorted
  <2>4. mTimers' = Restrict(mTimers, DOMAIN mTimers \ {t}) /\ mSortTimers' = RemoveAt(mSortTimers, k)
    BY <1>2, <2>1 DEF RemoveTimer, Unsorted
  <2>5. /\ DOMAIN mTimers' = DOMAIN mTimers \ {t}
        /\ \A u \in DOMAIN mTimers' : mTimers'[u] = mTimers[u]
    BY <2>4 DEF Restrict
  <2>. HIDE DEF k
  <2>6. EntriesOf(mTimers', calling') = EntriesOf(mTimers, calling) \ {e}
    BY <1>0, <1>2, <2>5 DEF EntriesOf
  <2>7. Keeps(mSortTimers', EntriesOf(mTimers, calling) \ {mSortTimers[k]})
    BY <2>3, <2>4, KeepsRemoved DEF SortInv
  <2>. QED  BY <2>3, <2>6, <2>7
<1>. QED  BY <1>1, <1>2

\* The entry of the timer that is called is gone while its callback runs.
LEMMA FireKeeps ==
  ASSUME TimerConstants, SortInv, Fire
  PROVE  Keeps(mSortTimers', EntriesOf(mTimers', calling'))
<1>. DEFINE f == Head(mSortTimers)[2]
<1>1. /\ mSortTimers # <<>> /\ calling = 0 /\ calling' = f /\ mSortTimers' = Tail(mSortTimers)
      /\ mTimers' = [mTimers EXCEPT ![f] = Queue!TimedOut(@)]
  BY DEF Fire, FirstDue
<1>2. f \in DOMAIN mTimers /\ Head(mSortTimers) = <<mTimers[f].next, f>> /\ 0 \notin DOMAIN mTimers
  BY <1>1, FirstIsLeast, EntryFacts
<1>. HIDE DEF f
<1>3. DOMAIN mTimers' = DOMAIN mTimers /\ \A u \in DOMAIN mTimers : u # f => mTimers'[u] = mTimers[u]
  BY <1>1
<1>4. EntriesOf(mTimers', calling') = EntriesOf(mTimers, calling) \ {Head(mSortTimers)}
  BY <1>1, <1>2, <1>3 DEF EntriesOf
<1>. QED  BY <1>1, <1>4, KeepsTail DEF SortInv

\* A timer that has calls left is put back under its next time.
LEMMA ReturnKeeps ==
  ASSUME TimerConstants, SortInv, NEW ok \in BOOLEAN, Return(ok)
  PROVE  Keeps(mSortTimers', EntriesOf(mTimers', calling'))
<1>0. calling # 0 /\ calling' = 0 /\ 0 \notin DOMAIN mTimers /\ mNow \in Nat
  BY EntryFacts DEF Return, SortInv, Queue!TypeOK
<1>1. CASE Queue!Ends(ok)
  <2>1. /\ DOMAIN mTimers' = DOMAIN mTimers \ {calling} /\ mSortTimers' = mSortTimers
        /\ \A u \in DOMAIN mTimers' : mTimers'[u] = mTimers[u]
    BY <1>1 DEF Return, Restrict
  <2>2. EntriesOf(mTimers', calling') = EntriesOf(mTimers, calling)
    BY <1>0, <2>1 DEF EntriesOf
  <2>. QED  BY <2>1, <2>2 DEF SortInv
<1>2. CASE ~Queue!Ends(ok)
  <2>1. /\ calling \in DOMAIN mTimers /\ mTimers' = [mTimers EXCEPT ![calling] = Queue!NextTime(@)]
        /\ mSortTimers' = Inserted(mSortTimers, mTimers'[calling].next, calling)
    BY <1>2 DEF Return, Queue!Ends
  <2>2. /\ DOMAIN mTimers' = DOMAIN mTimers /\ mTimers'[calling] = Queue!NextTime(mTimers[calling])
        /\ \A u \in DOMAIN mTimers : u # calling => mTimers'[u] = mTimers[u]
    BY <2>1
  <2>3. mTimers[calling] \in Queue!Timers
    BY <2>1 DEF SortInv, Queue!TypeOK
  <2>4. mTimers'[calling].next \in Nat /\ calling \in Nat
    BY <1>0, <2>1, <2>2, <2>3, TreeNodes, EntryFacts
  <2>5. <<mTimers'[calling].next, calling>> \notin EntriesOf(mTimers, calling)
    BY DEF EntriesOf
  <2>6. EntriesOf(mTimers', calling')
          = EntriesOf(mTimers, calling) \cup {<<mTimers'[calling].next, calling>>}
    <3>1. DOMAIN mTimers' \ {calling'} = (DOMAIN mTimers \ {calling}) \cup {calling}
      BY <1>0, <2>1, <2>2
    <3>. QED  BY <2>2, <3>1 DEF EntriesOf
  <2>7. Keeps(mSortTimers', EntriesOf(mTimers, calling) \cup {<<mTimers'[calling].next, calling>>})
    BY <2>1, <2>4, <2>5, KeepsInserted DEF SortInv
  <2>. QED  BY <2>6, <2>7
<1>. QED  BY <1>1, <1>2

LEMMA NextSortInv ==
  ASSUME TimerConstants, SortInv, [Next]_vars, pc = "idle", pc' = "idle"
  PROVE  SortInv' /\ [AnyQueue!Next]_(AnyQueue!vars)
<1>. SUFFICES SortInv'
  BY TreeStepIsQueueStep, TreeIsQueue DEF SortInv, Queue!TypeOK
<1>0. Queue!TypeOK'
  <2>1. updating \in BOOLEAN
    BY DEF SortInv, Queue!TypeOK
  <2>2. updating' \in BOOLEAN
    BY <2>1 DEF Next, Run, vars, Add, RemoveTimer, Clear, Reset, Update, Fire, Return, Done
  <2>3. [AnyQueue!Next]_(AnyQueue!vars)
    BY <2>1, <2>2, TreeStepIsQueueStep, TreeIsQueue
  <2>. QED  BY <2>1, <2>2, <2>3, TreeIsQueue, QueueTypeStep DEF SortInv
<1>1. CASE Clear \/ Reset
  <2>1. mTimers' = <<>> /\ mSortTimers' = <<>>
    BY <1>1 DEF Clear, Reset, Unlisted
  <2>2. EntriesOf(mTimers', calling') = {}
    BY <2>1 DEF EntriesOf
  <2>. QED  BY <1>0, <2>1, <2>2, KeepsNothing DEF SortInv
<1>2. ASSUME UNCHANGED <<mSortTimers, mTimers, calling>>
      PROVE  SortInv'
  BY <1>0, <1>2 DEF SortInv, EntriesOf
<1>3. ASSUME NEW d \in Deltas, Update(d)
      PROVE  SortInv'
  BY <1>2, <1>3 DEF Update
<1>4. CASE Done
  BY <1>2, <1>4 DEF Done
<1>5. CASE UNCHANGED vars
  BY <1>2, <1>5 DEF vars
<1>6. CASE Fire
  BY <1>0, <1>6, FireKeeps DEF SortInv
<1>7. ASSUME NEW ok \in BOOLEAN, Return(ok)
      PROVE  SortInv'
  BY <1>0, <1>7, ReturnKeeps DEF SortInv
<1>8. ASSUME NEW s \in Starts, NEW i \in Intervals, NEW n \in Times, NEW b \in BOOLEAN, Add(s, i, n, b)
      PROVE  SortInv'
  BY <1>0, <1>8, AddKeeps DEF SortInv
<1>9. ASSUME NEW t \in 1..MaxTimers, RemoveTimer(t)
      PROVE  SortInv'
  BY <1>0, <1>9, RemoveKeeps DEF SortInv
<1>. QED
  BY <1>1, <1>3, <1>4, <1>5, <1>6, <1>7, <1>8, <1>9 DEF Next, Run

LEMMA InitSortInv == ASSUME TimerConstants, Init PROVE SortInv
<1>1. mTimers = <<>> /\ mSortTimers = <<>> /\ DOMAIN mTimers = {}
  BY DEF Init, Queue!Init
<1>2. Queue!TypeOK
  <2>1. mNow \in 0..MaxNow /\ lastID \in 0..MaxTimers /\ calling \in 0..lastID /\ calling = 0
    BY DEF Init, Queue!Init, TimerConstants
  <2>2. cleared \in BOOLEAN /\ updating \in BOOLEAN
    BY DEF Init, Queue!Init
  <2>. QED  BY <1>1, <2>1, <2>2 DEF Queue!TypeOK
<1>3. EntriesOf(mTimers, calling) = {}
  BY <1>1 DEF EntriesOf
<1>. QED  BY <1>1, <1>2, <1>3, KeepsNothing DEF SortInv

\* The timer that is called is one whose time no other is before.
LEMMA FiresFirst ==
  ASSUME SortInv, Fire, NEW t \in DOMAIN mTimers
  PROVE  mTimers[calling'].next =< mTimers[t].next
<1>1. mSortTimers # <<>> /\ calling = 0 /\ calling' = Head(mSortTimers)[2]
  BY DEF Fire, FirstDue
<1>2. t # calling
  BY <1>1, EntryFacts
<1>. QED  BY <1>1, <1>2, FirstIsLeast

-----------------------------------------------------------------------------
(* Division.                                                               *)

LEMMA DivFacts ==
  ASSUME NEW a \in Nat, NEW b \in Nat \ {0}
  PROVE  a \div b \in Nat /\ b * (a \div b) =< a /\ a < b * (a \div b) + b
OBVIOUS

LEMMA DivIs ==
  ASSUME NEW a \in Nat, NEW b \in Nat \ {0}, NEW q \in Nat, b * q =< a, a < b * q + b
  PROVE  a \div b = q
<1>1. /\ a \div b \in Nat /\ b * (a \div b) =< a /\ a < b * (a \div b) + b
  BY DivFacts
<1>. DEFINE d == a \div b
<1>. HIDE DEF d
<1>2. d \in Nat /\ b * d =< a /\ a < b * d + b
  BY <1>1 DEF d
<1>3. ~(d < q)
  <2>1. d < q => b * (d + 1) =< b * q
    BY <1>2
  <2>2. b * (d + 1) = b * d + b
    BY <1>2
  <2>. QED  BY <1>2, <2>1, <2>2
<1>4. ~(q < d)
  <2>1. q < d => b * (q + 1) =< b * d
    BY <1>2
  <2>2. b * (q + 1) = b * q + b
    OBVIOUS
  <2>. QED  BY <1>2, <2>1, <2>2
<1>. QED  BY <1>2, <1>3, <1>4 DEF d

\* A multiple is not behind a number exactly if its factor is not.
LEMMA DivOrder ==
  ASSUME NEW a \in Nat, NEW b \in Nat \ {0}, NEW q \in Nat
  PROVE  b * q =< a <=> q =< a \div b
<1>. DEFINE d == a \div b
<1>1. d \in Nat /\ b * d =< a /\ a < b * d + b
  BY DivFacts
<1>. HIDE DEF d
<1>2. q =< d => b * q =< b * d
  BY <1>1
<1>3. d < q => b * (d + 1) =< b * q
  BY <1>1
<1>4. b * (d + 1) = b * d + b /\ b * q \in Nat /\ b * d \in Nat
  BY <1>1
<1>. QED  BY <1>1, <1>2, <1>3, <1>4 DEF d

LEMMA DivMonotone ==
  ASSUME NEW a \in Nat, NEW c \in Nat, a =< c, NEW b \in Nat \ {0}
  PROVE  a \div b =< c \div b
<1>. DEFINE d == a \div b
<1>1. d \in Nat /\ b * d =< a
  BY DivFacts
<1>. HIDE DEF d
<1>2. b * d \in Nat
  BY <1>1
<1>3. b * d =< c
  BY <1>1, <1>2
<1>. QED  BY <1>1, <1>3, DivOrder DEF d

\* Dividing twice.
LEMMA DivTwice ==
  ASSUME NEW a \in Nat, NEW b \in Nat \ {0}, NEW c \in Nat \ {0}
  PROVE  (a \div b) \div c = a \div (c * b)
<1>. DEFINE d == a \div b
            e == d \div c
<1>1. d \in Nat /\ b * d =< a /\ a < b * d + b
  BY DivFacts
<1>. HIDE DEF d
<1>2. e \in Nat /\ c * e =< d /\ d < c * e + c
  BY <1>1, DivFacts
<1>. HIDE DEF e
<1>3. c * b \in Nat \ {0}
  OBVIOUS
<1>4. (c * b) * e = b * (c * e) /\ (c * b) * e + c * b = b * (c * e + c)
  BY <1>2
<1>5. c * e \in Nat /\ c * e + c \in Nat
  BY <1>2
<1>6. b * (c * e) =< b * d
  BY <1>1, <1>2, <1>5
<1>7. b * (d + 1) =< b * (c * e + c)
  BY <1>1, <1>2, <1>5
<1>8. b * (d + 1) = b * d + b
  BY <1>1
<1>9. b * (c * e) \in Nat /\ b * d \in Nat /\ b * (c * e + c) \in Nat
  BY <1>1, <1>5
<1>10. (c * b) * e =< a /\ a < (c * b) * e + c * b
  BY <1>1, <1>4, <1>6, <1>7, <1>8, <1>9
<1>. QED  BY <1>2, <1>3, <1>10, DivIs DEF d, e

LEMMA IntervalFacts ==
  ASSUME StepCount \in Nat \ {0}
  PROVE  /\ W!StepInterval(0) = 1
         /\ \A i \in 0..3 : W!StepInterval(i + 1) = StepCount * W!StepInterval(i)
         /\ \A i \in 0..4 : W!StepInterval(i) \in Nat \ {0}
<1>1. /\ W!StepInterval(0) = 1 /\ W!StepInterval(1) = StepCount
      /\ W!StepInterval(2) = StepCount * StepCount
      /\ W!StepInterval(3) = StepCount * StepCount * StepCount
      /\ W!StepInterval(4) = StepCount * StepCount * StepCount * StepCount
  BY DEF W!StepInterval, W!StepIntervals
<1>2. \A a, b \in Nat \ {0} : a * b \in Nat \ {0}
  OBVIOUS
<1>3. \A i \in 0..4 : W!StepInterval(i) \in Nat \ {0}
  <2>1. StepCount * StepCount \in Nat \ {0}
    BY <1>2
  <2>2. StepCount * StepCount * StepCount \in Nat \ {0}
    BY <1>2, <2>1
  <2>3. StepCount * StepCount * StepCount * StepCount \in Nat \ {0}
    BY <1>2, <2>2
  <2>4. \A i \in 0..4 : i = 0 \/ i = 1 \/ i = 2 \/ i = 3 \/ i = 4
    OBVIOUS
  <2>. QED  BY <1>1, <2>1, <2>2, <2>3, <2>4
<1>4. \A i \in 0..3 : W!StepInterval(i + 1) = StepCount * W!StepInterval(i)
  <2>1. /\ W!StepInterval(0 + 1) = StepCount * W!StepInterval(0)
        /\ W!StepInterval(1 + 1) = StepCount * W!StepInterval(1)
        /\ W!StepInterval(2 + 1) = StepCount * W!StepInterval(2)
        /\ W!StepInterval(3 + 1) = StepCount * W!StepInterval(3)
    BY <1>1
  <2>2. \A i \in 0..3 : i = 0 \/ i = 1 \/ i = 2 \/ i = 3
    OBVIOUS
  <2>. QED  BY <2>1, <2>2
<1>. QED  BY <1>1, <1>3, <1>4

-----------------------------------------------------------------------------
(* Where a timer may lie.  c names what that depends on: the clocks of the *)
(* wheels (at), the turns of the last wheel after which the overflow list  *)
(* was looked at (over), the slot of wheel 0 that is being called (old, -1 *)
(* for none), how late its timers may be (late), and whether none is later *)
(* than the slot (prompt).                                                 *)

Ahead(w, i, x) == x \div W!StepInterval(i) - w[i] \div W!StepInterval(i)

FineIn0(w, k, x) ==
  \/ w[0] =< x /\ x - w[0] < StepCount /\ k = x % StepCount
  \/ x =< w[0] /\ k = w[0] % StepCount

FineIn(w, i, k, x) ==
  0 < Ahead(w, i, x) /\ Ahead(w, i, x) < StepCount /\ k = (x \div W!StepInterval(i)) % StepCount

FineOver(over, x) == over < x \div W!StepInterval(4)

Fine(c, p, x) ==
  /\ p[1] = 0 => FineIn0(c.at, p[2], x)
  /\ p[1] \in 1..3 => FineIn(c.at, p[1], p[2], x)
  /\ p[1] = 4 => FineOver(c.over, x)

\* Clocks of wheels, each not ahead of the one below.
Descend(w) == w \in [0..3 -> Nat] /\ w[1] =< w[0] /\ w[2] =< w[1] /\ w[3] =< w[2]

LEMMA PlaceFacts ==
  /\ W!Places = ((0..3) \X (0..(StepCount - 1))) \cup {<<4, 0>>}
  /\ \A p \in W!Places : p[1] \in 0..4 /\ p = <<p[1], p[2]>> /\ (p[1] = 4 => p = W!Over)
BY DEF W!Places, W!Wheels, W!Slots, W!Over

\* add_timer_node puts a timer where it may lie.
LEMMA HomeIsFine ==
  ASSUME StepCount \in Nat \ {0}, NEW w, Descend(w), NEW x \in Nat, NEW c, c.at = w,
         c.over =< w[3] \div W!StepInterval(4), c.over \in Nat
  PROVE  W!Home(w, x) \in W!Places /\ Fine(c, W!Home(w, x), x)
<1>. DEFINE fit == {i \in 0..3 : W!Fits(w, i, x)}
            I(i) == W!StepInterval(i)
            h == W!Home(w, x)
<1>1. \A i \in 0..3 : /\ w[i] \in Nat /\ I(i) \in Nat \ {0} /\ I(i + 1) \in Nat \ {0}
                     /\ x \div I(i) \in Nat /\ w[i] \div I(i) \in Nat
                     /\ I(i + 1) = StepCount * I(i)
  <2>1. TAKE i \in 0..3
  <2>2. i \in 0..4 /\ i + 1 \in 0..4
    OBVIOUS
  <2>3. I(i) \in Nat \ {0} /\ I(i + 1) \in Nat \ {0} /\ I(i + 1) = StepCount * I(i) /\ w[i] \in Nat
    BY <2>2, IntervalFacts DEF Descend
  <2>. HIDE DEF I
  <2>4. x \div I(i) \in Nat /\ w[i] \div I(i) \in Nat
    BY <2>3, DivFacts
  <2>. QED  BY <2>3, <2>4
<1>2. \A i \in 0..3 : I(i) # 0 /\ I(i) > 0
  BY <1>1
\* A timer a wheel does not take lies ahead of what the next one is at.
<1>3. ASSUME NEW i \in 0..3, i \notin fit, NEW v \in Nat, v =< w[i]
      PROVE  v \div I(i + 1) < x \div I(i + 1)
  <2>. DEFINE a == x \div I(i)
              b == w[i] \div I(i)
  <2>1. a \in Nat /\ b \in Nat /\ a - b >= StepCount
    BY <1>1, <1>3 DEF W!Fits
  <2>2. x \div I(i + 1) = a \div StepCount /\ w[i] \div I(i + 1) = b \div StepCount
    <3>1. I(i) \in Nat \ {0} /\ w[i] \in Nat /\ I(i + 1) = StepCount * I(i)
      BY <1>1
    <3>. HIDE DEF I
    <3>2. (x \div I(i)) \div StepCount = x \div (StepCount * I(i))
      BY <3>1, DivTwice
    <3>3. (w[i] \div I(i)) \div StepCount = w[i] \div (StepCount * I(i))
      BY <3>1, DivTwice
    <3>. QED  BY <3>1, <3>2, <3>3, Zenon
  <2>. HIDE DEF a, b
  <2>. DEFINE q == b \div StepCount
  <2>3. q \in Nat /\ StepCount * q =< b
    BY <2>1, DivFacts
  <2>. HIDE DEF q
  <2>4. StepCount * (q + 1) = StepCount * q + StepCount /\ StepCount * q \in Nat
    BY <2>3
  <2>5. StepCount * (q + 1) =< a
    BY <2>1, <2>3, <2>4
  <2>6. q + 1 =< a \div StepCount
    BY <2>1, <2>3, <2>5, DivOrder
  <2>7. v \div I(i + 1) =< w[i] \div I(i + 1) /\ v \div I(i + 1) \in Nat
    BY <1>1, <1>3, DivMonotone, DivFacts
  <2>8. a \div StepCount \in Nat
    BY <2>1, DivFacts
  <2>. QED  BY <2>2, <2>3, <2>6, <2>7, <2>8 DEF q
<1>4. CASE fit = {}
  <2>1. h = <<4, 0>>
    BY <1>4 DEF W!Home, W!Wheels, W!Over
  <2>2. w[3] \div I(4) < x \div I(4)
    <3>1. 3 \in 0..3 /\ 3 \notin fit /\ w[3] =< w[3] /\ w[3] \in Nat /\ 3 + 1 = 4
      BY <1>1, <1>4
    <3>. QED  BY <1>3, <3>1
  <2>3. FineOver(c.over, x)
    <3>1. w[3] \div I(4) \in Nat /\ x \div I(4) \in Nat
      <4>1. I(4) \in Nat \ {0} /\ w[3] \in Nat
        BY IntervalFacts DEF Descend
      <4>. HIDE DEF I
      <4>. QED  BY <4>1, DivFacts
    <3>. QED  BY <2>2, <3>1 DEF FineOver
  <2>. QED  BY <2>1, <2>3, PlaceFacts DEF Fine
<1>5. CASE fit # {}
  <2>. DEFINE i == W!Min(fit)
  <2>1. i \in fit /\ \A j \in fit : i =< j
    <3>1. fit \in SUBSET Nat
      OBVIOUS
    <3>. QED  BY <1>5, <3>1, MinIsLeast DEF Min, W!Min
  <2>2. h = <<i, W!Slot(w, i, x)>>
    BY <1>5 DEF W!Home, W!Wheels
  <2>. HIDE DEF i, h
  <2>3. i \in 0..3 /\ W!Fits(w, i, x) /\ \A j \in 0..3 : j < i => j \notin fit
    BY <2>1
  <2>4. x \div I(i) \in Nat /\ w[i] \div I(i) \in Nat /\ w[i] \in Nat
    BY <1>1, <2>3
  <2>5. W!Slot(w, i, x) \in 0..(StepCount - 1)
    <3>1. \A n \in Nat : n % StepCount \in 0..(StepCount - 1)
      OBVIOUS
    <3>. QED  BY <2>4, <3>1 DEF W!Slot
  <2>6. h \in W!Places
    BY <2>2, <2>3, <2>5, PlaceFacts
  <2>7. CASE i = 0
    <3>1. I(0) = 1 /\ x \div 1 = x /\ w[0] \div 1 = w[0] /\ w[0] \in Nat
      BY <1>1, IntervalFacts
    <3>2. x =< w[0] \/ x - w[0] < StepCount
      BY <2>3, <2>7, <3>1 DEF W!Fits
    <3>3. W!Slot(w, 0, x) = (IF x > w[0] THEN x ELSE w[0]) % StepCount
      BY <3>1 DEF W!Slot
    <3>4. FineIn0(w, W!Slot(w, 0, x), x)
      BY <3>1, <3>2, <3>3 DEF FineIn0
    <3>5. h[1] = 0 /\ h[2] = W!Slot(w, 0, x)
      BY <2>2, <2>7
    <3>. QED  BY <2>6, <3>4, <3>5 DEF Fine, h
  <2>8. CASE i # 0
    <3>1. i \in 1..3 /\ i - 1 \in 0..3 /\ (i - 1) + 1 = i
      BY <2>3, <2>8
    <3>2. w[i] =< w[i - 1] /\ w[i] \in Nat
      <4>1. i = 1 \/ i = 2 \/ i = 3
        BY <3>1
      <4>. QED  BY <4>1, <2>4 DEF Descend
    <3>3. i - 1 \notin fit
      BY <2>3, <3>1
    <3>4. w[i] \div I(i) < x \div I(i)
      BY <1>3, <3>1, <3>2, <3>3
    <3>5. x > w[i]
      <4>1. x =< w[i] => x \div I(i) =< w[i] \div I(i)
        BY <1>1, <2>3, DivMonotone
      <4>. QED  BY <2>4, <3>4, <4>1
    <3>6. x \div I(i) - w[i] \div I(i) < StepCount
      BY <2>3, <2>4, <3>5 DEF W!Fits
    <3>7. W!Slot(w, i, x) = (x \div I(i)) % StepCount
      BY <3>5 DEF W!Slot
    <3>8. FineIn(w, i, W!Slot(w, i, x), x)
      BY <2>4, <3>4, <3>6, <3>7 DEF FineIn, Ahead
    <3>9. h[1] = i /\ h[2] = W!Slot(w, i, x)
      BY <2>2
    <3>. QED  BY <2>6, <3>1, <3>8, <3>9 DEF Fine, h
  <2>. QED  BY <2>7, <2>8
<1>. QED  BY <1>4, <1>5

-----------------------------------------------------------------------------
(* The lists of the wheels.  ls holds each timer of D once, under the times *)
(* of the table M, each where c lets it lie.                               *)

Lies(c, p, x) ==
  /\ Fine(c, p, x) \/ (p = <<0, c.old>> /\ x < c.at[0])
  /\ c.prompt => x >= c.at[0] \/ (p = <<0, c.old>> /\ x = c.at[0] - 1)

\* In the slot that is being called what is due by its tick comes first.
InOrder(ls, M, c) ==
  \A p \in W!Places : p = <<0, c.old>> =>
    \A i, j \in 1..Len(ls[p]) :
      i < j /\ M[ls[p][j]].next < c.at[0] => M[ls[p][i]].next =< c.late

OnePlace(ls, D) ==
  /\ ls \in [W!Places -> Seq(Nat)]
  /\ \A p, q \in W!Places : \A i \in 1..Len(ls[p]), j \in 1..Len(ls[q]) :
       ls[p][i] = ls[q][j] => p = q /\ i = j
  /\ \A p \in W!Places : \A i \in 1..Len(ls[p]) : ls[p][i] \in D
  /\ \A t \in D : \E p \in W!Places : \E i \in 1..Len(ls[p]) : ls[p][i] = t

AllLie(ls, M, c) ==
  \A p \in W!Places : \A i \in 1..Len(ls[p]) : Lies(c, p, M[ls[p][i]].next)

Placed(ls, M, D, c) == OnePlace(ls, D) /\ AllLie(ls, M, c) /\ InOrder(ls, M, c)

ClocksOK(c) ==
  /\ Descend(c.at) /\ c.over \in Nat /\ c.over =< c.at[3] \div W!StepInterval(4)
  /\ c.late \in Int

LEMMA PlacedPut ==
  ASSUME StepCount \in Nat \ {0}, NEW ls, NEW M, NEW D, NEW c, Placed(ls, M, D, c), ClocksOK(c),
         NEW t \in Nat, t \notin D, NEW x \in Nat, M[t].next = x,
         c.prompt => x >= c.at[0],
         \/ x >= c.at[0]
         \/ W!Home(c.at, x) # <<0, c.old>>
         \/ \A p \in W!Places : p = <<0, c.old>> =>
              \A i \in 1..Len(ls[p]) : M[ls[p][i]].next =< c.late
  PROVE  Placed(W!Put(ls, c.at, t, x), M, D \cup {t}, c)
<1>. DEFINE h == W!Home(c.at, x)
            r == W!Put(ls, c.at, t, x)
            n == Len(ls[h])
<1>1. h \in W!Places /\ Fine(c, h, x)
  BY HomeIsFine DEF ClocksOK
<1>2. ls \in [W!Places -> Seq(Nat)]
  BY DEF Placed, OnePlace
<1>3. /\ r \in [W!Places -> Seq(Nat)] /\ r[h] = Append(ls[h], t)
      /\ \A p \in W!Places : p # h => r[p] = ls[p]
  BY <1>1, <1>2 DEF W!Put
<1>4. /\ n \in Nat /\ Len(r[h]) = n + 1 /\ r[h][n + 1] = t
      /\ \A i \in 1..n : r[h][i] = ls[h][i]
  BY <1>1, <1>2, <1>3, AppendProperties
<1>. HIDE DEF r, h, n
<1>5. \A p \in W!Places : \A i \in 1..Len(r[p]) :
        \/ i \in 1..Len(ls[p]) /\ r[p][i] = ls[p][i]
        \/ p = h /\ i = n + 1 /\ r[p][i] = t
  <2>1. TAKE p \in W!Places
  <2>2. TAKE i \in 1..Len(r[p])
  <2>3. CASE p = h
    <3>1. i \in 1..n + 1 /\ Len(ls[p]) = n
      BY <1>4, <2>3 DEF n
    <3>2. i \in 1..n \/ i = n + 1
      BY <1>4, <3>1
    <3>. QED  BY <1>4, <2>3, <3>1, <3>2
  <2>4. CASE p # h
    BY <1>3, <2>4
  <2>. QED  BY <2>3, <2>4
<1>6. \A p \in W!Places : \A i \in 1..Len(ls[p]) : i \in 1..Len(r[p]) /\ r[p][i] = ls[p][i]
  <2>1. 1..n \subseteq 1..Len(r[h])
    BY <1>4
  <2>. QED  BY <1>3, <1>4, <2>1 DEF n
<1>7. \A p \in W!Places : \A i \in 1..Len(ls[p]) : ls[p][i] \in D /\ ls[p][i] # t
  BY DEF Placed, OnePlace
<1>8. OnePlace(r, D \cup {t})
  <2>1. ASSUME NEW p \in W!Places, NEW q \in W!Places,
               NEW i \in 1..Len(r[p]), NEW j \in 1..Len(r[q]), r[p][i] = r[q][j]
        PROVE  p = q /\ i = j
    <3>1. CASE r[p][i] = t
      <4>1. p = h /\ i = n + 1
        BY <1>5, <1>7, <3>1
      <4>2. q = h /\ j = n + 1
        BY <1>5, <1>7, <2>1, <3>1
      <4>. QED  BY <4>1, <4>2
    <3>2. CASE r[p][i] # t
      <4>1. i \in 1..Len(ls[p]) /\ r[p][i] = ls[p][i]
        BY <1>5, <3>2
      <4>2. j \in 1..Len(ls[q]) /\ r[q][j] = ls[q][j]
        BY <1>5, <2>1, <3>2
      <4>3. ls[p][i] = ls[q][j]
        BY <2>1, <4>1, <4>2
      <4>4. \A a, b \in W!Places : \A k \in 1..Len(ls[a]), l \in 1..Len(ls[b]) :
              ls[a][k] = ls[b][l] => a = b /\ k = l
        BY DEF Placed, OnePlace
      <4>. QED  BY <4>1, <4>2, <4>3, <4>4
    <3>. QED  BY <3>1, <3>2
  <2>2. \A p \in W!Places : \A i \in 1..Len(r[p]) : r[p][i] \in D \cup {t}
    BY <1>5, <1>7
  <2>3. ASSUME NEW u \in D \cup {t}
        PROVE  \E p \in W!Places : \E i \in 1..Len(r[p]) : r[p][i] = u
    <3>1. CASE u = t
      <4>1. n + 1 \in 1..Len(r[h])
        BY <1>4
      <4>. QED  BY <1>1, <1>4, <3>1, <4>1
    <3>2. CASE u \in D
      <4>1. PICK p \in W!Places : \E i \in 1..Len(ls[p]) : ls[p][i] = u
        BY <3>2 DEF Placed, OnePlace
      <4>. QED  BY <1>6, <4>1
    <3>. QED  BY <3>1, <3>2
  <2>. QED  BY <1>3, <2>1, <2>2, <2>3 DEF OnePlace
<1>9. AllLie(r, M, c)
  <2>1. Lies(c, h, x)
    BY <1>1 DEF Lies
  <2>2. SUFFICES ASSUME NEW p \in W!Places, NEW i \in 1..Len(r[p])
                 PROVE  Lies(c, p, M[r[p][i]].next)
    BY DEF AllLie
  <2>3. CASE i \in 1..Len(ls[p]) /\ r[p][i] = ls[p][i]
    BY <2>3 DEF Placed, AllLie
  <2>4. CASE p = h /\ r[p][i] = t
    BY <2>1, <2>4
  <2>. QED  BY <1>5, <2>3, <2>4
<1>10. InOrder(r, M, c)
  <2>1. SUFFICES ASSUME NEW p \in W!Places, p = <<0, c.old>>,
                        NEW i \in 1..Len(r[p]), NEW j \in 1..Len(r[p]),
                        i < j, M[r[p][j]].next < c.at[0]
                 PROVE  M[r[p][i]].next =< c.late
    BY DEF InOrder
  <2>2. CASE j \in 1..Len(ls[p]) /\ r[p][j] = ls[p][j]
    <3>1. i \in 1..Len(ls[p]) /\ Len(ls[p]) \in Nat
      BY <1>2, <2>1, <2>2
    <3>2. r[p][i] = ls[p][i]
      BY <1>6, <3>1
    <3>. QED  BY <2>1, <2>2, <3>1, <3>2 DEF Placed, InOrder
  <2>3. CASE p = h /\ j = n + 1 /\ r[p][j] = t
    <3>1. x < c.at[0] /\ c.at[0] \in Nat
      BY <2>1, <2>3 DEF ClocksOK, Descend
    <3>2. \A k \in 1..Len(ls[p]) : M[ls[p][k]].next =< c.late
      BY <2>1, <2>3, <3>1 DEF h
    <3>3. i \in 1..n
      BY <1>4, <2>1, <2>3
    <3>4. r[p][i] = ls[p][i] /\ i \in 1..Len(ls[p])
      BY <1>4, <2>3, <3>3 DEF n
    <3>. QED  BY <3>2, <3>4
  <2>. QED  BY <1>5, <2>2, <2>3
<1>. QED  BY <1>8, <1>9, <1>10 DEF Placed, r

\* r is m without t: f says where its elements stood.
Rest(r, m, t, f) ==
  /\ f \in [1..Len(r) -> 1..Len(m)]
  /\ \A i \in 1..Len(r) : r[i] = m[f[i]]
  /\ \A i, j \in 1..Len(r) : i < j => f[i] < f[j]
  /\ \A i \in 1..Len(m) : (\E k \in 1..Len(r) : f[k] = i) \/ m[i] = t
  /\ (\A i, j \in 1..Len(m) : m[i] = m[j] => i = j) => \A i \in 1..Len(r) : r[i] # t

\* leave() takes a timer out of the list it stands in, and the others stay in order.
LEMMA LeftInOrder ==
  ASSUME NEW m \in Seq(Nat), NEW t
  PROVE  W!RemoveFirst(m, t) \in Seq(Nat) /\ \E f : Rest(W!RemoveFirst(m, t), m, t, f)
<1>. DEFINE I == {i \in 1..Len(m) : m[i] = t}
            r == W!RemoveFirst(m, t)
<1>0. Len(m) \in Nat
  OBVIOUS
<1>1. CASE I = {}
  <2>1. r = m
    BY <1>1 DEF W!RemoveFirst
  <2>. DEFINE f == [i \in 1..Len(m) |-> i]
  <2>2. f \in [1..Len(r) -> 1..Len(m)] /\ \A i \in 1..Len(m) : f[i] = i
    BY <2>1
  <2>3. \A i \in 1..Len(m) : m[i] # t
    BY <1>1
  <2>. HIDE DEF f, r
  <2>4. Rest(r, m, t, f)
    BY <2>1, <2>2, <2>3 DEF Rest
  <2>. QED  BY <2>1, <2>2, <2>4 DEF r
<1>2. CASE I # {}
  <2>1. \E i \in 1..Len(m) : m[i] = t
    BY <1>2
  <2>2. I \in SUBSET Nat
    BY <1>0
  <2>3. Min(I) \in I /\ \A i \in I : Min(I) =< i
    BY <1>2, <2>2, MinIsLeast
  <2>4. r = RemoveAt(m, Min(I))
    BY <2>1 DEF W!RemoveFirst, W!SelectInSeq, W!RemoveAt, RemoveAt, W!Min, Min
  <2>. DEFINE k == Min(I)
  <2>5. k \in 1..Len(m) /\ m[k] = t
    BY <2>3
  <2>. HIDE DEF k
  <2>6. /\ r \in Seq(Nat) /\ Len(r) = Len(m) - 1
        /\ \A i \in 1..Len(m) - 1 : r[i] = IF i < k THEN m[i] ELSE m[i + 1]
    BY <2>4, <2>5, RemovedAt DEF k
  <2>. DEFINE f == [i \in 1..Len(m) - 1 |-> IF i < k THEN i ELSE i + 1]
  <2>7. /\ f \in [1..Len(r) -> 1..Len(m)]
        /\ \A i \in 1..Len(m) - 1 : (i < k => f[i] = i) /\ (~(i < k) => f[i] = i + 1)
    BY <1>0, <2>5, <2>6
  <2>. HIDE DEF f, r
  <2>12. /\ \A i \in 1..Len(r) : i \in 1..Len(m) - 1 /\ i \in Int
         /\ k \in Int
    BY <1>0, <2>5, <2>6
  <2>8. ASSUME NEW i \in 1..Len(r)
        PROVE  r[i] = m[f[i]] /\ f[i] \in 1..Len(m) /\ f[i] # k
    <3>1. CASE i < k
      <4>1. i \in 1..Len(m) - 1 /\ r[i] = m[i] /\ f[i] = i
        BY <2>6, <2>7, <2>12, <3>1
      <4>2. f[i] \in 1..Len(m) /\ i # k
        BY <2>7, <2>12, <3>1
      <4>. QED  BY <4>1, <4>2
    <3>2. CASE ~(i < k)
      <4>1. f[i] = i + 1 /\ i + 1 \in 1..Len(m) /\ i + 1 # k
        BY <1>0, <2>7, <2>12, <3>2
      <4>2. r[i] = m[i + 1]
        BY <2>6, <2>12, <3>2
      <4>. QED  BY <4>1, <4>2
    <3>. QED  BY <3>1, <3>2
  <2>9. ASSUME NEW i \in 1..Len(r), NEW j \in 1..Len(r), i < j
        PROVE  f[i] < f[j]
    <3>1. i \in Int /\ j \in Int /\ k \in Int
      BY <2>12
    <3>2. (f[i] = i /\ i < k) \/ (f[i] = i + 1 /\ ~(i < k))
      BY <2>7, <2>12
    <3>3. (f[j] = j /\ j < k) \/ (f[j] = j + 1 /\ ~(j < k))
      BY <2>7, <2>12
    <3>. QED  BY <2>9, <3>1, <3>2, <3>3
  <2>10. ASSUME NEW i \in 1..Len(m), m[i] # t PROVE \E l \in 1..Len(r) : f[l] = i
    <3>1. CASE i < k
      <4>1. i \in 1..Len(m) - 1
        BY <1>0, <2>5, <3>1
      <4>. QED  BY <2>6, <2>7, <3>1, <4>1
    <3>2. CASE i > k
      <4>1. i - 1 \in 1..Len(m) - 1 /\ ~(i - 1 < k) /\ (i - 1) + 1 = i
        BY <1>0, <2>5, <3>2
      <4>. QED  BY <2>6, <2>7, <4>1
    <3>3. i # k
      BY <2>5, <2>10
    <3>. QED  BY <2>5, <3>1, <3>2, <3>3
  <2>11. Rest(r, m, t, f)
    <3>1. ASSUME \A i, j \in 1..Len(m) : m[i] = m[j] => i = j, NEW i \in 1..Len(r)
          PROVE  r[i] # t
      BY <2>5, <2>8, <3>1
    <3>. QED  BY <2>7, <2>8, <2>9, <2>10, <3>1 DEF Rest
  <2>. QED  BY <2>6, <2>11 DEF r
<1>. QED  BY <1>1, <1>2

LEMMA PlacedLeft ==
  ASSUME NEW ls, NEW M, NEW D, NEW c, Placed(ls, M, D, c), NEW t
  PROVE  Placed(W!Leave(ls, t), M, D \ {t}, c)
<1>. DEFINE r == W!Leave(ls, t)
<1>1. /\ ls \in [W!Places -> Seq(Nat)]
      /\ \A p, q \in W!Places : \A i \in 1..Len(ls[p]), j \in 1..Len(ls[q]) :
           ls[p][i] = ls[q][j] => p = q /\ i = j
      /\ \A p \in W!Places : \A i \in 1..Len(ls[p]) : ls[p][i] \in D
      /\ \A u \in D : \E p \in W!Places : \E i \in 1..Len(ls[p]) : ls[p][i] = u
  BY DEF Placed, OnePlace
<1>2. \A p \in W!Places : r[p] = W!RemoveFirst(ls[p], t)
  BY DEF W!Leave
<1>3. ASSUME NEW p \in W!Places
      PROVE  r[p] \in Seq(Nat) /\ \E f : Rest(r[p], ls[p], t, f) /\ \A i \in 1..Len(r[p]) : r[p][i] # t
  <2>1. ls[p] \in Seq(Nat) /\ \A i, j \in 1..Len(ls[p]) : ls[p][i] = ls[p][j] => i = j
    BY <1>1
  <2>. HIDE DEF r
  <2>2. r[p] \in Seq(Nat) /\ \E f : Rest(r[p], ls[p], t, f)
    BY <1>2, <2>1, LeftInOrder
  <2>. QED  BY <2>1, <2>2 DEF Rest
<1>4. r \in [W!Places -> Seq(Nat)]
  <2>1. r = [p \in W!Places |-> r[p]]
    BY DEF W!Leave
  <2>. HIDE DEF r
  <2>. QED  BY <1>3, <2>1
<1>. HIDE DEF r
<1>5. ASSUME NEW p \in W!Places, NEW q \in W!Places,
             NEW i \in 1..Len(r[p]), NEW j \in 1..Len(r[q]), r[p][i] = r[q][j]
      PROVE  p = q /\ i = j
  <2>1. PICK f : Rest(r[p], ls[p], t, f)
    BY <1>3
  <2>2. PICK g : Rest(r[q], ls[q], t, g)
    BY <1>3
  <2>3. f[i] \in 1..Len(ls[p]) /\ g[j] \in 1..Len(ls[q]) /\ ls[p][f[i]] = ls[q][g[j]]
    BY <1>5, <2>1, <2>2 DEF Rest
  <2>4. p = q
    <3>. QED  BY <1>1, <2>3
  <2>5. j \in 1..Len(r[p]) /\ r[p][i] = r[p][j]
    BY <1>5, <2>4
  <2>6. f[i] \in 1..Len(ls[p]) /\ f[j] \in 1..Len(ls[p]) /\ ls[p][f[i]] = ls[p][f[j]]
    BY <2>1, <2>5 DEF Rest
  <2>7. f[i] = f[j]
    BY <1>1, <2>6
  <2>8. (i < j => f[i] < f[j]) /\ (j < i => f[j] < f[i])
    BY <2>1, <2>5 DEF Rest
  <2>9. i \in Int /\ j \in Int /\ f[i] \in Int
    BY <2>5, <2>6
  <2>. QED  BY <2>4, <2>7, <2>8, <2>9
<1>6. \A p \in W!Places : \A i \in 1..Len(r[p]) :
        r[p][i] \in D \ {t} /\ \E k \in 1..Len(ls[p]) : r[p][i] = ls[p][k]
  <2>1. TAKE p \in W!Places
  <2>2. PICK f : Rest(r[p], ls[p], t, f)
    BY <1>3
  <2>3. \A i \in 1..Len(r[p]) : f[i] \in 1..Len(ls[p]) /\ r[p][i] = ls[p][f[i]] /\ r[p][i] # t
    BY <1>3, <2>2 DEF Rest
  <2>. QED  BY <1>1, <2>3
<1>7. ASSUME NEW u \in D \ {t}
      PROVE  \E p \in W!Places : \E i \in 1..Len(r[p]) : r[p][i] = u
  <2>0. PICK p \in W!Places : \E i \in 1..Len(ls[p]) : ls[p][i] = u
    BY <1>1
  <2>1. PICK i \in 1..Len(ls[p]) : ls[p][i] = u
    BY <2>0
  <2>2. PICK f : Rest(r[p], ls[p], t, f)
    BY <1>3
  <2>. QED  BY <2>1, <2>2 DEF Rest
<1>8. OnePlace(r, D \ {t})
  BY <1>4, <1>5, <1>6, <1>7 DEF OnePlace
<1>9. AllLie(r, M, c)
  BY <1>6 DEF AllLie, Placed
<1>10. InOrder(r, M, c)
  <2>1. SUFFICES ASSUME NEW p \in W!Places, p = <<0, c.old>>,
                        NEW i \in 1..Len(r[p]), NEW j \in 1..Len(r[p]),
                        i < j, M[r[p][j]].next < c.at[0]
                 PROVE  M[r[p][i]].next =< c.late
    BY DEF InOrder
  <2>2. PICK f : Rest(r[p], ls[p], t, f)
    BY <1>3
  <2>3. /\ f[i] \in 1..Len(ls[p]) /\ f[j] \in 1..Len(ls[p]) /\ f[i] < f[j]
        /\ r[p][i] = ls[p][f[i]] /\ r[p][j] = ls[p][f[j]]
    BY <2>1, <2>2 DEF Rest
  <2>. QED  BY <2>1, <2>3 DEF InOrder, Placed
<1>. QED  BY <1>8, <1>9, <1>10 DEF Placed, r

\* Where the timers lie depends on their times only.
LEMMA PlacedSame ==
  ASSUME NEW ls, NEW M, NEW D, NEW c, Placed(ls, M, D, c),
         NEW L, \A t \in D : L[t].next = M[t].next
  PROVE  Placed(ls, L, D, c)
<1>1. \A p \in W!Places : \A i \in 1..Len(ls[p]) : L[ls[p][i]].next = M[ls[p][i]].next
  BY DEF Placed, OnePlace
<1>2. AllLie(ls, L, c)
  BY <1>1 DEF AllLie, Placed
<1>3. InOrder(ls, L, c)
  BY <1>1 DEF InOrder, Placed
<1>. QED  BY <1>2, <1>3 DEF Placed

-----------------------------------------------------------------------------
(* Handing a slot down.                                                    *)

\* The lists while the timers of place p are put elsewhere, one by one.
Downs(ls, w, p, f, n) ==
  f = [k \in 0..n |-> IF k = 0 THEN [ls EXCEPT ![p] = <<>>]
                      ELSE W!Put(f[k - 1], w, ls[p][k], mTimers[ls[p][k]].next)]

LEMMA DownsExist ==
  ASSUME NEW ls, NEW w, NEW p, NEW n \in Nat
  PROVE  \E f : Downs(ls, w, p, f, n)
<1>. DEFINE Down(f, k) == IF k = 0 THEN [ls EXCEPT ![p] = <<>>]
                          ELSE W!Put(f[k - 1], w, ls[p][k], mTimers[ls[p][k]].next)
            without == {k \in Nat : ~ \E f : Downs(ls, w, p, f, k)}
<1>0. \A f, k : Downs(ls, w, p, f, k) <=> f = [i \in 0..k |-> Down(f, i)]
  BY DEF Downs
<1>1. ASSUME NEW k \in without, \A j \in without : k =< j
      PROVE  FALSE
  <2>0. \A f : ~Downs(ls, w, p, f, k)
    BY <1>1
  <2>1. CASE k = 0
    <3>. DEFINE f == [i \in 0..0 |-> Down(<<>>, 0)]
    <3>1. f = [i \in 0..0 |-> Down(f, i)]
      OBVIOUS
    <3>. HIDE DEF f, Down
    <3>. QED  BY <1>0, <2>0, <2>1, <3>1
  <2>2. CASE k # 0
    <3>1. k \in Nat /\ k - 1 \in Nat /\ k - 1 \notin without
      BY <1>1, <2>2
    <3>2. PICK f : f = [i \in 0..k - 1 |-> Down(f, i)]
      <4>1. PICK f : Downs(ls, w, p, f, k - 1)
        BY <3>1
      <4>. HIDE DEF Down
      <4>. QED  BY <1>0, <4>1
    <3>. DEFINE g == [i \in 0..k |-> IF i < k THEN f[i] ELSE Down(f, k)]
    <3>3. \A i \in 0..k : i < k => g[i] = f[i]
      OBVIOUS
    <3>4. ASSUME NEW i \in 0..k PROVE g[i] = Down(g, i)
      <4>1. Down(g, i) = Down(f, i)
        <5>1. i # 0 => i - 1 \in 0..k /\ i - 1 < k
          BY <3>1
        <5>2. i # 0 => g[i - 1] = f[i - 1]
          BY <3>3, <5>1
        <5>. HIDE DEF g
        <5>. QED  BY <5>2
      <4>2. CASE i < k
        <5>1. i \in 0..k - 1
          BY <3>1, <4>2
        <5>2. f[i] = Down(f, i)
          <6>. HIDE DEF Down
          <6>. QED  BY <3>2, <5>1
        <5>. QED  BY <3>3, <4>1, <4>2, <5>2, Zenon
      <4>3. CASE ~(i < k)
        <5>1. i = k
          BY <3>1, <4>3
        <5>2. g[i] = Down(f, k)
          <6>. HIDE DEF Down
          <6>. QED  BY <4>3, Zenon
        <5>. HIDE DEF g, Down
        <5>. QED  BY <4>1, <5>1, <5>2
      <4>. QED  BY <4>2, <4>3
    <3>5. g = [i \in 0..k |-> Down(g, i)]
      <4>. HIDE DEF Down
      <4>1. g = [i \in 0..k |-> g[i]]
        BY Zenon
      <4>2. [i \in 0..k |-> g[i]] = [i \in 0..k |-> Down(g, i)]
        BY <3>4, Zenon
      <4>. QED  BY <4>1, <4>2, Zenon
    <3>. HIDE DEF g, Down
    <3>. QED  BY <1>0, <2>0, <3>5
  <2>. QED  BY <2>1, <2>2
<1>2. without = {}
  <2>1. without \in SUBSET Nat
    OBVIOUS
  <2>. HIDE DEF without
  <2>2. without # {} => Min(without) \in without /\ \A j \in without : Min(without) =< j
    BY <2>1, MinIsLeast
  <2>. QED  BY <1>1, <2>2
<1>3. n \notin without
  <2>. HIDE DEF without
  <2>. QED  BY <1>2
<1>. QED  BY <1>3

\* try_turn_wheel takes the timers of a place out and puts each where it may lie by now.
LEMMA PlacedHandedDown ==
  ASSUME StepCount \in Nat \ {0}, NEW ls, NEW c, NEW D \in SUBSET Nat, ClocksOK(c),
         NEW p \in W!Places, OnePlace(ls, D),
         Placed([ls EXCEPT ![p] = <<>>], mTimers, D \ ToSet(ls[p]), c),
         \A t \in ToSet(ls[p]) : mTimers[t].next \in Nat /\ mTimers[t].next >= c.at[0]
  PROVE  Placed(W!HandDown(ls, c.at, p), mTimers, D, c)
<1>. DEFINE w == c.at
            n == Len(ls[p])
            From(k) == {ls[p][i] : i \in 1..k}
<1>1. n \in Nat /\ ls[p] \in Seq(Nat) /\ ToSet(ls[p]) = From(n)
  BY DEF OnePlace, ToSet
<1>2. PICK f : Downs(ls, w, p, f, n)
  BY <1>1, DownsExist
<1>. DEFINE h == CHOOSE g : Downs(ls, w, p, g, n)
<1>3. Downs(ls, w, p, h, n)
  BY <1>2, Zenon
<1>4. W!HandDown(ls, w, p) = h[n]
  BY Zenon DEF W!HandDown, Downs
<1>5. \A k \in 0..n : h[k] = IF k = 0 THEN [ls EXCEPT ![p] = <<>>]
                              ELSE W!Put(h[k - 1], w, ls[p][k], mTimers[ls[p][k]].next)
  <2>. HIDE DEF h, w, n
  <2>. QED  BY <1>3 DEF Downs
<1>. HIDE DEF h
<1>. DEFINE S(k) == (D \ From(n)) \cup From(k)
            wrong == {k \in 0..n : ~Placed(h[k], mTimers, S(k), c)}
<1>6. ASSUME NEW k \in wrong, \A j \in wrong : k =< j
      PROVE  FALSE
  <2>0. k \in 0..n /\ ~Placed(h[k], mTimers, S(k), c)
    BY <1>6
  <2>. HIDE DEF wrong
  <2>1. CASE k = 0
    <3>1. From(0) = {}
      OBVIOUS
    <3>2. h[0] = [ls EXCEPT ![p] = <<>>]
      <4>. HIDE DEF From, S
      <4>. QED  BY <1>5, <2>0, <2>1
    <3>3. S(0) = D \ ToSet(ls[p])
      BY <1>1, <3>1
    <3>. HIDE DEF S
    <3>. QED  BY <2>0, <2>1, <3>2, <3>3
  <2>2. CASE k # 0
    <3>1. k \in 1..n /\ k - 1 \in 0..n /\ ~(k =< k - 1)
      BY <1>1, <2>0, <2>2
    <3>2. k - 1 \notin wrong
      BY <1>6, <3>1
    <3>3. Placed(h[k - 1], mTimers, S(k - 1), c)
      BY <3>1, <3>2 DEF wrong
    <3>. DEFINE t == ls[p][k]
                x == mTimers[t].next
    <3>4. h[k] = W!Put(h[k - 1], w, t, x)
      BY <1>5, <2>0, <2>2
    <3>5. t \in From(n) /\ t \in D
      BY <3>1 DEF OnePlace
    <3>6. t \in Nat /\ x \in Nat /\ x >= c.at[0]
      BY <1>1, <3>5
    <3>7. t \notin From(k - 1)
      <4>1. ASSUME NEW i \in 1..k - 1, ls[p][i] = t PROVE FALSE
        <5>1. i \in 1..n /\ i # k
          BY <1>1, <3>1
        <5>. QED  BY <3>1, <4>1, <5>1 DEF OnePlace
      <4>. QED  BY <4>1
    <3>8. t \notin S(k - 1)
      BY <3>5, <3>7
    <3>9. S(k) = S(k - 1) \cup {t}
      <4>1. 1..k = 1..k - 1 \cup {k}
        BY <3>1
      <4>2. From(k) = From(k - 1) \cup {t}
        BY <4>1
      <4>. QED  BY <4>2
    <3>. HIDE DEF S, t, x
    <3>10. mTimers[t].next = x
      BY DEF x
    <3>11. Placed(W!Put(h[k - 1], c.at, t, x), mTimers, S(k - 1) \cup {t}, c)
      BY <3>3, <3>6, <3>8, <3>10, PlacedPut
    <3>. QED  BY <2>0, <3>4, <3>9, <3>11
  <2>. QED  BY <2>1, <2>2
<1>7. wrong = {}
  <2>1. wrong \in SUBSET Nat
    BY <1>1
  <2>. HIDE DEF wrong
  <2>2. wrong # {} => Min(wrong) \in wrong /\ \A j \in wrong : Min(wrong) =< j
    BY <2>1, MinIsLeast
  <2>. QED  BY <1>6, <2>2
<1>8. Placed(h[n], mTimers, S(n), c)
  <2>1. n \in 0..n
    BY <1>1
  <2>. HIDE DEF n, S
  <2>. QED  BY <1>7, <2>1
<1>9. S(n) = D
  <2>1. From(n) \subseteq D
    BY DEF OnePlace
  <2>. QED  BY <2>1
<1>. QED  BY <1>4, <1>8, <1>9

-----------------------------------------------------------------------------
(* The wheels turn.                                                        *)

TurnFacts(T, I, q) ==
  /\ q \in Nat /\ I * q \in Nat /\ I * (q + 1) = I * q + I
  /\ I * q + I > T => T \div I = q
  /\ ~(I * q + I > T) => T = I * (q + 1) /\ T \div I = q + 1

LEMMA TurnNumbers ==
  ASSUME NEW T \in Nat \ {0}, NEW I \in Nat \ {0}
  PROVE  TurnFacts(T, I, (T - 1) \div I)
<1>. DEFINE q == (T - 1) \div I
<1>1. T - 1 \in Nat
  OBVIOUS
<1>0. q \in Nat /\ I * q =< T - 1 /\ T - 1 < I * q + I
  BY <1>1, DivFacts
<1>. HIDE DEF q
<1>2. I * q \in Nat /\ I * (q + 1) = I * q + I
  BY <1>0
<1>3. I * q + I > T => T \div I = q
  <2>1. I * q =< T
    BY <1>0, <1>2
  <2>. QED  BY <1>0, <1>2, <2>1, DivIs
<1>4. ~(I * q + I > T) => T = I * (q + 1)
  BY <1>0, <1>2
<1>5. ~(I * q + I > T) => T \div I = q + 1
  <2>1. (I * (q + 1)) \div I = q + 1
    <3>1. I * (q + 1) \in Nat /\ I * (q + 1) < I * (q + 1) + I /\ q + 1 \in Nat
      BY <1>0, <1>2
    <3>. QED  BY <3>1, DivIs
  <2>. QED  BY <1>4, <2>1
<1>. QED  BY <1>0, <1>2, <1>3, <1>4, <1>5 DEF TurnFacts, q

NextDivFacts(q, S) ==
  /\ (q + 1) % S # 0 => (q + 1) \div S = q \div S
  /\ (q + 1) % S = 0 => /\ (q + 1) \div S = q \div S + 1
                        /\ q + 1 = S * ((q + 1) \div S)

LEMMA NextDiv ==
  ASSUME NEW q \in Nat, NEW S \in Nat \ {0}
  PROVE  NextDivFacts(q, S)
<1>. DEFINE a == (q + 1) \div S
            r == (q + 1) % S
<1>1. a \in Nat /\ r \in 0..(S - 1) /\ q + 1 = S * a + r
  OBVIOUS
<1>. HIDE DEF a, r
<1>2. S * a \in Nat
  BY <1>1
<1>3. r # 0 => q \div S = a
  <2>1. r # 0 => S * a =< q /\ q < S * a + S
    BY <1>1, <1>2
  <2>. QED  BY <1>1, <2>1, DivIs
<1>4. r = 0 => q \div S = a - 1
  <2>1. r = 0 => a # 0
    BY <1>1
  <2>2. r = 0 => a - 1 \in Nat
    BY <1>1, <2>1
  <2>3. S * (a - 1) = S * a - S
    BY <1>1
  <2>4. r = 0 => S * (a - 1) =< q /\ q < S * (a - 1) + S
    BY <1>1, <1>2, <2>3
  <2>. QED  BY <2>2, <2>4, DivIs
<1>. QED  BY <1>1, <1>3, <1>4 DEF a, r, NextDivFacts

\* A multiple of S * I is one of I.
LEMMA MultipleBelow ==
  ASSUME NEW a \in Nat, NEW b \in Nat, b =< a, NEW I \in Nat \ {0}, NEW S \in Nat \ {0}
  PROVE  (S * I) * (b \div (S * I)) =< I * (a \div I)
<1>1. S * I \in Nat \ {0}
  OBVIOUS
<1>. DEFINE J == S * I
            q == b \div J
            d == a \div I
<1>2. q \in Nat /\ J * q =< b
  BY <1>1, DivFacts
<1>3. d \in Nat
  BY DivFacts
<1>. HIDE DEF q, d
<1>4. J * q = I * (S * q) /\ S * q \in Nat /\ J * q \in Nat
  BY <1>2
<1>. HIDE DEF J
<1>5. I * (S * q) =< a
  BY <1>2, <1>4
<1>6. S * q =< d
  BY <1>4, <1>5, DivOrder DEF d
<1>7. I * (S * q) =< I * d
  BY <1>3, <1>4, <1>6
<1>. QED  BY <1>4, <1>7 DEF q, d, J

\* The clocks of the wheels at tick T, when those below wheel i have turned.
Turning(w, T, i) ==
  /\ w \in [0..3 -> Nat]
  /\ \A j \in 0..3 :
       w[j] = W!StepInterval(j) * ((IF j < i THEN T ELSE T - 1) \div W!StepInterval(j))

LEMMA TurningDescends ==
  ASSUME StepCount \in Nat \ {0}, NEW T \in Nat \ {0}, NEW i \in 1..4, NEW w, Turning(w, T, i)
  PROVE  Descend(w) /\ w[0] = T
<1>. DEFINE I(j) == W!StepInterval(j)
            t(j) == IF j < i THEN T ELSE T - 1
<1>1. w[0] = T
  <2>1. I(0) = 1 /\ w[0] = I(0) * (T \div I(0))
    BY IntervalFacts DEF Turning
  <2>. QED  BY <2>1
<1>2. ASSUME NEW j \in 0..2 PROVE w[j + 1] =< w[j]
  <2>1. /\ j \in 0..3 /\ j + 1 \in 0..3 /\ j \in 0..4 /\ t(j) \in Nat /\ t(j + 1) \in Nat
        /\ t(j + 1) =< t(j)
    OBVIOUS
  <2>2. w[j] = I(j) * (t(j) \div I(j)) /\ w[j + 1] = I(j + 1) * (t(j + 1) \div I(j + 1))
    BY <2>1 DEF Turning
  <2>3. I(j) \in Nat \ {0} /\ I(j + 1) = StepCount * I(j)
    BY <2>1, IntervalFacts
  <2>. HIDE DEF I, t
  <2>4. (StepCount * I(j)) * (t(j + 1) \div (StepCount * I(j))) =< I(j) * (t(j) \div I(j))
    BY <2>1, <2>3, MultipleBelow
  <2>. QED  BY <2>2, <2>3, <2>4
<1>3. w[0 + 1] =< w[0] /\ w[1 + 1] =< w[1] /\ w[2 + 1] =< w[2]
  BY <1>2
<1>. QED  BY <1>1, <1>3 DEF Turning, Descend

\* What is left when a place is emptied.
LEMMA PlacedCleared ==
  ASSUME NEW ls, NEW M, NEW D, NEW c, OnePlace(ls, D), NEW p \in W!Places, p # <<0, c.old>>,
         \A q \in W!Places \ {p} : \A i \in 1..Len(ls[q]) : Lies(c, q, M[ls[q][i]].next),
         InOrder(ls, M, c)
  PROVE  Placed([ls EXCEPT ![p] = <<>>], M, D \ ToSet(ls[p]), c)
<1>. DEFINE r == [ls EXCEPT ![p] = <<>>]
<1>1. /\ ls \in [W!Places -> Seq(Nat)]
      /\ \A a, b \in W!Places : \A i \in 1..Len(ls[a]), j \in 1..Len(ls[b]) :
           ls[a][i] = ls[b][j] => a = b /\ i = j
      /\ \A a \in W!Places : \A i \in 1..Len(ls[a]) : ls[a][i] \in D
      /\ \A u \in D : \E a \in W!Places : \E i \in 1..Len(ls[a]) : ls[a][i] = u
  BY DEF OnePlace
<1>2. /\ r \in [W!Places -> Seq(Nat)] /\ r[p] = <<>> /\ Len(r[p]) = 0
      /\ \A q \in W!Places : q # p => r[q] = ls[q]
  BY <1>1
<1>. HIDE DEF r
<1>3. ToSet(ls[p]) = {ls[p][i] : i \in 1..Len(ls[p])}
  BY <1>1 DEF ToSet
<1>4. \A q \in W!Places : \A i \in 1..Len(r[q]) :
        q # p /\ r[q] = ls[q] /\ i \in 1..Len(ls[q]) /\ r[q][i] \in D \ ToSet(ls[p])
  <2>1. TAKE q \in W!Places
  <2>2. TAKE i \in 1..Len(r[q])
  <2>3. q # p
    <3>1. 1..0 = {}
      OBVIOUS
    <3>. QED  BY <1>2, <2>2, <3>1
  <2>4. r[q] = ls[q] /\ i \in 1..Len(ls[q]) /\ ls[q][i] \in D
    BY <1>1, <1>2, <2>2, <2>3
  <2>5. ls[q][i] \notin ToSet(ls[p])
    BY <1>1, <1>3, <2>3, <2>4
  <2>. QED  BY <2>3, <2>4, <2>5
<1>5. \A u \in D \ ToSet(ls[p]) : \E a \in W!Places : \E i \in 1..Len(r[a]) : r[a][i] = u
  <2>1. TAKE u \in D \ ToSet(ls[p])
  <2>2. PICK a \in W!Places : \E i \in 1..Len(ls[a]) : ls[a][i] = u
    BY <1>1
  <2>3. a # p
    BY <1>3, <2>1, <2>2
  <2>. QED  BY <1>2, <2>2, <2>3
<1>6. OnePlace(r, D \ ToSet(ls[p]))
  <2>1. ASSUME NEW a \in W!Places, NEW b \in W!Places,
               NEW i \in 1..Len(r[a]), NEW j \in 1..Len(r[b]), r[a][i] = r[b][j]
        PROVE  a = b /\ i = j
    <3>1. r[a] = ls[a] /\ i \in 1..Len(ls[a]) /\ r[b] = ls[b] /\ j \in 1..Len(ls[b])
      BY <1>4
    <3>2. ls[a][i] = ls[b][j]
      BY <2>1, <3>1
    <3>3. \A k \in 1..Len(ls[a]), l \in 1..Len(ls[b]) : ls[a][k] = ls[b][l] => a = b /\ k = l
      BY <1>1
    <3>. QED  BY <3>1, <3>2, <3>3
  <2>. QED  BY <1>2, <1>4, <1>5, <2>1 DEF OnePlace
<1>7. AllLie(r, M, c)
  BY <1>4 DEF AllLie
<1>8. InOrder(r, M, c)
  BY <1>2 DEF InOrder
<1>. QED  BY <1>6, <1>7, <1>8 DEF Placed, r

\* What a place depends on while the wheels turn.
Clock(w, over, st, late, prompt) ==
  [at |-> w, over |-> over, old |-> st, late |-> late, prompt |-> prompt]

Covered(w) == w[3] \div W!StepInterval(4)

\* Wheel i turns by one: what was in its next slot goes to the wheels below, and when it
\* has come round what waited in the overflow list goes where it may lie.
LEMMA TurnStep ==
  ASSUME StepCount \in Nat \ {0}, NEW T \in Nat \ {0}, NEW i \in 1..3, NEW s,
         Turning(s.at, T, i), NEW D \in SUBSET Nat, \A t \in D : mTimers[t].next \in Nat,
         NEW st, NEW late \in Int, NEW prompt,
         Placed(s.lists, mTimers, D, Clock(s.at, Covered(s.at), st, late, prompt))
  PROVE  LET r == W!TurnWheel(s, i) IN
         /\ Turning(r.at, T, i + 1)
         /\ Placed(r.lists, mTimers, D, Clock(r.at, Covered(r.at), st, late, prompt))
<1>. DEFINE I == W!StepInterval(i)
            q == (T - 1) \div I
            w == s.at
            ls == s.lists
            over == Covered(w)
            c0 == Clock(w, over, st, late, prompt)
<1>1. I \in Nat \ {0}
  BY IntervalFacts
<1>2. w \in [0..3 -> Nat] /\ w[i] = I * q /\ w[0] = T /\ Descend(w)
  BY TurningDescends DEF Turning
<1>3. /\ q \in Nat /\ I * q \in Nat /\ I * (q + 1) = I * q + I
      /\ I * q + I > T => T \div I = q
      /\ ~(I * q + I > T) => T = I * (q + 1) /\ T \div I = q + 1
  <2>. HIDE DEF q, I
  <2>1. TurnFacts(T, I, q)
    BY <1>1, TurnNumbers DEF q
  <2>. QED  BY <2>1 DEF TurnFacts
<1>4. \A v : v \in [0..3 -> Nat] /\ v[i] = I * (T \div I) /\ (\A j \in 0..3 : j # i => v[j] = w[j])
            => Turning(v, T, i + 1)
  <2>1. SUFFICES ASSUME NEW v, v \in [0..3 -> Nat], v[i] = I * (T \div I),
                        \A j \in 0..3 : j # i => v[j] = w[j], NEW j \in 0..3
                 PROVE  v[j] = W!StepInterval(j) * ((IF j < i + 1 THEN T ELSE T - 1) \div W!StepInterval(j))
    BY DEF Turning
  <2>2. CASE j = i
    <3>1. i < i + 1
      OBVIOUS
    <3>. QED  BY <2>1, <2>2, <3>1
  <2>3. CASE j # i
    <3>1. j < i <=> j < i + 1
      BY <2>3
    <3>2. w[j] = W!StepInterval(j) * ((IF j < i THEN T ELSE T - 1) \div W!StepInterval(j))
      BY DEF Turning
    <3>. QED  BY <2>1, <2>3, <3>1, <3>2
  <2>. QED  BY <2>2, <2>3
<1>5. CASE w[i] + I > w[0]
  <2>1. W!TurnWheel(s, i) = s
    BY <1>5 DEF W!TurnWheel
  <2>2. T \div I = q
    BY <1>2, <1>3, <1>5
  <2>3. Turning(w, T, i + 1)
    <3>. HIDE DEF w, q, I
    <3>. QED  BY <1>2, <1>4, <2>2
  <2>. QED  BY <2>1, <2>3
<1>6. CASE ~(w[i] + I > w[0])
  <2>. DEFINE v == [w EXCEPT ![i] = @ + I]
              p == W!Current(v, i)
              l == W!HandDown(ls, v, p)
              c1 == Clock(v, over, st, late, prompt)
  <2>1. T = I * (q + 1) /\ T \div I = q + 1
    BY <1>2, <1>3, <1>6
  <2>2. /\ v \in [0..3 -> Nat] /\ v[i] = T /\ v[i] = I * (T \div I)
        /\ \A j \in 0..3 : j # i => v[j] = w[j]
    <3>. HIDE DEF q, I, w
    <3>. QED  BY <1>1, <1>2, <1>3, <2>1
  <2>. HIDE DEF v
  <2>3. Turning(v, T, i + 1)
    BY <1>4, <2>2
  <2>4. Descend(v) /\ v[0] = T
    <3>1. i + 1 \in 1..4
      OBVIOUS
    <3>. QED  BY <2>3, <3>1, TurningDescends
  <2>5. p = <<i, (q + 1) % StepCount>> /\ p \in W!Places
    <3>1. v[i] \div I = q + 1
      BY <2>1, <2>2
    <3>2. (q + 1) % StepCount \in 0..(StepCount - 1)
      <4>. HIDE DEF q
      <4>. QED  BY <1>3
    <3>. QED  BY <3>1, <3>2, PlaceFacts DEF W!Current
  <2>6. Covered(w) \in Nat /\ Covered(v) \in Nat /\ Covered(w) =< Covered(v)
    <3>1. W!StepInterval(4) \in Nat \ {0}
      BY IntervalFacts
    <3>2. w[3] \in Nat /\ v[3] \in Nat /\ w[3] =< v[3]
      <4>1. w[3] =< T
        BY <1>2 DEF Descend
      <4>. QED  BY <1>2, <2>2, <4>1
    <3>. QED  BY <3>1, <3>2, DivFacts, DivMonotone DEF Covered
  <2>7. ClocksOK(c1)
    BY <2>4, <2>6 DEF ClocksOK, Clock, Covered
  <2>. HIDE DEF l, p, c0, over, w, ls, q, I
  <2>8. /\ OnePlace(ls, D) /\ AllLie(ls, mTimers, c0) /\ InOrder(ls, mTimers, c0)
        /\ c0 = Clock(w, over, st, late, prompt)
    BY DEF Placed, c0, over, w, ls
  <2>9. ASSUME NEW a \in W!Places \ {p}, NEW k \in 1..Len(ls[a])
        PROVE  Lies(c1, a, mTimers[ls[a][k]].next)
    <3>. DEFINE x == mTimers[ls[a][k]].next
    <3>1. Lies(c0, a, x)
      BY <2>8 DEF AllLie
    <3>. HIDE DEF x
    <3>2. /\ c0.at = w /\ c0.over = over /\ c0.old = st /\ c0.prompt = prompt
          /\ c1.at = v /\ c1.over = over /\ c1.old = st /\ c1.prompt = prompt
      BY <2>8 DEF Clock
    <3>3. v[0] = w[0]
      BY <1>2, <2>4
    <3>. HIDE DEF c1
    <3>4. ASSUME Fine(c0, a, x) PROVE Fine(c1, a, x)
      <4>1. a[1] = 0 => FineIn0(v, a[2], x)
        BY <3>2, <3>3, <3>4 DEF Fine, FineIn0
      <4>2. a[1] = 4 => FineOver(over, x)
        BY <3>2, <3>4 DEF Fine
      <4>3. ASSUME a[1] \in 1..3 PROVE FineIn(v, a[1], a[2], x)
        <5>. DEFINE j == a[1]
        <5>1. FineIn(w, j, a[2], x)
          BY <3>2, <3>4, <4>3 DEF Fine
        <5>2. CASE j # i
          <6>1. v[j] = w[j]
            BY <2>2, <4>3, <5>2
          <6>. QED  BY <5>1, <6>1 DEF FineIn, Ahead
        <5>3. CASE j = i
          <6>. DEFINE y == x \div W!StepInterval(i)
          <6>1. x \in Nat
            BY <2>8 DEF OnePlace, x
          <6>2. y \in Nat /\ v[i] \div I = q + 1 /\ w[i] \div I = q /\ W!StepInterval(i) = I
            <7>1. W!StepInterval(i) = I
              BY DEF I
            <7>2. x \div I \in Nat
              BY <1>1, <6>1, DivFacts
            <7>3. (I * q) \div I = q
              <8>1. I * q < I * q + I
                BY <1>1, <1>3
              <8>. QED  BY <1>1, <1>3, <8>1, DivIs
            <7>. QED  BY <1>2, <2>1, <2>2, <7>1, <7>2, <7>3
          <6>3. 0 < y - q /\ y - q < StepCount /\ a[2] = y % StepCount
            BY <5>1, <5>3, <6>2 DEF FineIn, Ahead
          <6>. HIDE DEF y
          <6>4. y # q + 1
            <7>1. a = <<a[1], a[2]>>
              BY PlaceFacts
            <7>2. y = q + 1 => a = p
              BY <2>5, <5>3, <6>3, <7>1
            <7>. QED  BY <7>2
          <6>5. 0 < y - (q + 1) /\ y - (q + 1) < StepCount
            BY <1>3, <6>2, <6>3, <6>4
          <6>. QED  BY <5>3, <6>2, <6>3, <6>5 DEF FineIn, Ahead, y
        <5>. QED  BY <5>2, <5>3
      <4>. QED  BY <3>2, <4>1, <4>2, <4>3 DEF Fine
    <3>. QED  BY <3>1, <3>2, <3>3, <3>4 DEF Lies, x
  <2>10. \A t \in ToSet(ls[p]) : mTimers[t].next \in Nat /\ mTimers[t].next >= T
    <3>1. ToSet(ls[p]) = {ls[p][k] : k \in 1..Len(ls[p])}
      <4>1. ls[p] \in Seq(Nat)
        BY <2>5, <2>8 DEF OnePlace
      <4>. QED  BY <4>1 DEF ToSet
    <3>2. SUFFICES ASSUME NEW k \in 1..Len(ls[p])
                   PROVE  mTimers[ls[p][k]].next \in Nat /\ mTimers[ls[p][k]].next >= T
      BY <3>1
    <3>. DEFINE x == mTimers[ls[p][k]].next
    <3>3. x \in Nat /\ Lies(c0, p, x)
      BY <2>5, <2>8 DEF OnePlace, AllLie
    <3>. HIDE DEF x
    <3>4. p # <<0, c0.old>> /\ p[1] = i /\ c0.at = w
      BY <2>5, <2>8 DEF Clock
    <3>5. FineIn(w, i, p[2], x)
      BY <3>3, <3>4 DEF Lies, Fine
    <3>6. 0 < x \div I - q /\ x \div I \in Nat
      <4>1. (I * q) \div I = q
        <5>1. I * q < I * q + I
          BY <1>1, <1>3
        <5>. QED  BY <1>1, <1>3, <5>1, DivIs
      <4>. QED  BY <1>1, <1>2, <3>3, <3>5, <4>1, DivFacts DEF FineIn, Ahead, I
    <3>7. q + 1 =< x \div I
      BY <1>3, <3>6
    <3>8. I * (q + 1) =< x
      <4>1. q + 1 \in Nat /\ x \in Nat
        BY <1>3, <3>3
      <4>. QED  BY <1>1, <3>7, <4>1, DivOrder
    <3>. QED  BY <2>1, <3>3, <3>8 DEF x
  <2>11. p # <<0, c1.old>> /\ InOrder(ls, mTimers, c1)
    <3>1. p # <<0, c1.old>>
      BY <2>5
    <3>2. c1.at[0] = c0.at[0] /\ c1.old = c0.old /\ c1.late = c0.late
      BY <1>2, <2>4, <2>8 DEF Clock
    <3>. HIDE DEF c1
    <3>. QED  BY <2>8, <3>1, <3>2 DEF InOrder
  <2>12. c1.at = v
    BY DEF Clock
  <2>13. Placed(l, mTimers, D, c1)
    <3>. HIDE DEF c1
    <3>1. Placed([ls EXCEPT ![p] = <<>>], mTimers, D \ ToSet(ls[p]), c1)
      BY <2>5, <2>8, <2>9, <2>11, PlacedCleared
    <3>2. Placed(W!HandDown(ls, c1.at, p), mTimers, D, c1)
      <4>1. c1.at[0] = T
        BY <2>4, <2>12
      <4>. QED  BY <2>5, <2>7, <2>8, <2>10, <3>1, <4>1, PlacedHandedDown
    <3>. QED  BY <2>12, <3>2 DEF l
  <2>. DEFINE J == W!StepInterval(4)
              r == W!TurnWheel(s, i)
  <2>14. /\ W!OverflowDue(v, i) <=> i = 3 /\ (q + 1) % StepCount = 0
         /\ r.at = v /\ r.lists = IF W!OverflowDue(v, i) THEN W!HandDown(l, v, W!Over) ELSE l
    <3>1. v[i] \div I = q + 1
      BY <2>1, <2>2
    <3>2. W!OverflowDue(v, i) <=> i = 3 /\ (q + 1) % StepCount = 0
      BY <3>1 DEF W!OverflowDue, W!IsNextWheel, I
    <3>3. r = [at |-> v, lists |-> IF W!OverflowDue(v, i) THEN W!HandDown(l, v, W!Over) ELSE l]
      BY <1>6 DEF W!TurnWheel, v, l, p, ls, w, I
    <3>. QED  BY <3>2, <3>3
  <2>15. i = 3 => /\ Covered(w) = q \div StepCount /\ Covered(v) = (q + 1) \div StepCount
                  /\ J = StepCount * I
    <3>1. SUFFICES ASSUME i = 3 PROVE /\ Covered(w) = q \div StepCount
                                      /\ Covered(v) = (q + 1) \div StepCount
                                      /\ J = StepCount * I
      OBVIOUS
    <3>2. J = StepCount * I
      <4>1. 3 \in 0..3 /\ 3 + 1 = 4
        OBVIOUS
      <4>. QED  BY <3>1, <4>1, IntervalFacts DEF I
    <3>3. w[3] \div I = q /\ v[3] \div I = q + 1 /\ w[3] \in Nat /\ v[3] \in Nat
      <4>1. (I * q) \div I = q
        <5>1. I * q < I * q + I
          BY <1>1, <1>3
        <5>. QED  BY <1>1, <1>3, <5>1, DivIs
      <4>. QED  BY <1>2, <2>1, <2>2, <3>1, <4>1
    <3>4. /\ (w[3] \div I) \div StepCount = w[3] \div (StepCount * I)
          /\ (v[3] \div I) \div StepCount = v[3] \div (StepCount * I)
      BY <1>1, <3>3, DivTwice
    <3>. QED  BY <3>2, <3>3, <3>4 DEF Covered
  <2>16. CASE ~W!OverflowDue(v, i)
    <3>1. Covered(v) = over
      <4>1. CASE i # 3
        BY <2>2, <4>1 DEF Covered, over
      <4>2. CASE i = 3
        <5>1. (q + 1) % StepCount # 0
          BY <2>14, <2>16, <4>2
        <5>2. NextDivFacts(q, StepCount)
          BY <1>3, NextDiv
        <5>3. (q + 1) \div StepCount = q \div StepCount
          BY <5>1, <5>2, Zenon DEF NextDivFacts
        <5>. QED  BY <2>15, <4>2, <5>3, Zenon DEF over
      <4>. QED  BY <4>1, <4>2
    <3>. QED  BY <2>3, <2>13, <2>14, <2>16, <3>1
  <2>17. CASE W!OverflowDue(v, i)
    <3>. DEFINE c2 == Clock(v, Covered(v), st, late, prompt)
    <3>1. over \in Nat /\ Covered(v) = over + 1 /\ T = J * (over + 1) /\ J \in Nat \ {0}
      <4>1. i = 3 /\ (q + 1) % StepCount = 0
        BY <2>14, <2>17
      <4>2. Covered(v) = over + 1 /\ q + 1 = StepCount * Covered(v)
        <5>1. NextDivFacts(q, StepCount)
          BY <1>3, NextDiv
        <5>2. /\ (q + 1) \div StepCount = q \div StepCount + 1
              /\ q + 1 = StepCount * ((q + 1) \div StepCount)
          BY <4>1, <5>1, Zenon DEF NextDivFacts
        <5>. QED  BY <2>15, <4>1, <5>2, Zenon DEF over
      <4>3. J * Covered(v) = I * (StepCount * Covered(v))
        BY <1>1, <2>6, <2>15, <4>1
      <4>4. J \in Nat \ {0}
        BY IntervalFacts
      <4>. QED  BY <2>1, <2>6, <4>2, <4>3, <4>4 DEF over
    <3>2. /\ c2.at = v /\ c2.over = Covered(v) /\ c2.old = st /\ c2.prompt = prompt /\ c2.late = late
          /\ c1.at = v /\ c1.over = over /\ c1.old = st /\ c1.prompt = prompt /\ c1.late = late
      BY DEF Clock
    <3>3. ClocksOK(c2)
      BY <2>4, <2>6, <3>2 DEF ClocksOK, Covered
    <3>. HIDE DEF J, c1, c2
    <3>4. OnePlace(l, D) /\ AllLie(l, mTimers, c1) /\ InOrder(l, mTimers, c1)
      BY <2>13 DEF Placed
    <3>5. W!Over \in W!Places /\ W!Over[1] = 4 /\ W!Over # <<0, st>>
      BY PlaceFacts DEF W!Over
    <3>6. ASSUME NEW a \in W!Places \ {W!Over}, NEW k \in 1..Len(l[a])
          PROVE  Lies(c2, a, mTimers[l[a][k]].next)
      <4>1. Lies(c1, a, mTimers[l[a][k]].next)
        BY <3>4 DEF AllLie
      <4>2. a[1] # 4
        BY PlaceFacts
      <4>. QED  BY <3>2, <4>1, <4>2 DEF Lies, Fine
    <3>7. InOrder(l, mTimers, c2)
      BY <3>2, <3>4 DEF InOrder
    <3>8. Placed([l EXCEPT ![W!Over] = <<>>], mTimers, D \ ToSet(l[W!Over]), c2)
      BY <3>2, <3>4, <3>5, <3>6, <3>7, PlacedCleared
    <3>9. \A t \in ToSet(l[W!Over]) : mTimers[t].next \in Nat /\ mTimers[t].next >= c2.at[0]
      <4>1. ToSet(l[W!Over]) = {l[W!Over][k] : k \in 1..Len(l[W!Over])}
        <5>1. l[W!Over] \in Seq(Nat)
          BY <3>4, <3>5 DEF OnePlace
        <5>. QED  BY <5>1 DEF ToSet
      <4>2. SUFFICES ASSUME NEW k \in 1..Len(l[W!Over])
                     PROVE  mTimers[l[W!Over][k]].next \in Nat /\ mTimers[l[W!Over][k]].next >= T
        BY <2>4, <3>2, <4>1
      <4>. DEFINE x == mTimers[l[W!Over][k]].next
      <4>3. x \in Nat /\ Lies(c1, W!Over, x)
        BY <3>4, <3>5 DEF OnePlace, AllLie
      <4>. HIDE DEF x
      <4>4. over < x \div J
        BY <3>2, <3>5, <4>3 DEF Lies, Fine, FineOver, J
      <4>5. x \div J \in Nat
        BY <3>1, <4>3, DivFacts
      <4>6. over + 1 \in Nat /\ over + 1 =< x \div J
        BY <3>1, <4>4, <4>5
      <4>7. J * (over + 1) =< x
        BY <3>1, <4>3, <4>6, DivOrder
      <4>. QED  BY <3>1, <4>3, <4>7 DEF x
    <3>10. Placed(W!HandDown(l, c2.at, W!Over), mTimers, D, c2)
      BY <3>3, <3>4, <3>5, <3>8, <3>9, PlacedHandedDown
    <3>11. r.lists = W!HandDown(l, c2.at, W!Over)
      BY <2>14, <2>17, <3>2
    <3>12. Placed(r.lists, mTimers, D, Clock(r.at, Covered(r.at), st, late, prompt))
      <4>1. c2 = Clock(r.at, Covered(r.at), st, late, prompt)
        BY <2>14 DEF c2
      <4>. HIDE DEF r
      <4>. QED  BY <3>10, <3>11, <4>1
    <3>. QED  BY <2>3, <2>14, <3>12
  <2>. QED  BY <2>16, <2>17
<1>. QED  BY <1>5, <1>6

-----------------------------------------------------------------------------
(* A tick of wheel 0.                                                      *)

\* Every wheel stands where it is at tick T.
AtTick(w, T) ==
  /\ w \in [0..3 -> Nat]
  /\ \A j \in 0..3 : w[j] = W!StepInterval(j) * (T \div W!StepInterval(j))

\* A tick that is no multiple of the slots of a wheel is no multiple of what the wheels
\* above count in.
LEMMA NoTurn ==
  ASSUME StepCount \in Nat \ {0}, NEW T \in Nat \ {0}, T % StepCount # 0
  PROVE  \A j \in 1..4 : T \div W!StepInterval(j) = (T - 1) \div W!StepInterval(j)
<1>. DEFINE q == T - 1
            P(j) == T \div W!StepInterval(j) = q \div W!StepInterval(j)
<1>1. q \in Nat /\ q + 1 = T
  OBVIOUS
<1>2. P(1)
  <2>1. W!StepInterval(1) = StepCount
    BY DEF W!StepInterval, W!StepIntervals
  <2>2. NextDivFacts(q, StepCount)
    BY <1>1, NextDiv
  <2>. HIDE DEF q
  <2>3. (q + 1) \div StepCount = q \div StepCount
    BY <1>1, <2>2, Zenon DEF NextDivFacts
  <2>. QED  BY <1>1, <2>1, <2>3, Zenon
<1>3. ASSUME NEW j \in 1..3, P(j) PROVE P(j + 1)
  <2>1. /\ W!StepInterval(j) \in Nat \ {0}
        /\ W!StepInterval(j + 1) = StepCount * W!StepInterval(j)
    BY IntervalFacts
  <2>2. /\ (T \div W!StepInterval(j)) \div StepCount = T \div W!StepInterval(j + 1)
        /\ (q \div W!StepInterval(j)) \div StepCount = q \div W!StepInterval(j + 1)
    <3>. DEFINE I == W!StepInterval(j)
    <3>. HIDE DEF q, I
    <3>1. I \in Nat \ {0} /\ W!StepInterval(j + 1) = StepCount * I
      BY <2>1 DEF I
    <3>2. (T \div I) \div StepCount = T \div (StepCount * I)
      BY <3>1, DivTwice
    <3>3. (q \div I) \div StepCount = q \div (StepCount * I)
      BY <1>1, <3>1, DivTwice
    <3>. QED  BY <3>1, <3>2, <3>3, Zenon DEF I
  <2>. HIDE DEF q
  <2>. QED  BY <1>3, <2>2, Zenon
<1>. HIDE DEF P
<1>4. P(2) /\ P(3) /\ P(4)
  <2>1. P(1 + 1)
    BY <1>2, <1>3
  <2>2. P(2 + 1)
    BY <1>3, <2>1
  <2>3. P(3 + 1)
    BY <1>3, <2>2
  <2>. QED  BY <2>1, <2>2, <2>3
<1>5. ASSUME NEW j \in 1..4 PROVE P(j)
  <2>1. j = 1 \/ j = 2 \/ j = 3 \/ j = 4
    OBVIOUS
  <2>. QED  BY <1>2, <1>4, <2>1
<1>. QED  BY <1>5 DEF P

\* The three turns leave every wheel where it is at tick T, and every timer in place.
LEMMA TurnedPlaced ==
  ASSUME StepCount \in Nat \ {0}, NEW T \in Nat \ {0}, NEW s,
         Turning(s.at, T, 1), NEW D \in SUBSET Nat, \A t \in D : mTimers[t].next \in Nat,
         NEW st, NEW late \in Int, NEW prompt,
         Placed(s.lists, mTimers, D, Clock(s.at, Covered(s.at), st, late, prompt))
  PROVE  LET r == IF W!IsNextWheel(s.at, 0) THEN W!Turned(s) ELSE s IN
         /\ AtTick(r.at, T)
         /\ Placed(r.lists, mTimers, D, Clock(r.at, Covered(r.at), st, late, prompt))
<1>. DEFINE r == IF W!IsNextWheel(s.at, 0) THEN W!Turned(s) ELSE s
<1>1. s.at \in [0..3 -> Nat] /\ s.at[0] = T
  BY TurningDescends DEF Turning
<1>2. W!IsNextWheel(s.at, 0) <=> T % StepCount = 0
  <2>1. W!StepInterval(0) = 1 /\ T \div 1 = T
    BY IntervalFacts
  <2>. QED  BY <1>1, <2>1 DEF W!IsNextWheel
<1>3. CASE T % StepCount = 0
  <2>. DEFINE s1 == W!TurnWheel(s, 1)
              s2 == W!TurnWheel(s1, 2)
              s3 == W!TurnWheel(s2, 3)
              OK(v, i) == /\ Turning(v.at, T, i)
                          /\ Placed(v.lists, mTimers, D, Clock(v.at, Covered(v.at), st, late, prompt))
  <2>1. OK(s, 1)
    OBVIOUS
  <2>2. \A v : \A i \in 1..3 : OK(v, i) => OK(W!TurnWheel(v, i), i + 1)
    BY TurnStep
  <2>. HIDE DEF OK, s1, s2, s3
  <2>3. OK(s1, 1 + 1)
    BY <2>1, <2>2 DEF s1
  <2>4. OK(s2, 2 + 1)
    BY <2>2, <2>3 DEF s2
  <2>5. OK(s3, 3 + 1)
    BY <2>2, <2>4 DEF s3
  <2>6. r = s3
    BY <1>2, <1>3 DEF W!Turned, s1, s2, s3
  <2>. HIDE DEF r
  <2>7. AtTick(r.at, T)
    <3>1. Turning(r.at, T, 4)
      BY <2>5, <2>6 DEF OK
    <3>2. \A j \in 0..3 : j < 4
      OBVIOUS
    <3>. QED  BY <3>1, <3>2 DEF Turning, AtTick
  <2>. QED  BY <2>5, <2>6, <2>7 DEF OK, r
<1>4. CASE T % StepCount # 0
  <2>1. r = s
    BY <1>2, <1>4
  <2>2. AtTick(s.at, T)
    <3>1. ASSUME NEW j \in 0..3
          PROVE  s.at[j] = W!StepInterval(j) * (T \div W!StepInterval(j))
      <4>1. s.at[j] = W!StepInterval(j) * ((IF j < 1 THEN T ELSE T - 1) \div W!StepInterval(j))
        BY DEF Turning
      <4>2. j >= 1 => T \div W!StepInterval(j) = (T - 1) \div W!StepInterval(j)
        BY <1>4, NoTurn
      <4>. QED  BY <4>1, <4>2
    <3>. QED  BY <1>1, <3>1 DEF AtTick
  <2>. QED  BY <2>1, <2>2
<1>. QED  BY <1>3, <1>4

\* A slot of wheel 0 is reached once in a turn.
LEMMA SlotOnce ==
  ASSUME NEW a \in Nat, NEW x \in Nat, NEW S \in Nat \ {0},
         a =< x, x - a < S, x % S = a % S
  PROVE  x = a
<1>. DEFINE d == a \div S
            e == x \div S
            r == a % S
            k == x % S
<1>1. d \in Nat /\ r \in 0..(S - 1) /\ a = S * d + r
  OBVIOUS
<1>2. e \in Nat /\ k \in 0..(S - 1) /\ x = S * e + k
  OBVIOUS
<1>3. k = r
  OBVIOUS
<1>. HIDE DEF d, e, r, k
<1>4. S * d \in Nat /\ S * e \in Nat
  BY <1>1, <1>2
<1>5. ~(d < e)
  <2>1. d < e => S * (d + 1) =< S * e
    BY <1>1, <1>2
  <2>2. S * (d + 1) = S * d + S
    BY <1>1
  <2>. QED  BY <1>1, <1>2, <1>3, <1>4, <2>1, <2>2
<1>6. ~(e < d)
  <2>1. e < d => S * (e + 1) =< S * d
    BY <1>1, <1>2
  <2>2. S * (e + 1) = S * e + S
    BY <1>2
  <2>. QED  BY <1>1, <1>2, <1>3, <1>4, <2>1, <2>2
<1>. QED  BY <1>1, <1>2, <1>3, <1>5, <1>6

LEMMA AtTickDiv ==
  ASSUME StepCount \in Nat \ {0}, NEW T \in Nat, NEW w, AtTick(w, T)
  PROVE  /\ \A i \in 0..3 : w[i] \div W!StepInterval(i) = T \div W!StepInterval(i)
         /\ Covered(w) = T \div W!StepInterval(4)
<1>1. ASSUME NEW i \in 0..3 PROVE w[i] \div W!StepInterval(i) = T \div W!StepInterval(i)
  <2>. DEFINE I == W!StepInterval(i)
              q == T \div I
  <2>1. I \in Nat \ {0} /\ w[i] = I * q
    BY IntervalFacts DEF AtTick
  <2>2. q \in Nat
    BY <2>1, DivFacts
  <2>. HIDE DEF q, I
  <2>3. I * q \in Nat /\ I * q =< I * q /\ I * q < I * q + I
    BY <2>1, <2>2
  <2>4. (I * q) \div I = q
    BY <2>1, <2>2, <2>3, DivIs
  <2>. QED  BY <2>1, <2>4 DEF q, I
<1>2. Covered(w) = T \div W!StepInterval(4)
  <2>. DEFINE I == W!StepInterval(3)
  <2>1. /\ I \in Nat \ {0} /\ w[3] \in Nat /\ w[3] \div I = T \div I
        /\ W!StepInterval(4) = StepCount * I
    <3>1. 3 \in 0..3 /\ 3 + 1 = 4
      OBVIOUS
    <3>. QED  BY <1>1, <3>1, IntervalFacts DEF AtTick
  <2>. HIDE DEF I
  <2>2. (w[3] \div I) \div StepCount = w[3] \div (StepCount * I)
    BY <2>1, DivTwice
  <2>3. (T \div I) \div StepCount = T \div (StepCount * I)
    BY <2>1, DivTwice
  <2>. QED  BY <2>1, <2>2, <2>3, Zenon DEF Covered
<1>. QED  BY <1>1, <1>2

\* When wheel 0 moves on, what was due at the tick it leaves lies in the slot it leaves.
LEMMA PlacedTick ==
  ASSUME StepCount \in Nat \ {0}, NEW T \in Nat \ {0}, NEW w, AtTick(w, T - 1),
         NEW ls, NEW M, NEW D, \A t \in D : M[t].next \in Nat,
         NEW prompt, NEW early, NEW late \in Int, T - 1 =< late,
         Placed(ls, M, D, Clock(w, Covered(w), -1, early, prompt))
  PROVE  LET v == [w EXCEPT ![0] = @ + 1] IN
         /\ Turning(v, T, 1)
         /\ Placed(ls, M, D, Clock(v, Covered(v), (T - 1) % StepCount, late, prompt))
<1>. DEFINE over == Covered(w)
            v == [w EXCEPT ![0] = @ + 1]
            st == (T - 1) % StepCount
            c0 == Clock(w, over, -1, early, prompt)
            c1 == Clock(v, over, st, late, prompt)
<1>1. w \in [0..3 -> Nat] /\ w[0] = T - 1
  <2>1. W!StepInterval(0) = 1
    BY IntervalFacts
  <2>2. (T - 1) \div 1 = T - 1
    OBVIOUS
  <2>. QED  BY <2>1, <2>2 DEF AtTick
<1>2. v \in [0..3 -> Nat] /\ v[0] = T /\ \A j \in 0..3 : j # 0 => v[j] = w[j]
  BY <1>1
<1>. HIDE DEF v
<1>3. Turning(v, T, 1)
  <2>1. SUFFICES ASSUME NEW j \in 0..3
                 PROVE  v[j] = W!StepInterval(j) * ((IF j < 1 THEN T ELSE T - 1) \div W!StepInterval(j))
    BY <1>2 DEF Turning
  <2>2. CASE j = 0
    <3>1. W!StepInterval(0) = 1 /\ T \div 1 = T
      BY IntervalFacts
    <3>. QED  BY <1>2, <2>2, <3>1
  <2>3. CASE j # 0
    <3>1. ~(j < 1)
      BY <2>3
    <3>. QED  BY <1>2, <2>3, <3>1 DEF AtTick
  <2>. QED  BY <2>2, <2>3
<1>4. Covered(v) = Covered(w)
  BY <1>2 DEF Covered
<1>5. /\ c0.at = w /\ c0.over = over /\ c0.old = -1 /\ c0.prompt = prompt
      /\ c1.at = v /\ c1.over = over /\ c1.old = st /\ c1.prompt = prompt /\ c1.late = late
  BY DEF Clock
<1>6. OnePlace(ls, D) /\ AllLie(ls, M, c0)
  BY DEF Placed
<1>. HIDE DEF c0, c1
<1>7. ASSUME NEW p \in W!Places, NEW i \in 1..Len(ls[p])
      PROVE  /\ M[ls[p][i]].next \in Nat /\ Fine(c0, p, M[ls[p][i]].next)
             /\ prompt => M[ls[p][i]].next >= T - 1
  <2>1. Lies(c0, p, M[ls[p][i]].next)
    BY <1>6 DEF AllLie
  <2>2. p # <<0, -1>>
    <3>1. -1 \notin 0..(StepCount - 1)
      OBVIOUS
    <3>2. p = <<0, -1>> => p = <<4, 0>> \/ -1 \in 0..(StepCount - 1)
      BY PlaceFacts
    <3>. QED  BY <3>1, <3>2
  <2>3. M[ls[p][i]].next \in Nat
    BY <1>6 DEF OnePlace
  <2>. QED  BY <1>1, <1>5, <2>1, <2>2, <2>3 DEF Lies
<1>8. AllLie(ls, M, c1)
  <2>1. SUFFICES ASSUME NEW p \in W!Places, NEW i \in 1..Len(ls[p])
                 PROVE  Lies(c1, p, M[ls[p][i]].next)
    BY DEF AllLie
  <2>. DEFINE x == M[ls[p][i]].next
  <2>2. x \in Nat /\ Fine(c0, p, x) /\ (prompt => x >= T - 1)
    BY <1>7
  <2>. HIDE DEF x, st
  <2>3. CASE p[1] = 0
    <3>1. FineIn0(w, p[2], x)
      BY <1>5, <2>2, <2>3 DEF Fine
    <3>2. CASE x >= T
      <4>1. x - T < StepCount /\ p[2] = x % StepCount
        BY <1>1, <2>2, <3>1, <3>2 DEF FineIn0
      <4>2. FineIn0(v, p[2], x)
        BY <1>2, <2>2, <3>2, <4>1 DEF FineIn0
      <4>. QED  BY <1>2, <1>5, <2>3, <3>2, <4>2 DEF Lies, Fine, x
    <3>3. CASE x < T
      <4>1. p[2] = st
        <5>1. w[0] = T - 1 /\ st = (T - 1) % StepCount
          BY <1>1 DEF st
        <5>2. w[0] =< x => x = T - 1
          BY <2>2, <3>3, <5>1
        <5>3. (p[2] = x % StepCount /\ w[0] =< x) \/ p[2] = w[0] % StepCount
          BY <3>1 DEF FineIn0
        <5>. QED  BY <5>1, <5>2, <5>3
      <4>2. p = <<0, st>>
        BY <2>3, <4>1, PlaceFacts
      <4>3. prompt => x = T - 1
        BY <2>2, <3>3
      <4>. QED  BY <1>2, <1>5, <3>3, <4>2, <4>3 DEF Lies, x
    <3>. QED  BY <2>2, <3>2, <3>3
  <2>4. CASE p[1] # 0
    <3>1. Fine(c1, p, x)
      BY <1>2, <1>5, <2>2, <2>4 DEF Fine, FineIn, Ahead
    <3>2. ASSUME x < T PROVE FALSE
      <4>. DEFINE j == p[1]
                  I == W!StepInterval(j)
      <4>1. j \in 1..4
        BY <2>4, PlaceFacts
      <4>2. I \in Nat \ {0} /\ T - 1 \in Nat /\ x =< T - 1
        <5>0. j \in 0..4
          <6>. HIDE DEF j
          <6>. QED  BY <4>1
        <5>1. \A u \in 0..4 : W!StepInterval(u) \in Nat \ {0}
          BY IntervalFacts
        <5>2. I \in Nat \ {0}
          <6>. HIDE DEF j
          <6>. QED  BY <5>0, <5>1
        <5>. QED  BY <2>2, <3>2, <5>2
      <4>3. x \div I =< (T - 1) \div I /\ x \div I \in Nat /\ (T - 1) \div I \in Nat
        <5>. HIDE DEF I
        <5>. QED  BY <2>2, <4>2, DivMonotone, DivFacts
      <4>4. CASE j = 4
        <5>1. over < x \div I
          BY <1>5, <2>2, <4>4 DEF Fine, FineOver
        <5>2. over = (T - 1) \div I
          BY <4>2, <4>4, AtTickDiv
        <5>. HIDE DEF I, over
        <5>. QED  BY <4>3, <5>1, <5>2
      <4>5. CASE j \in 1..3
        <5>1. 0 < x \div I - w[j] \div I
          BY <1>5, <2>2, <4>5 DEF Fine, FineIn, Ahead
        <5>2. w[j] \div I = (T - 1) \div I
          BY <4>2, <4>5, AtTickDiv
        <5>. HIDE DEF I
        <5>. QED  BY <4>3, <5>1, <5>2
      <4>. QED  BY <4>1, <4>4, <4>5
    <3>. QED  BY <1>2, <1>5, <2>2, <3>1, <3>2 DEF Lies, x
  <2>. QED  BY <2>3, <2>4
<1>9. InOrder(ls, M, c1)
  <2>1. SUFFICES ASSUME NEW p \in W!Places, p = <<0, st>>, NEW i \in 1..Len(ls[p])
                 PROVE  M[ls[p][i]].next =< late
    BY <1>5 DEF InOrder
  <2>. DEFINE x == M[ls[p][i]].next
  <2>2. x \in Nat /\ Fine(c0, p, x)
    BY <1>7
  <2>. HIDE DEF x
  <2>3. FineIn0(w, st, x)
    BY <1>5, <2>1, <2>2 DEF Fine
  <2>4. x =< T - 1
    <3>1. CASE w[0] =< x /\ x - w[0] < StepCount /\ st = x % StepCount
      <4>1. T - 1 \in Nat
        OBVIOUS
      <4>. QED  BY <1>1, <2>2, <3>1, <4>1, SlotOnce
    <3>. QED  BY <1>1, <2>3, <3>1 DEF FineIn0
  <2>. QED  BY <2>2, <2>4 DEF x
<1>10. Placed(ls, M, D, c1)
  BY <1>6, <1>8, <1>9 DEF Placed
<1>. QED  BY <1>3, <1>4, <1>10 DEF v, c1, st, over

-----------------------------------------------------------------------------
(* The wheels: the inductive invariant.  While a slot is being called it   *)
(* may hold what is older than the clock of wheel 0; if no interval is     *)
(* zero, that is what was due at the tick just passed.                     *)

Prompt == 0 \notin Intervals

WheelClock ==
  Clock(at, Covered(at), IF pc = "slot" THEN step ELSE -1,
        IF Prompt THEN at[0] - 1 ELSE mNow, Prompt)

WheelPlaces ==
  /\ AtTick(at, at[0]) /\ at[0] =< mNow /\ pc \in {"idle", "loop", "slot", "last"}
  /\ pc = "slot" => at[0] > 0 /\ step = (at[0] - 1) % StepCount
  /\ pc = "last" => at[0] = mNow /\ step = at[0] % StepCount
  /\ Placed(slots, mTimers, DOMAIN mTimers, WheelClock)

WheelInv == AnyQueue!TypeOK /\ updating = FALSE /\ WheelPlaces

WheelConstants == TimerConstants /\ StepCount \in Nat \ {0}

LEMMA AtTickDescends ==
  ASSUME StepCount \in Nat \ {0}, NEW T \in Nat, NEW w, AtTick(w, T)
  PROVE  Descend(w) /\ w[0] = T
<1>1. CASE T = 0
  <2>1. \A j \in 0..3 : w[j] = 0
    <3>1. TAKE j \in 0..3
    <3>. DEFINE I == W!StepInterval(j)
    <3>2. I \in Nat \ {0} /\ w[j] = I * (0 \div I)
      <4>1. j \in 0..4
        BY <3>1
      <4>. QED  BY <1>1, <4>1, IntervalFacts DEF AtTick
    <3>. HIDE DEF I
    <3>3. I * 0 = 0 /\ 0 < I * 0 + I
      BY <3>2
    <3>4. 0 \div I = 0
      BY <3>2, <3>3, DivIs
    <3>. QED  BY <3>2, <3>3, <3>4
  <2>. QED  BY <1>1, <2>1 DEF AtTick, Descend
<1>2. CASE T # 0
  <2>1. Turning(w, T, 4)
    <3>1. \A j \in 0..3 : j < 4
      OBVIOUS
    <3>. QED  BY <3>1 DEF AtTick, Turning
  <2>2. 4 \in 1..4 /\ T \in Nat \ {0}
    BY <1>2
  <2>. QED  BY <2>1, <2>2, TurningDescends
<1>. QED  BY <1>1, <1>2

\* Clocks of wheels and what they have covered.
LEMMA ClockIsOK ==
  ASSUME StepCount \in Nat \ {0}, NEW T \in Nat, NEW w, AtTick(w, T), NEW st, NEW late \in Int, NEW prompt
  PROVE  ClocksOK(Clock(w, Covered(w), st, late, prompt))
<1>1. Descend(w)
  BY AtTickDescends
<1>2. W!StepInterval(4) \in Nat \ {0} /\ w[3] \in Nat
  BY <1>1, IntervalFacts DEF Descend
<1>3. Covered(w) \in Nat
  BY <1>2, DivFacts DEF Covered
<1>. QED  BY <1>1, <1>3 DEF ClocksOK, Clock, Covered

LEMMA WheelFacts ==
  ASSUME WheelConstants, WheelInv
  PROVE  /\ mNow \in Nat /\ lastID \in Nat /\ calling \in Nat
         /\ at \in [0..3 -> Nat] /\ at[0] \in Nat /\ ClocksOK(WheelClock)
         /\ \A t \in DOMAIN mTimers : /\ t \in Nat /\ t > 0 /\ t =< lastID /\ t =< MaxTimers
                                      /\ mTimers[t] \in AnyQueue!Timers /\ mTimers[t].next \in Nat
                                      /\ t # calling => mTimers[t].left # 0
         /\ WheelClock.at = at /\ WheelClock.late = (IF Prompt THEN at[0] - 1 ELSE mNow)
         /\ WheelClock.old = (IF pc = "slot" THEN step ELSE -1) /\ WheelClock.prompt = Prompt
         /\ WheelClock.over = Covered(at)
<1>1. mNow \in Nat /\ lastID \in Nat /\ calling \in Nat /\ lastID =< MaxTimers /\ MaxTimers \in Nat
  BY DEF WheelInv, AnyQueue!TypeOK, WheelConstants, TimerConstants
<1>2. \A t \in DOMAIN mTimers : t \in 1..lastID /\ mTimers[t] \in AnyQueue!Timers
                                 /\ (t # calling => mTimers[t].left # 0)
  BY DEF WheelInv, AnyQueue!TypeOK
<1>3. \A t \in DOMAIN mTimers : mTimers[t].next \in Nat /\ t \in Nat /\ t > 0 /\ t =< lastID /\ t =< MaxTimers
  BY <1>1, <1>2 DEF AnyQueue!Timers
<1>4. at \in [0..3 -> Nat] /\ at[0] \in Nat
  BY DEF WheelInv, WheelPlaces, AtTick
<1>5. ClocksOK(WheelClock)
  <2>1. (IF Prompt THEN at[0] - 1 ELSE mNow) \in Int
    BY <1>1, <1>4
  <2>2. AtTick(at, at[0]) /\ StepCount \in Nat \ {0}
    BY DEF WheelInv, WheelPlaces, WheelConstants
  <2>. QED  BY <1>4, <2>1, <2>2, ClockIsOK DEF WheelClock
<1>6. /\ WheelClock.at = at /\ WheelClock.late = (IF Prompt THEN at[0] - 1 ELSE mNow)
      /\ WheelClock.old = (IF pc = "slot" THEN step ELSE -1) /\ WheelClock.prompt = Prompt
      /\ WheelClock.over = Covered(at)
  BY DEF WheelClock, Clock
<1>. QED  BY <1>1, <1>2, <1>3, <1>4, <1>5, <1>6

\* Without timers there is nothing to lie anywhere.
LEMMA PlacedNothing ==
  ASSUME NEW M, NEW c
  PROVE  Placed(W!Empty, M, {}, c)
<1>1. W!Empty \in [W!Places -> Seq(Nat)] /\ \A p \in W!Places : W!Empty[p] = <<>> /\ Len(W!Empty[p]) = 0
  BY DEF W!Empty
<1>2. \A p \in W!Places : 1..Len(W!Empty[p]) = {}
  BY <1>1
<1>3. OnePlace(W!Empty, {})
  BY <1>1, <1>2 DEF OnePlace
<1>. QED  BY <1>2, <1>3 DEF Placed, AllLie, InOrder

\* A slot that no wheel has.
LEMMA NoSuchSlot ==
  ASSUME StepCount \in Nat \ {0}
  PROVE  <<0, -1>> \notin W!Places
<1>1. -1 \notin 0..(StepCount - 1)
  OBVIOUS
<1>. QED  BY <1>1, PlaceFacts

\* How late timers may be matters only while a slot is being called.
LEMMA PlacedLater ==
  ASSUME StepCount \in Nat \ {0}, NEW ls, NEW M, NEW D, NEW w, NEW over, NEW early, NEW late, NEW prompt,
         Placed(ls, M, D, Clock(w, over, -1, early, prompt))
  PROVE  Placed(ls, M, D, Clock(w, over, -1, late, prompt))
<1>. DEFINE c0 == Clock(w, over, -1, early, prompt)
            c1 == Clock(w, over, -1, late, prompt)
<1>1. /\ c0.at = w /\ c0.over = over /\ c0.old = -1 /\ c0.prompt = prompt
      /\ c1.at = w /\ c1.over = over /\ c1.old = -1 /\ c1.prompt = prompt
  BY DEF Clock
<1>2. OnePlace(ls, D) /\ AllLie(ls, M, c0)
  BY DEF Placed
<1>. HIDE DEF c0, c1
<1>3. AllLie(ls, M, c1)
  BY <1>1, <1>2 DEF AllLie, Lies, Fine
<1>4. InOrder(ls, M, c1)
  BY <1>1, NoSuchSlot DEF InOrder
<1>. QED  BY <1>2, <1>3, <1>4 DEF Placed, c1

LEMMA ClockStands ==
  ASSUME UNCHANGED <<at, pc, step, mNow>>
  PROVE  WheelClock' = WheelClock
BY DEF WheelClock, Clock, Covered, Prompt, W!StepInterval, W!StepIntervals

\* The part of the invariant that does not change while a callback or the owner runs.
LEMMA PlacesStand ==
  ASSUME WheelConstants, WheelInv, UNCHANGED <<at, pc, step, mNow>>,
         Placed(slots', mTimers', DOMAIN mTimers', WheelClock)
  PROVE  WheelPlaces'
<1>1. WheelClock' = WheelClock
  BY ClockStands
<1>2. Placed(slots, mTimers, DOMAIN mTimers, WheelClock)'
  BY <1>1
<1>3. AtTick(at, at[0])'
  BY DEF WheelInv, WheelPlaces
<1>. QED  BY <1>2, <1>3 DEF WheelInv, WheelPlaces

LEMMA WheelAdd ==
  ASSUME WheelConstants, WheelInv,
         NEW s \in Starts, NEW i \in Intervals, NEW n \in Times, NEW b \in BOOLEAN, W!Add(s, i, n, b)
  PROVE  WheelPlaces'
<1>. DEFINE id == lastID + 1
            x == mNow + s
            D == DOMAIN mTimers
<1>1. /\ mNow \in Nat /\ s \in Nat /\ at[0] \in Nat /\ at[0] =< mNow /\ StepCount \in Nat \ {0}
      /\ \A t \in D : t \in Nat /\ t =< lastID
      /\ lastID \in Nat /\ WheelClock.at = at /\ ClocksOK(WheelClock)
  BY WheelFacts DEF WheelInv, WheelPlaces, WheelConstants, TimerConstants
<1>2. x \in Nat /\ x >= at[0] /\ id \in Nat /\ id \notin D
  BY <1>1
<1>3. /\ lastID' = id /\ slots' = W!Put(slots, at, id, x)
      /\ mTimers' = [t \in D \cup {id} |-> IF t = id THEN W!Queue!NewTimer(s, i, n, b) ELSE mTimers[t]]
      /\ UNCHANGED <<at, pc, step, mNow>>
  BY DEF W!Add, W!Queue!NewTimer
<1>4. /\ DOMAIN mTimers' = D \cup {id} /\ mTimers'[id].next = x
      /\ \A t \in D : mTimers'[t] = mTimers[t]
  BY <1>2, <1>3 DEF W!Queue!NewTimer
<1>5. Placed(slots, mTimers, D, WheelClock)
  BY DEF WheelInv, WheelPlaces
<1>. HIDE DEF id, x, D
<1>6. Placed(slots, mTimers', D, WheelClock)
  BY <1>4, <1>5, PlacedSame
<1>7. Placed(W!Put(slots, WheelClock.at, id, x), mTimers', D \cup {id}, WheelClock)
  BY <1>1, <1>2, <1>4, <1>6, PlacedPut
<1>. QED  BY <1>1, <1>3, <1>4, <1>7, PlacesStand

LEMMA WheelRemove ==
  ASSUME WheelConstants, WheelInv, NEW t, W!RemoveTimer(t)
  PROVE  WheelPlaces'
<1>1. t \in DOMAIN mTimers /\ UNCHANGED <<at, pc, step, mNow>>
  BY DEF W!RemoveTimer
<1>2. Placed(slots, mTimers, DOMAIN mTimers, WheelClock)
  BY DEF WheelInv, WheelPlaces
<1>3. CASE t = calling
  <2>1. mTimers' = [mTimers EXCEPT ![t] = [@ EXCEPT !.left = 0]] /\ slots' = slots
    BY <1>3 DEF W!RemoveTimer
  <2>2. mTimers[t] \in AnyQueue!Timers
    BY <1>1, WheelFacts
  <2>3. [mTimers[t] EXCEPT !.left = 0].next = mTimers[t].next
    BY <2>2 DEF AnyQueue!Timers
  <2>4. DOMAIN mTimers' = DOMAIN mTimers /\ \A u \in DOMAIN mTimers : mTimers'[u].next = mTimers[u].next
    BY <2>1, <2>3
  <2>5. Placed(slots, mTimers', DOMAIN mTimers, WheelClock)
    BY <1>2, <2>4, PlacedSame
  <2>. QED  BY <1>1, <2>1, <2>4, <2>5, PlacesStand
<1>4. CASE t # calling
  <2>1. /\ DOMAIN mTimers' = DOMAIN mTimers \ {t} /\ slots' = W!Leave(slots, t)
        /\ \A u \in DOMAIN mTimers' : mTimers'[u] = mTimers[u]
    BY <1>4 DEF W!RemoveTimer, W!Restrict
  <2>2. Placed(slots', mTimers, DOMAIN mTimers', WheelClock)
    BY <1>2, <2>1, PlacedLeft
  <2>3. Placed(slots', mTimers', DOMAIN mTimers', WheelClock)
    BY <2>1, <2>2, PlacedSame
  <2>. QED  BY <1>1, <2>3, PlacesStand
<1>. QED  BY <1>3, <1>4

LEMMA WheelClear ==
  ASSUME WheelConstants, WheelInv, W!Clear
  PROVE  WheelPlaces'
<1>1. mTimers' = <<>> /\ slots' = W!Empty /\ UNCHANGED <<at, pc, step, mNow>>
  BY DEF W!Clear
<1>2. DOMAIN mTimers' = {}
  BY <1>1
<1>3. Placed(slots', mTimers', DOMAIN mTimers', WheelClock)
  BY <1>1, <1>2, PlacedNothing
<1>. QED  BY <1>1, <1>3, PlacesStand

\* Wheels that begin at 0.
LEMMA AtStart ==
  ASSUME StepCount \in Nat \ {0}
  PROVE  AtTick([i \in 0..3 |-> 0], 0)
<1>. DEFINE w == [i \in 0..3 |-> 0]
<1>1. ASSUME NEW j \in 0..3 PROVE w[j] = W!StepInterval(j) * (0 \div W!StepInterval(j))
  <2>. DEFINE I == W!StepInterval(j)
  <2>1. I \in Nat \ {0}
    BY IntervalFacts
  <2>2. w[j] = 0
    OBVIOUS
  <2>. HIDE DEF I
  <2>3. I * 0 = 0 /\ 0 < I * 0 + I
    BY <2>1
  <2>4. 0 \div I = 0
    BY <2>1, <2>3, DivIs
  <2>. QED  BY <2>2, <2>3, <2>4 DEF I
<1>2. w \in [0..3 -> Nat]
  OBVIOUS
<1>. QED  BY <1>1, <1>2 DEF AtTick

LEMMA WheelReset ==
  ASSUME WheelConstants, WheelInv, W!Reset
  PROVE  WheelPlaces'
<1>1. /\ mTimers' = <<>> /\ slots' = W!Empty /\ mNow' = 0 /\ at' = [i \in 0..3 |-> 0]
      /\ pc = "idle" /\ pc' = "idle"
  BY DEF W!Reset, W!Wheels
<1>2. DOMAIN mTimers' = {} /\ at'[0] = 0
  BY <1>1
<1>3. Placed(slots', mTimers', DOMAIN mTimers', WheelClock')
  BY <1>1, <1>2, PlacedNothing
<1>4. AtTick(at', at'[0])
  BY <1>1, <1>2, AtStart DEF WheelConstants
<1>. QED  BY <1>1, <1>2, <1>3, <1>4 DEF WheelPlaces

LEMMA WheelUpdate ==
  ASSUME WheelConstants, WheelInv, NEW d \in Deltas, W!Update(d)
  PROVE  WheelPlaces'
<1>1. /\ pc = "idle" /\ pc' = "loop" /\ mNow' = mNow + d
      /\ UNCHANGED <<mTimers, at, slots, step>>
  BY DEF W!Update
<1>2. d \in Nat /\ mNow \in Nat /\ at[0] \in Nat /\ StepCount \in Nat \ {0}
  BY WheelFacts DEF WheelConstants, TimerConstants
<1>3. Placed(slots, mTimers, DOMAIN mTimers, Clock(at, Covered(at), -1, IF Prompt THEN at[0] - 1 ELSE mNow, Prompt))
  BY <1>1 DEF WheelInv, WheelPlaces, WheelClock
<1>4. Placed(slots, mTimers, DOMAIN mTimers, Clock(at, Covered(at), -1, IF Prompt THEN at[0] - 1 ELSE mNow', Prompt))
  BY <1>2, <1>3, PlacedLater
<1>5. WheelClock' = Clock(at, Covered(at), -1, IF Prompt THEN at[0] - 1 ELSE mNow', Prompt)
  BY <1>1 DEF WheelClock, Clock, Covered, Prompt, W!StepInterval, W!StepIntervals
<1>6. Placed(slots, mTimers, DOMAIN mTimers, WheelClock)'
  BY <1>1, <1>4, <1>5
<1>7. AtTick(at, at[0])'
  BY <1>1 DEF WheelInv, WheelPlaces
<1>8. at'[0] =< mNow'
  BY <1>1, <1>2 DEF WheelInv, WheelPlaces
<1>. QED  BY <1>1, <1>6, <1>7, <1>8 DEF WheelPlaces

LEMMA WheelTick ==
  ASSUME WheelConstants, WheelInv, W!Tick
  PROVE  WheelPlaces'
<1>. DEFINE T == at[0] + 1
            D == DOMAIN mTimers
            st == (T - 1) % StepCount
            late == IF Prompt THEN T - 1 ELSE mNow
            v == [at EXCEPT ![0] = @ + 1]
            s == [at |-> v, lists |-> slots]
            r == IF W!IsNextWheel(s.at, 0) THEN W!Turned(s) ELSE s
<1>1. /\ pc = "loop" /\ pc' = "slot" /\ at[0] + 1 =< mNow /\ step' = W!Current(at, 0)[2]
      /\ at' = r.at /\ slots' = r.lists /\ mNow' = mNow /\ mTimers' = mTimers
  BY DEF W!Tick
<1>2. /\ at[0] \in Nat /\ mNow \in Nat /\ StepCount \in Nat \ {0} /\ D \in SUBSET Nat
      /\ \A t \in D : mTimers[t].next \in Nat
  BY WheelFacts DEF WheelConstants
<1>3. T \in Nat \ {0} /\ T - 1 = at[0] /\ late \in Int /\ T - 1 =< late
  BY <1>1, <1>2
<1>4. AtTick(at, T - 1)
  BY <1>3 DEF WheelInv, WheelPlaces
<1>5. Placed(slots, mTimers, D, Clock(at, Covered(at), -1, IF Prompt THEN at[0] - 1 ELSE mNow, Prompt))
  BY <1>1 DEF WheelInv, WheelPlaces, WheelClock
<1>6. s.at = v /\ s.lists = slots
  OBVIOUS
<1>. HIDE DEF T, D, late, s
<1>7. Turning(v, T, 1) /\ Placed(slots, mTimers, D, Clock(v, Covered(v), st, late, Prompt))
  BY <1>2, <1>3, <1>4, <1>5, PlacedTick
<1>. HIDE DEF v, st
<1>8. Turning(s.at, T, 1) /\ Placed(s.lists, mTimers, D, Clock(s.at, Covered(s.at), st, late, Prompt))
  BY <1>6, <1>7
<1>9. AtTick(r.at, T) /\ Placed(r.lists, mTimers, D, Clock(r.at, Covered(r.at), st, late, Prompt))
  BY <1>2, <1>3, <1>8, TurnedPlaced
<1>. HIDE DEF r
<1>10. at'[0] = T
  BY <1>1, <1>2, <1>3, <1>9, AtTickDescends
<1>11. step' = st
  <2>1. W!StepInterval(0) = 1 /\ at[0] \div 1 = at[0]
    BY <1>2, IntervalFacts
  <2>2. step' = at[0] % StepCount
    BY <1>1, <2>1 DEF W!Current
  <2>. QED  BY <1>3, <2>2 DEF st
<1>12. WheelClock' = Clock(at', Covered(at'), step', IF Prompt THEN at'[0] - 1 ELSE mNow, Prompt)
  BY <1>1 DEF WheelClock, Clock, Covered, Prompt, W!StepInterval, W!StepIntervals
<1>13. WheelClock' = Clock(at', Covered(at'), st, late, Prompt)
  BY <1>10, <1>11, <1>12 DEF late
<1>14. Placed(slots, mTimers, DOMAIN mTimers, WheelClock)'
  BY <1>1, <1>9, <1>13 DEF D
<1>15. AtTick(at', at'[0])
  BY <1>1, <1>9, <1>10
<1>16. at'[0] =< mNow' /\ at'[0] > 0 /\ step' = (at'[0] - 1) % StepCount
  BY <1>1, <1>2, <1>10, <1>11 DEF T, st
<1>. QED  BY <1>1, <1>14, <1>15, <1>16 DEF WheelPlaces

LEMMA WheelLastSlot ==
  ASSUME WheelConstants, WheelInv, W!LastSlot
  PROVE  WheelPlaces'
<1>1. /\ pc = "loop" /\ pc' = "last" /\ at[0] + 1 > mNow /\ step' = W!Current(at, 0)[2]
      /\ UNCHANGED <<mNow, mTimers, at, slots>>
  BY DEF W!LastSlot
<1>2. at[0] \in Nat /\ mNow \in Nat /\ StepCount \in Nat \ {0} /\ at[0] =< mNow
  BY WheelFacts DEF WheelConstants, WheelInv, WheelPlaces
<1>3. at[0] = mNow
  BY <1>1, <1>2
<1>4. step' = at[0] % StepCount
  <2>1. W!StepInterval(0) = 1 /\ at[0] \div 1 = at[0]
    BY <1>2, IntervalFacts
  <2>. QED  BY <1>1, <2>1 DEF W!Current
<1>5. WheelClock' = WheelClock
  BY <1>1 DEF WheelClock, Clock, Covered, Prompt, W!StepInterval, W!StepIntervals
<1>6. Placed(slots, mTimers, DOMAIN mTimers, WheelClock)'
  BY <1>1, <1>5 DEF WheelInv, WheelPlaces
<1>. QED  BY <1>1, <1>3, <1>4, <1>6 DEF WheelInv, WheelPlaces

LEMMA WheelFire ==
  ASSUME WheelConstants, WheelInv, W!Fire
  PROVE  WheelPlaces'
<1>. DEFINE f == calling'
<1>1. /\ mTimers' = [mTimers EXCEPT ![f] = W!Queue!TimedOut(@)]
      /\ UNCHANGED <<at, pc, step, mNow, slots>>
  BY DEF W!Fire
<1>. HIDE DEF f
<1>2. ASSUME NEW t \in DOMAIN mTimers PROVE mTimers'[t].next = mTimers[t].next
  <2>1. mTimers[t] \in AnyQueue!Timers
    BY WheelFacts
  <2>2. W!Queue!TimedOut(mTimers[t]).next = mTimers[t].next
    BY <2>1 DEF W!Queue!TimedOut, AnyQueue!Timers
  <2>. QED  BY <1>1, <2>2
<1>3. DOMAIN mTimers' = DOMAIN mTimers
  BY <1>1
<1>4. Placed(slots, mTimers', DOMAIN mTimers, WheelClock)
  BY <1>2, PlacedSame DEF WheelInv, WheelPlaces
<1>. QED  BY <1>1, <1>3, <1>4, PlacesStand

\* A timer is in one of the lists.
LEMMA LiesSomewhere ==
  ASSUME WheelConstants, WheelInv, NEW t \in DOMAIN mTimers
  PROVE  \E p \in W!Places : Lies(WheelClock, p, mTimers[t].next)
<1>1. OnePlace(slots, DOMAIN mTimers) /\ AllLie(slots, mTimers, WheelClock)
  BY DEF WheelInv, WheelPlaces, Placed
<1>2. PICK p \in W!Places : \E i \in 1..Len(slots[p]) : slots[p][i] = t
  BY <1>1 DEF OnePlace
<1>. QED  BY <1>1, <1>2 DEF AllLie

\* In the slot that is called, and in any one if there is but one, no timer comes before
\* one that is put back late.
LEMMA BackInOrder ==
  ASSUME WheelConstants, WheelInv, NEW x \in Nat, x < at[0], ~Prompt,
         W!Home(at, x) = <<0, WheelClock.old>>,
         NEW p \in W!Places, p = <<0, WheelClock.old>>, NEW y \in Nat, Lies(WheelClock, p, y)
  PROVE  y =< WheelClock.late
<1>1. /\ at[0] \in Nat /\ mNow \in Nat /\ at[0] =< mNow /\ StepCount \in Nat \ {0}
      /\ ClocksOK(WheelClock) /\ WheelClock.at = at /\ WheelClock.late = mNow
      /\ WheelClock.old = (IF pc = "slot" THEN step ELSE -1)
      /\ pc = "slot" => at[0] > 0 /\ step = (at[0] - 1) % StepCount
  BY WheelFacts DEF WheelConstants, WheelInv, WheelPlaces
<1>. DEFINE o == WheelClock.old
<1>2. p = <<0, o>> /\ p[1] = 0 /\ p[2] = o
  OBVIOUS
<1>3. pc = "slot" /\ o = (at[0] - 1) % StepCount
  BY <1>1, NoSuchSlot
<1>4. FineIn0(at, o, x)
  <2>1. Fine(WheelClock, W!Home(at, x), x)
    BY <1>1, HomeIsFine DEF ClocksOK
  <2>. QED  BY <1>1, <1>2, <2>1 DEF Fine
<1>5. FineIn0(at, o, y) \/ y < at[0]
  BY <1>1, <1>2 DEF Lies, Fine
<1>. HIDE DEF o
<1>6. o = at[0] % StepCount
  BY <1>1, <1>4 DEF FineIn0
<1>7. StepCount = 1
  <2>1. at[0] - 1 \in Nat /\ at[0] - 1 =< at[0] /\ at[0] - (at[0] - 1) = 1
    BY <1>1, <1>3
  <2>2. at[0] % StepCount = (at[0] - 1) % StepCount
    BY <1>3, <1>6
  <2>3. StepCount > 1 => at[0] = at[0] - 1
    BY <1>1, <2>1, <2>2, SlotOnce
  <2>. QED  BY <1>1, <2>3
<1>8. y =< at[0]
  BY <1>1, <1>5, <1>7 DEF FineIn0
<1>. QED  BY <1>1, <1>8

LEMMA WheelReturn ==
  ASSUME WheelConstants, WheelInv, NEW ok \in BOOLEAN, W!Return(ok)
  PROVE  WheelPlaces'
<1>. DEFINE D == DOMAIN mTimers
            left == W!Leave(slots, calling)
<1>1. UNCHANGED <<at, pc, step, mNow>>
  BY DEF W!Return
<1>2. Placed(left, mTimers, D \ {calling}, WheelClock)
  BY PlacedLeft DEF WheelInv, WheelPlaces
<1>3. CASE W!Queue!Ends(ok)
  <2>1. slots' = left /\ DOMAIN mTimers' = D \ {calling} /\ \A u \in DOMAIN mTimers' : mTimers'[u] = mTimers[u]
    BY <1>3 DEF W!Return, W!Restrict
  <2>. HIDE DEF left
  <2>2. Placed(left, mTimers', D \ {calling}, WheelClock)
    BY <1>2, <2>1, PlacedSame
  <2>. QED  BY <1>1, <2>1, <2>2, PlacesStand
<1>4. CASE ~W!Queue!Ends(ok)
  <2>. DEFINE r == mTimers[calling]
              x == (IF r.fromNow THEN mNow ELSE r.next) + r.interval
  <2>1. /\ calling \in D /\ mTimers' = [mTimers EXCEPT ![calling] = W!Queue!NextTime(@)]
        /\ slots' = W!Put(left, at, calling, mTimers'[calling].next)
    BY <1>4 DEF W!Return, W!Queue!Ends
  <2>2. r \in AnyQueue!Timers /\ calling \in Nat
    BY <2>1, WheelFacts
  <2>3. /\ r.next \in Nat /\ r.interval \in Nat /\ r.interval \in Intervals /\ r.fromNow \in BOOLEAN
        /\ W!Queue!NextTime(r).next = x
    BY <2>2 DEF AnyQueue!Timers, W!Queue!NextTime, WheelConstants, TimerConstants
  <2>4. /\ DOMAIN mTimers' = D /\ mTimers'[calling].next = x
        /\ \A u \in D \ {calling} : mTimers'[u] = mTimers[u]
    BY <2>1, <2>3
  <2>5. /\ at[0] \in Nat /\ mNow \in Nat /\ at[0] =< mNow /\ StepCount \in Nat \ {0}
        /\ ClocksOK(WheelClock) /\ WheelClock.at = at /\ WheelClock.prompt = Prompt
    BY WheelFacts DEF WheelConstants, WheelInv, WheelPlaces
  <2>6. x \in Nat
    BY <2>3, <2>5
  <2>7. Prompt => x >= at[0]
    <3>1. SUFFICES ASSUME Prompt PROVE x >= at[0]
      OBVIOUS
    <3>2. r.interval >= 1
      <4>1. r.interval # 0
        BY <2>3, <3>1 DEF Prompt
      <4>. QED  BY <2>3, <4>1
    <3>3. PICK p \in W!Places : Lies(WheelClock, p, r.next)
      BY <2>1, LiesSomewhere
    <3>4. r.next >= at[0] \/ r.next = at[0] - 1
      BY <2>5, <3>1, <3>3 DEF Lies
    <3>. QED  BY <2>3, <2>5, <3>2, <3>4
  <2>8. Placed(left, mTimers', D \ {calling}, WheelClock)
    BY <1>2, <2>4, PlacedSame
  <2>. HIDE DEF left, x, D
  <2>9. \/ x >= WheelClock.at[0]
        \/ W!Home(WheelClock.at, x) # <<0, WheelClock.old>>
        \/ \A p \in W!Places : p = <<0, WheelClock.old>> =>
             \A i \in 1..Len(left[p]) : mTimers'[left[p][i]].next =< WheelClock.late
    <3>1. SUFFICES ASSUME ~(x >= at[0]), W!Home(at, x) = <<0, WheelClock.old>>,
                          NEW p \in W!Places, p = <<0, WheelClock.old>>, NEW i \in 1..Len(left[p])
                   PROVE  mTimers'[left[p][i]].next =< WheelClock.late
      BY <2>5
    <3>. DEFINE y == mTimers'[left[p][i]].next
    <3>2. Lies(WheelClock, p, y) /\ left[p][i] \in D \ {calling}
      BY <2>8 DEF Placed, AllLie, OnePlace
    <3>3. y \in Nat
      BY <2>4, <3>2, WheelFacts DEF D
    <3>. HIDE DEF y
    <3>4. x < at[0] /\ ~Prompt
      BY <2>5, <2>6, <2>7, <3>1
    <3>5. y =< WheelClock.late
      BY <2>6, <3>1, <3>2, <3>3, <3>4, BackInOrder
    <3>. QED  BY <3>5 DEF y
  <2>10. Placed(W!Put(left, WheelClock.at, calling, x), mTimers', (D \ {calling}) \cup {calling}, WheelClock)
    <3>1. calling \notin D \ {calling} /\ (WheelClock.prompt => x >= WheelClock.at[0])
      BY <2>5, <2>7
    <3>. QED  BY <2>2, <2>4, <2>5, <2>6, <2>8, <2>9, <3>1, PlacedPut
  <2>11. (D \ {calling}) \cup {calling} = DOMAIN mTimers'
    BY <2>1, <2>4
  <2>12. slots' = W!Put(left, WheelClock.at, calling, x)
    BY <2>1, <2>4, <2>5
  <2>. QED  BY <1>1, <2>10, <2>11, <2>12, PlacesStand
<1>. QED  BY <1>3, <1>4

\* A slot is left when its first timer is not due: then none is older than the clock.
LEMMA WheelSlotDone ==
  ASSUME WheelConstants, WheelInv, W!SlotDone
  PROVE  WheelPlaces'
<1>1. /\ pc \in {"slot", "last"} /\ calling = 0 /\ ~W!FrontDue
      /\ pc' = (IF pc = "last" THEN "idle" ELSE "loop")
      /\ UNCHANGED <<mNow, mTimers, at, slots>>
  BY DEF W!SlotDone
<1>2. /\ at[0] \in Nat /\ mNow \in Nat /\ at[0] =< mNow /\ StepCount \in Nat \ {0}
      /\ WheelClock.at = at /\ WheelClock.over = Covered(at) /\ WheelClock.prompt = Prompt
      /\ WheelClock.late = (IF Prompt THEN at[0] - 1 ELSE mNow)
      /\ WheelClock.old = (IF pc = "slot" THEN step ELSE -1)
  BY WheelFacts DEF WheelConstants, WheelInv, WheelPlaces
<1>3. OnePlace(slots, DOMAIN mTimers) /\ AllLie(slots, mTimers, WheelClock) /\ InOrder(slots, mTimers, WheelClock)
  BY DEF WheelInv, WheelPlaces, Placed
<1>. DEFINE c == Clock(at, Covered(at), -1, IF Prompt THEN at[0] - 1 ELSE mNow, Prompt)
<1>4. WheelClock' = c
  BY <1>1 DEF WheelClock, Clock, Covered, Prompt, W!StepInterval, W!StepIntervals
<1>5. /\ c.at = at /\ c.over = Covered(at) /\ c.old = -1 /\ c.prompt = Prompt
  BY DEF Clock
<1>. HIDE DEF c
<1>6. ASSUME NEW p \in W!Places, NEW i \in 1..Len(slots[p]), p = <<0, WheelClock.old>>
      PROVE  mTimers[slots[p][i]].next >= at[0]
  <2>. DEFINE x == mTimers[slots[p][i]].next
              h == slots[p][1]
  <2>1. pc = "slot" /\ p = <<0, step>>
    BY <1>1, <1>2, <1>6, NoSuchSlot
  <2>2. slots[p] \in Seq(Nat) /\ 1 \in 1..Len(slots[p])
    BY <1>3, <1>6 DEF OnePlace
  <2>3. h \in DOMAIN mTimers /\ slots[p][i] \in DOMAIN mTimers
    BY <1>3, <1>6, <2>2 DEF OnePlace
  <2>4. mTimers[h].next \in Nat /\ mTimers[h].left # 0 /\ x \in Nat
    <3>1. h # calling
      BY <1>1, <2>3, WheelFacts
    <3>. QED  BY <2>3, <3>1, WheelFacts
  <2>5. mTimers[h].next > mNow
    <3>1. W!Slotted = slots[p] /\ Head(slots[p]) = h /\ slots[p] # <<>>
      BY <2>1, <2>2 DEF W!Slotted
    <3>2. ~(mTimers[h].next =< mNow)
      BY <1>1, <2>4, <3>1 DEF W!FrontDue
    <3>. QED  BY <1>2, <2>4, <3>2
  <2>6. CASE i = 1
    BY <1>2, <2>4, <2>5, <2>6
  <2>7. CASE i # 1
    <3>1. 1 < i
      BY <1>6, <2>2, <2>7
    <3>. HIDE DEF x, h
    <3>2. x < at[0] => mTimers[h].next =< WheelClock.late
      BY <1>2, <1>3, <1>6, <2>2, <3>1 DEF InOrder, x, h
    <3>3. WheelClock.late =< mNow /\ WheelClock.late \in Int
      BY <1>2
    <3>. QED  BY <1>2, <2>4, <2>5, <3>2, <3>3 DEF x
  <2>. QED  BY <2>6, <2>7
<1>7. AllLie(slots, mTimers, c)
  <2>1. SUFFICES ASSUME NEW p \in W!Places, NEW i \in 1..Len(slots[p])
                 PROVE  Lies(c, p, mTimers[slots[p][i]].next)
    BY DEF AllLie
  <2>. DEFINE x == mTimers[slots[p][i]].next
  <2>2. Lies(WheelClock, p, x)
    BY <1>3 DEF AllLie
  <2>3. x \in Nat
    BY <1>3, WheelFacts DEF OnePlace
  <2>4. p = <<0, WheelClock.old>> => x >= at[0]
    BY <1>6
  <2>. HIDE DEF x
  <2>5. Fine(WheelClock, p, x) /\ (Prompt => x >= at[0])
    BY <1>2, <2>2, <2>3, <2>4 DEF Lies
  <2>6. Fine(c, p, x)
    BY <1>2, <1>5, <2>5 DEF Fine
  <2>. QED  BY <1>5, <2>5, <2>6 DEF Lies, x
<1>8. InOrder(slots, mTimers, c)
  BY <1>2, <1>5, NoSuchSlot DEF InOrder
<1>9. Placed(slots, mTimers, DOMAIN mTimers, WheelClock)'
  BY <1>1, <1>3, <1>4, <1>7, <1>8 DEF Placed
<1>. QED  BY <1>1, <1>9 DEF WheelInv, WheelPlaces

LEMMA WheelPlacesStep ==
  ASSUME WheelConstants, WheelInv, W!Next
  PROVE  WheelPlaces'
<1>1. CASE W!Tick
  BY <1>1, WheelTick
<1>2. CASE W!LastSlot
  BY <1>2, WheelLastSlot
<1>3. CASE W!Fire
  BY <1>3, WheelFire
<1>4. ASSUME NEW ok \in BOOLEAN, W!Return(ok) PROVE WheelPlaces'
  BY <1>4, WheelReturn
<1>5. CASE W!SlotDone
  BY <1>5, WheelSlotDone
<1>6. CASE W!Clear
  BY <1>6, WheelClear
<1>7. CASE W!Reset
  BY <1>7, WheelReset
<1>8. ASSUME NEW s \in Starts, NEW i \in Intervals, NEW n \in Times, NEW b \in BOOLEAN, W!Add(s, i, n, b)
      PROVE  WheelPlaces'
  BY <1>8, WheelAdd
<1>9. ASSUME NEW t \in 1..MaxTimers, W!RemoveTimer(t) PROVE WheelPlaces'
  BY <1>9, WheelRemove
<1>10. ASSUME NEW d \in Deltas, W!Update(d) PROVE WheelPlaces'
  BY <1>10, WheelUpdate
<1>. QED
  BY <1>1, <1>2, <1>3, <1>4, <1>5, <1>6, <1>7, <1>8, <1>9, <1>10 DEF W!Next, W!Run

\* When update() has called the last slot nothing is due: the slot is empty, and what
\* lies elsewhere is ahead of the clock.
LEMMA NoneDue ==
  ASSUME WheelConstants, WheelInv, pc = "last", calling = 0, ~W!FrontDue
  PROVE  W!Queue!Due = {}
<1>1. /\ at[0] \in Nat /\ mNow = at[0] /\ step = at[0] % StepCount /\ StepCount \in Nat \ {0}
      /\ at \in [0..3 -> Nat] /\ WheelClock.at = at /\ WheelClock.over = Covered(at)
      /\ WheelClock.old = -1
      /\ AtTick(at, at[0])
  BY WheelFacts DEF WheelConstants, WheelInv, WheelPlaces
<1>2. OnePlace(slots, DOMAIN mTimers) /\ AllLie(slots, mTimers, WheelClock)
  BY DEF WheelInv, WheelPlaces, Placed
<1>3. ASSUME NEW t \in DOMAIN mTimers, mTimers[t].next =< mNow
      PROVE  FALSE
  <2>. DEFINE x == mTimers[t].next
  <2>1. x \in Nat /\ x =< at[0]
    BY <1>1, <1>3, WheelFacts
  <2>2. PICK p \in W!Places : \E i \in 1..Len(slots[p]) : slots[p][i] = t
    BY <1>2 DEF OnePlace
  <2>3. PICK i \in 1..Len(slots[p]) : slots[p][i] = t
    BY <2>2
  <2>4. Lies(WheelClock, p, x)
    BY <1>2, <2>3 DEF AllLie
  <2>. HIDE DEF x
  <2>5. Fine(WheelClock, p, x)
    BY <1>1, <2>4, NoSuchSlot DEF Lies
  <2>6. CASE p[1] = 0
    <3>1. FineIn0(at, p[2], x)
      BY <1>1, <2>5, <2>6 DEF Fine
    <3>2. p[2] = at[0] % StepCount
      <4>1. at[0] =< x => x = at[0]
        BY <1>1, <2>1
      <4>. QED  BY <3>1, <4>1 DEF FineIn0
    <3>3. p = <<0, step>>
      BY <1>1, <2>6, <3>2, PlaceFacts
    <3>4. slots[p] \in Seq(Nat) /\ 1 \in 1..Len(slots[p])
      BY <1>2, <2>3 DEF OnePlace
    <3>. DEFINE h == slots[p][1]
    <3>5. h \in DOMAIN mTimers /\ Lies(WheelClock, p, mTimers[h].next)
      BY <1>2, <3>4 DEF OnePlace, AllLie
    <3>6. mTimers[h].next \in Nat /\ mTimers[h].left # 0
      <4>1. h # calling
        BY <3>5, WheelFacts
      <4>. QED  BY <3>5, <4>1, WheelFacts
    <3>7. W!Slotted = slots[p] /\ Head(slots[p]) = h /\ slots[p] # <<>>
      BY <3>3, <3>4 DEF W!Slotted
    <3>8. ~(mTimers[h].next =< mNow)
      BY <3>6, <3>7 DEF W!FrontDue
    <3>. DEFINE y == mTimers[h].next
    <3>9. y \in Nat /\ Lies(WheelClock, p, y) /\ y > at[0]
      BY <1>1, <3>5, <3>6, <3>8
    <3>. HIDE DEF y
    <3>10. FineIn0(at, p[2], y)
      <4>1. Fine(WheelClock, p, y)
        BY <1>1, <3>9, NoSuchSlot DEF Lies
      <4>. QED  BY <1>1, <2>6, <4>1 DEF Fine
    <3>11. y - at[0] < StepCount /\ y % StepCount = at[0] % StepCount
      BY <1>1, <3>2, <3>9, <3>10 DEF FineIn0
    <3>12. y = at[0]
      BY <1>1, <3>9, <3>11, SlotOnce
    <3>. QED  BY <1>1, <3>9, <3>12
  <2>7. CASE p[1] # 0
    <3>. DEFINE j == p[1]
    <3>1. j \in 1..4
      BY <2>7, PlaceFacts
    <3>. HIDE DEF j
    <3>. DEFINE I == W!StepInterval(j)
    <3>2. I \in Nat \ {0}
      <4>1. j \in 0..4
        BY <3>1
      <4>. QED  BY <1>1, <4>1, IntervalFacts
    <3>3. x \div I =< at[0] \div I /\ x \div I \in Nat /\ at[0] \div I \in Nat
      <4>. HIDE DEF I
      <4>. QED  BY <1>1, <2>1, <3>2, DivMonotone, DivFacts
    <3>4. CASE j = 4
      <4>1. Covered(at) < x \div I
        BY <1>1, <2>5, <3>4 DEF Fine, FineOver, j
      <4>2. Covered(at) = at[0] \div I
        BY <1>1, <3>4, AtTickDiv
      <4>. HIDE DEF I
      <4>. QED  BY <3>3, <4>1, <4>2
    <3>5. CASE j \in 1..3
      <4>1. 0 < x \div I - at[j] \div I
        BY <1>1, <2>5, <3>5 DEF Fine, FineIn, Ahead, j
      <4>2. at[j] \div I = at[0] \div I
        <5>1. j \in 0..3
          BY <3>5
        <5>. QED  BY <1>1, <5>1, AtTickDiv
      <4>. HIDE DEF I
      <4>. QED  BY <3>3, <4>1, <4>2
    <3>. QED  BY <3>1, <3>4, <3>5
  <2>. QED  BY <2>6, <2>7
<1>. QED  BY <1>3 DEF W!Queue!Due

\* The timer that is called is the first of a slot of wheel 0.
LEMMA SlotIsPlace ==
  ASSUME WheelConstants, WheelInv, pc \in {"slot", "last"}, W!Slotted # <<>>
  PROVE  LET p == <<0, step>>
         IN  /\ p \in W!Places /\ slots[p] \in Seq(Nat) /\ 1 \in 1..Len(slots[p])
             /\ Head(W!Slotted) = slots[p][1] /\ Head(W!Slotted) \in DOMAIN mTimers
<1>1. <<0, step>> \in W!Places
  <2>1. at[0] \in Nat /\ StepCount \in Nat \ {0}
    BY WheelFacts DEF WheelConstants
  <2>2. step = at[0] % StepCount \/ (at[0] > 0 /\ step = (at[0] - 1) % StepCount)
    BY DEF WheelInv, WheelPlaces
  <2>3. \A n \in Nat : n % StepCount \in 0..(StepCount - 1)
    BY <2>1
  <2>4. at[0] > 0 => at[0] - 1 \in Nat
    BY <2>1
  <2>5. step \in 0..(StepCount - 1)
    BY <2>1, <2>2, <2>3, <2>4
  <2>. QED  BY <2>5, PlaceFacts
<1>2. OnePlace(slots, DOMAIN mTimers)
  BY DEF WheelInv, WheelPlaces, Placed
<1>3. slots[<<0, step>>] \in Seq(Nat) /\ slots[<<0, step>>] # <<>>
  BY <1>1, <1>2 DEF OnePlace, W!Slotted
<1>4. 1 \in 1..Len(slots[<<0, step>>]) /\ Head(W!Slotted) = slots[<<0, step>>][1]
  BY <1>3 DEF W!Slotted
<1>5. Head(W!Slotted) \in DOMAIN mTimers
  BY <1>1, <1>2, <1>4 DEF OnePlace
<1>. QED  BY <1>1, <1>3, <1>4, <1>5

\* Every step of the wheels is one of the queue, or none.
LEMMA WheelStepIsQueueStep ==
  ASSUME WheelConstants, WheelInv, W!Next
  PROVE  [W!Queue!Next]_(W!Queue!vars)
<1>1. CASE W!Tick
  <2>1. UNCHANGED W!Queue!vars
    BY <1>1 DEF W!Tick, W!Queue!vars
  <2>. QED  BY <2>1
<1>2. CASE W!LastSlot
  <2>1. UNCHANGED W!Queue!vars
    BY <1>2 DEF W!LastSlot, W!Queue!vars
  <2>. QED  BY <2>1
<1>3. CASE W!Fire
  <2>. DEFINE f == Head(W!Slotted)
  <2>1. /\ pc \in {"slot", "last"} /\ pc' = pc /\ calling = 0 /\ calling' = f
        /\ W!Slotted # <<>> /\ mTimers[f].next =< mNow
        /\ mTimers' = [mTimers EXCEPT ![calling'] = W!Queue!TimedOut(@)]
        /\ UNCHANGED <<mNow, lastID, cleared>>
    BY <1>3 DEF W!Fire, W!FrontDue
  <2>2. f \in DOMAIN mTimers
    BY <2>1, SlotIsPlace
  <2>. HIDE DEF f
  <2>3. f \in 1..MaxTimers
    <3>1. MaxTimers \in Nat
      BY DEF WheelConstants, TimerConstants
    <3>. QED  BY <2>2, <3>1, WheelFacts
  <2>4. W!Queue!Fire(f)
    BY <2>1, <2>2 DEF W!Queue!Fire, W!Queue!Due
  <2>. QED  BY <2>3, <2>4 DEF W!Queue!Next, W!Queue!Run
<1>4. ASSUME NEW ok \in BOOLEAN, W!Return(ok) PROVE W!Queue!Return(ok)
  BY <1>4 DEF W!Return, W!Queue!Return, W!Restrict, W!Queue!Restrict
<1>5. CASE W!SlotDone
  <2>1. /\ pc \in {"slot", "last"} /\ calling = 0 /\ ~W!FrontDue
        /\ pc' = (IF pc = "last" THEN "idle" ELSE "loop")
        /\ UNCHANGED <<mNow, mTimers, lastID, calling, cleared>>
    BY <1>5 DEF W!SlotDone
  <2>2. CASE pc = "last"
    <3>1. W!Queue!Due = {}
      BY <2>1, <2>2, NoneDue
    <3>2. W!Queue!Done
      BY <2>1, <2>2, <3>1 DEF W!Queue!Done
    <3>. QED  BY <3>2 DEF W!Queue!Next, W!Queue!Run
  <2>3. CASE pc = "slot"
    <3>1. UNCHANGED W!Queue!vars
      BY <2>1, <2>3 DEF W!Queue!vars
    <3>. QED  BY <3>1
  <2>. QED  BY <2>1, <2>2, <2>3
<1>6. CASE W!Clear
  <2>1. W!Queue!Clear
    BY <1>6 DEF W!Clear, W!Queue!Clear
  <2>. QED  BY <2>1 DEF W!Queue!Next
<1>7. CASE W!Reset
  <2>1. W!Queue!Reset
    BY <1>7 DEF W!Reset, W!Queue!Reset
  <2>. QED  BY <2>1 DEF W!Queue!Next
<1>8. ASSUME NEW s \in Starts, NEW i \in Intervals, NEW n \in Times, NEW b \in BOOLEAN, W!Add(s, i, n, b)
      PROVE  W!Queue!Add(s, i, n, b)
  BY <1>8 DEF W!Add, W!Queue!Add
<1>9. ASSUME NEW t \in 1..MaxTimers, W!RemoveTimer(t) PROVE W!Queue!Remove(t)
  BY <1>9 DEF W!RemoveTimer, W!Queue!Remove, W!Restrict, W!Queue!Restrict
<1>10. ASSUME NEW d \in Deltas, W!Update(d) PROVE W!Queue!Update(d)
  <2>1. /\ pc = "idle" /\ pc' = "loop"
    BY <1>10 DEF W!Update
  <2>. QED  BY <1>10, <2>1 DEF W!Update, W!Queue!Update
<1>. QED
  BY <1>1, <1>2, <1>3, <1>4, <1>5, <1>6, <1>7, <1>8, <1>9, <1>10
     DEF W!Next, W!Run, W!Queue!Next, W!Queue!Run

\* The invariant of the wheels, and that they step as the queue does.
LEMMA WheelStep ==
  ASSUME WheelConstants, WheelInv, W!Next, UNCHANGED updating
  PROVE  WheelInv' /\ [AnyQueue!Next]_(AnyQueue!vars)
<1>1. WheelPlaces'
  BY WheelPlacesStep
<1>2. [W!Queue!Next]_(W!Queue!vars)
  BY WheelStepIsQueueStep
<1>3. updating = FALSE /\ updating' = FALSE
  BY DEF WheelInv
<1>4. [AnyQueue!Next]_(AnyQueue!vars)
  BY <1>2, <1>3, WheelIsQueue
<1>5. AnyQueue!TypeOK'
  BY <1>4, QueueTypeStep DEF WheelInv, WheelConstants
<1>. QED  BY <1>1, <1>3, <1>4, <1>5 DEF WheelInv

LEMMA WheelStands ==
  ASSUME WheelConstants, WheelInv, UNCHANGED <<vars, wheelVars>>
  PROVE  WheelInv'
<1>1. /\ UNCHANGED <<mNow, mTimers, lastID, calling, cleared, updating>>
      /\ UNCHANGED <<at, slots, pc, step>>
  BY DEF vars, wheelVars
<1>2. AnyQueue!TypeOK'
  BY <1>1 DEF WheelInv, AnyQueue!TypeOK, AnyQueue!Timers
<1>3. Placed(slots', mTimers', DOMAIN mTimers', WheelClock)
  BY <1>1 DEF WheelInv, WheelPlaces
<1>. QED  BY <1>1, <1>2, <1>3, PlacesStand DEF WheelInv

LEMMA WheelStart ==
  ASSUME WheelConstants, Init, W!Init
  PROVE  WheelInv
<1>1. /\ mNow = 0 /\ mTimers = <<>> /\ lastID = 0 /\ calling = 0 /\ cleared = FALSE /\ updating = FALSE
      /\ at = [i \in 0..3 |-> 0] /\ slots = W!Empty /\ pc = "idle" /\ step = 0
  BY DEF Init, Queue!Init, W!Init, W!Wheels
<1>2. DOMAIN mTimers = {} /\ at[0] = 0
  BY <1>1
<1>3. AnyQueue!TypeOK
  <2>1. MaxTimers \in Nat /\ MaxNow \in Nat
    BY DEF WheelConstants, TimerConstants
  <2>2. /\ (updating \/ pc # "idle") = FALSE
        /\ mNow \in 0..MaxNow /\ lastID \in 0..MaxTimers /\ calling \in 0..lastID
    BY <1>1, <2>1
  <2>. QED  BY <1>1, <1>2, <2>2 DEF AnyQueue!TypeOK
<1>4. Placed(slots, mTimers, DOMAIN mTimers, WheelClock)
  BY <1>1, <1>2, PlacedNothing
<1>5. AtTick(at, at[0])
  BY <1>1, <1>2, AtStart DEF WheelConstants
<1>. QED  BY <1>1, <1>2, <1>3, <1>4, <1>5 DEF WheelInv, WheelPlaces

-----------------------------------------------------------------------------
(* What the invariant says of the places.                                  *)

\* A wheel looks at a slot once in a turn.
LEMMA ReachedIs ==
  ASSUME StepCount \in Nat \ {0}, NEW q \in Nat, NEW x \in Nat, q =< x, x - q < StepCount
  PROVE  (CHOOSE y \in q..(q + StepCount - 1) : y % StepCount = x % StepCount) = x
<1>. DEFINE S == StepCount
            R(y) == y \in q..(q + S - 1) /\ y % S = x % S
<1>1. R(x)
  OBVIOUS
<1>2. ASSUME NEW y, R(y) PROVE y = x
  <2>1. y \in Nat /\ q =< y /\ y < q + S /\ y % S = x % S
    BY <1>2
  <2>. HIDE DEF R, S
  <2>2. CASE y =< x
    <3>1. x - y < S /\ S \in Nat \ {0}
      BY <2>1, <2>2 DEF S
    <3>. QED  BY <2>1, <2>2, <3>1, SlotOnce
  <2>3. CASE x =< y
    <3>1. y - x < S /\ S \in Nat \ {0}
      BY <2>1, <2>3 DEF S
    <3>. QED  BY <2>1, <2>3, <3>1, SlotOnce
  <2>. QED  BY <2>1, <2>2, <2>3
<1>3. (CHOOSE y \in q..(q + S - 1) : y % S = x % S) = (CHOOSE y : R(y))
  OBVIOUS
<1>. HIDE DEF R
<1>4. (CHOOSE y : R(y)) = x
  BY <1>1, <1>2
<1>. QED  BY <1>3, <1>4

\* A timer of a wheel is due when its slot is reached, or is past.
LEMMA SlotInTime ==
  ASSUME WheelConstants, WheelInv, NEW i \in 0..3, NEW k, NEW x \in Nat,
         Lies(WheelClock, <<i, k>>, x)
  PROVE  LET begin == W!Reached(i, k) * W!StepInterval(i)
         IN  \/ i = 0 /\ x =< mNow
             \/ begin =< x /\ x < begin + W!StepInterval(i)
<1>1. /\ at \in [0..3 -> Nat] /\ at[0] \in Nat /\ mNow \in Nat /\ at[0] =< mNow
      /\ StepCount \in Nat \ {0} /\ WheelClock.at = at
  BY WheelFacts DEF WheelConstants, WheelInv, WheelPlaces
<1>. DEFINE I == W!StepInterval(i)
            q == at[i] \div I
<1>2. I \in Nat \ {0} /\ (i = 0 => I = 1) /\ at[i] \in Nat
  <2>1. i \in 0..4
    OBVIOUS
  <2>. QED  BY <1>1, <2>1, IntervalFacts
<1>3. W!Reached(i, k) = CHOOSE y \in q..(q + StepCount - 1) : y % StepCount = k
  BY DEF W!Reached
<1>. DEFINE p == <<i, k>>
<1>4. p[1] = i /\ p[2] = k
  OBVIOUS
<1>5. Fine(WheelClock, p, x) \/ (i = 0 /\ x < at[0])
  BY <1>1 DEF Lies
<1>. HIDE DEF p, I
<1>6. q \in Nat
  BY <1>2, DivFacts
<1>. HIDE DEF q
<1>7. CASE i = 0 /\ x =< at[0]
  BY <1>1, <1>7
<1>8. CASE i = 0 /\ ~(x =< at[0])
  <2>1. FineIn0(at, k, x)
    BY <1>1, <1>4, <1>5, <1>8 DEF Fine
  <2>2. at[0] =< x /\ x - at[0] < StepCount /\ k = x % StepCount
    BY <1>1, <1>8, <2>1 DEF FineIn0
  <2>3. q = at[0]
    BY <1>1, <1>2, <1>8 DEF q
  <2>4. W!Reached(i, k) = x
    BY <1>1, <1>3, <2>2, <2>3, ReachedIs
  <2>. QED  BY <1>2, <1>8, <2>4 DEF I
<1>9. CASE i # 0
  <2>. DEFINE b == x \div I
  <2>1. i \in 1..3
    BY <1>9
  <2>2. FineIn(at, i, k, x)
    BY <1>1, <1>4, <1>5, <1>9, <2>1 DEF Fine
  <2>3. b \in Nat /\ I * b =< x /\ x < I * b + I
    BY <1>2, DivFacts
  <2>4. 0 < b - q /\ b - q < StepCount /\ k = b % StepCount
    BY <2>2 DEF FineIn, Ahead, I, q
  <2>. HIDE DEF b
  <2>5. q =< b
    BY <1>6, <2>3, <2>4
  <2>6. W!Reached(i, k) = b
    BY <1>1, <1>3, <1>6, <2>3, <2>4, <2>5, ReachedIs
  <2>7. b * I = I * b
    BY <1>2, <2>3
  <2>. QED  BY <2>3, <2>6, <2>7 DEF I
<1>. QED  BY <1>7, <1>8, <1>9

LEMMA WheelInPlace ==
  ASSUME WheelConstants, WheelInv
  PROVE  W!InPlace
<1>1. OnePlace(slots, DOMAIN mTimers) /\ AllLie(slots, mTimers, WheelClock)
  BY DEF WheelInv, WheelPlaces, Placed
<1>2. ASSUME NEW p \in W!Places
      PROVE  slots[p] \in Seq(Nat) /\ W!ToSet(slots[p]) = {slots[p][i] : i \in 1..Len(slots[p])}
  <2>1. slots[p] \in Seq(Nat)
    BY <1>1 DEF OnePlace
  <2>. QED  BY <2>1 DEF W!ToSet
<1>3. ASSUME NEW p \in W!Places PROVE W!IsInjective(slots[p])
  <2>1. slots[p] \in Seq(Nat) /\ DOMAIN slots[p] = 1..Len(slots[p])
    BY <1>2
  <2>2. \A i, j \in 1..Len(slots[p]) : slots[p][i] = slots[p][j] => i = j
    BY <1>1 DEF OnePlace
  <2>. QED  BY <2>1, <2>2 DEF W!IsInjective
<1>4. ASSUME NEW t \in 1..MaxTimers
      PROVE  LET in == {p \in W!Places : t \in W!ToSet(slots[p])}
             IN  IF t \in DOMAIN mTimers THEN \E p \in W!Places : in = {p} ELSE in = {}
  <2>. DEFINE in == {p \in W!Places : t \in W!ToSet(slots[p])}
  <2>1. \A p \in W!Places : p \in in <=> \E i \in 1..Len(slots[p]) : slots[p][i] = t
    BY <1>2
  <2>4. in \subseteq W!Places
    OBVIOUS
  <2>. HIDE DEF in
  <2>2. CASE t \in DOMAIN mTimers
    <3>1. PICK p \in W!Places : \E i \in 1..Len(slots[p]) : slots[p][i] = t
      BY <1>1, <2>2 DEF OnePlace
    <3>4. PICK i \in 1..Len(slots[p]) : slots[p][i] = t
      BY <3>1
    <3>2. ASSUME NEW r \in in PROVE r = p
      <4>1. r \in W!Places
        BY <2>4
      <4>2. PICK j \in 1..Len(slots[r]) : slots[r][j] = t
        BY <2>1, <4>1
      <4>. QED  BY <1>1, <3>4, <4>1, <4>2 DEF OnePlace
    <3>3. in = {p}
      BY <2>1, <2>4, <3>1, <3>2
    <3>. QED  BY <2>2, <3>3 DEF in
  <2>3. CASE t \notin DOMAIN mTimers
    <3>1. ASSUME NEW p \in W!Places, p \in in PROVE FALSE
      <4>1. PICK j \in 1..Len(slots[p]) : slots[p][j] = t
        BY <2>1, <3>1
      <4>. QED  BY <1>1, <2>3, <4>1 DEF OnePlace
    <3>. QED  BY <2>3, <2>4, <3>1 DEF in
  <2>. QED  BY <2>2, <2>3 DEF in
\* Every entry is of a timer that lies there.
<1>5. ASSUME NEW p \in W!Places, NEW t \in W!ToSet(slots[p])
      PROVE  mTimers[t].next \in Nat /\ Lies(WheelClock, p, mTimers[t].next)
  <2>1. PICK i \in 1..Len(slots[p]) : slots[p][i] = t
    BY <1>2, <1>5
  <2>2. t \in DOMAIN mTimers
    BY <1>1, <2>1 DEF OnePlace
  <2>. QED  BY <1>1, <2>1, <2>2, WheelFacts DEF AllLie
<1>6. ASSUME NEW t \in W!ToSet(slots[W!Over]) PROVE mTimers[t].next >= W!OverflowAt
  <2>. DEFINE x == mTimers[t].next
              I == W!StepInterval(4)
              q == at[3] \div I
  <2>1. W!Over \in W!Places /\ W!Over = <<4, 0>>
    BY DEF W!Places, W!Over
  <2>2. x \in Nat /\ Lies(WheelClock, <<4, 0>>, x)
    BY <1>5, <2>1
  <2>3. I \in Nat \ {0} /\ at[3] \in Nat /\ WheelClock.over = Covered(at)
    BY WheelFacts, IntervalFacts DEF WheelConstants
  <2>. HIDE DEF x
  <2>4. Covered(at) < x \div I
    <3>. DEFINE r == <<4, 0>>
    <3>1. r[1] = 4 /\ r # <<0, WheelClock.old>> /\ Lies(WheelClock, r, x)
      BY <2>2
    <3>. HIDE DEF r
    <3>2. Fine(WheelClock, r, x)
      BY <3>1 DEF Lies
    <3>. QED  BY <2>3, <3>1, <3>2 DEF Fine, FineOver
  <2>5. q < x \div I /\ W!OverflowAt = (q + 1) * I
    BY <2>4 DEF Covered, W!OverflowAt
  <2>. HIDE DEF I
  <2>6. q \in Nat /\ x \div I \in Nat
    BY <2>2, <2>3, DivFacts
  <2>. HIDE DEF q
  <2>7. q + 1 =< x \div I /\ q + 1 \in Nat
    <3>. DEFINE d == x \div I
    <3>. HIDE DEF d
    <3>. QED  BY <2>5, <2>6 DEF d
  <2>8. I * (q + 1) =< x
    BY <2>2, <2>3, <2>7, DivOrder
  <2>9. (q + 1) * I = I * (q + 1) /\ I * (q + 1) \in Nat
    BY <2>3, <2>7
  <2>. QED  BY <2>2, <2>5, <2>8, <2>9 DEF x
<1>7. ASSUME NEW i \in W!Wheels, NEW k \in W!Slots, NEW t \in W!ToSet(slots[<<i, k>>]) \ {calling}
      PROVE  LET begin == W!Reached(i, k) * W!StepInterval(i)
             IN  \/ i = 0 /\ mTimers[t].next =< mNow
                 \/ begin =< mTimers[t].next /\ mTimers[t].next < begin + W!StepInterval(i)
  <2>1. <<i, k>> \in W!Places /\ i \in 0..3
    BY DEF W!Places, W!Wheels
  <2>2. mTimers[t].next \in Nat /\ Lies(WheelClock, <<i, k>>, mTimers[t].next)
    BY <1>5, <2>1
  <2>. QED  BY <2>1, <2>2, SlotInTime
<1>. QED  BY <1>3, <1>4, <1>6, <1>7 DEF W!InPlace

\* With intervals that are not zero, what is called first may come after a timer that
\* lies elsewhere, but by less than the wheel's size.
LEMMA WheelDisorder ==
  ASSUME WheelConstants, Prompt, WheelInv, W!Fire, NEW t \in DOMAIN mTimers
  PROVE  mTimers[calling'].next < mTimers[t].next + StepCount
<1>. DEFINE p == <<0, step>>
            x == mTimers[calling'].next
            y == mTimers[t].next
<1>1. pc \in {"slot", "last"} /\ calling' = Head(W!Slotted) /\ W!Slotted # <<>> /\ x =< mNow
  BY DEF W!Fire, W!FrontDue
<1>2. /\ p \in W!Places /\ slots[p] \in Seq(Nat) /\ 1 \in 1..Len(slots[p])
      /\ calling' = slots[p][1] /\ calling' \in DOMAIN mTimers
  BY <1>1, SlotIsPlace
<1>3. /\ at[0] \in Nat /\ mNow \in Nat /\ StepCount \in Nat \ {0} /\ x \in Nat /\ y \in Nat
      /\ WheelClock.at = at /\ WheelClock.prompt /\ WheelClock.late = at[0] - 1
      /\ WheelClock.old = (IF pc = "slot" THEN step ELSE -1)
      /\ pc = "last" => at[0] = mNow
  BY <1>2, WheelFacts DEF WheelConstants, WheelInv, WheelPlaces
<1>4. /\ OnePlace(slots, DOMAIN mTimers) /\ AllLie(slots, mTimers, WheelClock)
      /\ InOrder(slots, mTimers, WheelClock)
  BY DEF WheelInv, WheelPlaces, Placed
<1>5. Lies(WheelClock, p, x)
  BY <1>2, <1>4 DEF AllLie
<1>6. p[1] = 0 /\ p[2] = step
  OBVIOUS
<1>7. PICK r \in W!Places : \E i \in 1..Len(slots[r]) : slots[r][i] = t
  BY <1>4 DEF OnePlace
<1>8. PICK j \in 1..Len(slots[r]) : slots[r][j] = t
  BY <1>7
<1>9. Lies(WheelClock, r, y)
  BY <1>4, <1>8 DEF AllLie
<1>10. y >= at[0] \/ (r = <<0, WheelClock.old>> /\ y = at[0] - 1)
  BY <1>3, <1>9 DEF Lies
<1>. HIDE DEF x, y, p
<1>11. CASE x < at[0]
  <2>1. x = at[0] - 1
    BY <1>3, <1>5, <1>11 DEF Lies
  <2>. QED  BY <1>3, <1>10, <2>1 DEF x, y
<1>12. CASE x >= at[0]
  <2>1. FineIn0(at, step, x)
    BY <1>3, <1>5, <1>6, <1>12 DEF Lies, Fine
  <2>2. x - at[0] < StepCount
    BY <1>3, <1>12, <2>1 DEF FineIn0
  <2>3. CASE y >= at[0]
    BY <1>3, <2>2, <2>3 DEF x, y
  <2>4. CASE r = <<0, WheelClock.old>> /\ y = at[0] - 1
    <3>1. pc = "slot"
      BY <1>3, <1>7, <2>4, NoSuchSlot
    <3>2. r = p
      BY <1>3, <2>4, <3>1 DEF p
    <3>3. CASE j = 1
      <4>1. x = y
        BY <1>2, <1>8, <3>2, <3>3 DEF x, y
      <4>. QED  BY <1>3, <1>12, <2>4, <4>1
    <3>4. CASE j # 1
      <4>1. 1 < j /\ j \in 1..Len(slots[p])
        BY <1>2, <1>8, <3>2, <3>4
      <4>2. mTimers[slots[p][j]].next < at[0]
        BY <1>3, <1>8, <2>4, <3>2 DEF y
      <4>3. x =< at[0] - 1
        BY <1>2, <1>3, <1>4, <2>4, <3>2, <4>1, <4>2 DEF InOrder, x
      <4>. QED  BY <1>3, <1>12, <4>3
    <3>. QED  BY <3>3, <3>4
  <2>. QED  BY <1>10, <2>3, <2>4
<1>. QED  BY <1>3, <1>11, <1>12

-----------------------------------------------------------------------------
(* The queues of timers in a behaviour of the library.                     *)

TimersInv ==
  /\ runs = "tree" => pc = "idle" /\ SortInv
  /\ runs = "wheel" => WheelInv

LEMMA TimersStep ==
  ASSUME WheelConstants, TimersInv, [CoreNext]_coreVars
  PROVE  TimersInv' /\ [AnyQueue!Next]_(AnyQueue!vars)
<1>1. CASE RunsTree
  <2>1. runs = "tree" /\ runs' = "tree" /\ pc = "idle" /\ pc' = "idle" /\ SortInv /\ Next
    BY <1>1 DEF RunsTree, TimersInv, wheelVars
  <2>2. SortInv' /\ [AnyQueue!Next]_(AnyQueue!vars)
    BY <2>1, NextSortInv DEF WheelConstants
  <2>. QED  BY <2>1, <2>2 DEF TimersInv
<1>2. CASE RunsWheel
  <2>1. runs = "wheel" /\ runs' = "wheel" /\ WheelInv /\ W!Next /\ UNCHANGED updating
    BY <1>2 DEF RunsWheel, TimersInv
  <2>. QED  BY <2>1, WheelStep DEF TimersInv
<1>3. CASE UNCHANGED <<runs, vars, wheelVars>>
  <2>1. runs = "tree" => pc' = "idle" /\ SortInv'
    <3>1. SUFFICES ASSUME runs = "tree" PROVE pc' = "idle" /\ SortInv'
      OBVIOUS
    <3>2. pc = "idle" /\ pc' = "idle" /\ SortInv
      BY <1>3, <3>1 DEF TimersInv, wheelVars
    <3>. QED  BY <1>3, <3>2, NextSortInv DEF WheelConstants
  <2>2. runs = "wheel" => WheelInv'
    BY <1>3, WheelStands DEF TimersInv
  <2>3. UNCHANGED AnyQueue!vars
    BY <1>3 DEF vars, wheelVars, AnyQueue!vars
  <2>. QED  BY <1>3, <2>1, <2>2, <2>3 DEF TimersInv
<1>4. RunsPool \/ RunsEvent \/ RunsSnow \/ RunsList \/ UNCHANGED coreVars
        => UNCHANGED <<runs, vars, wheelVars>>
  BY DEF RunsPool, RunsEvent, RunsSnow, RunsList, coreVars
<1>. QED  BY <1>1, <1>2, <1>3, <1>4 DEF CoreNext

LEMMA AlwaysTimersInv == ASSUME WheelConstants PROVE CoreSpec => []TimersInv
<1>1. CoreInit => TimersInv
  <2>1. SUFFICES ASSUME CoreInit PROVE TimersInv
    OBVIOUS
  <2>2. Init /\ W!Init
    BY <2>1 DEF CoreInit, AllInit
  <2>3. pc = "idle"
    BY <2>2 DEF W!Init
  <2>. QED  BY <2>2, <2>3, InitSortInv, WheelStart DEF TimersInv, WheelConstants
<1>2. TimersInv /\ [CoreNext]_coreVars => TimersInv'
  BY TimersStep
<1>. QED  BY <1>1, <1>2, PTL DEF CoreSpec

\* TimersInPlace: whatever callbacks add, remove and clear and however late an update is,
\* the multimap of RBTimer has an entry for each timer but the one being called, under
\* the time its node holds and in ascending order; and in TWTimer a timer lies in one
\* place only, one that is looked at no later than the timer is due.
THEOREM TimersAlwaysInPlace == ASSUME WheelConstants PROVE CoreSpec => []TimersInPlace
<1>1. SortInv => SortAgrees
  BY DEF SortInv, SortAgrees, Keeps, Once, Ascends, EntriesOf
<1>2. TimersInv => TimersInPlace
  BY <1>1, WheelInPlace DEF TimersInv, TimersInPlace
<1>. QED  BY <1>2, AlwaysTimersInv, PTL

\* ImplementsTimer: both queues implement the abstract one, in which update() calls any
\* timer that is due until none is, and each as often as was asked: the tree looks at its
\* first entry only and the wheels at the slots they pass, and neither calls a timer early
\* or leaves out one that is due.
THEOREM TimersImplementQueue == ASSUME WheelConstants PROVE CoreSpec => ImplementsTimer
<1>1. CoreInit => AnyQueue!Init
  <2>1. SUFFICES ASSUME CoreInit PROVE AnyQueue!Init
    OBVIOUS
  <2>2. Queue!Init /\ pc = "idle"
    BY <2>1 DEF CoreInit, AllInit, Init, W!Init
  <2>3. (updating \/ pc # "idle") = FALSE
    BY <2>2 DEF Queue!Init
  <2>. QED  BY <2>2, <2>3 DEF Queue!Init, AnyQueue!Init
<1>2. TimersInv /\ [CoreNext]_coreVars => [AnyQueue!Next]_(AnyQueue!vars)
  BY TimersStep
<1>. QED  BY <1>1, <1>2, AlwaysTimersInv, PTL DEF CoreSpec, ImplementsTimer, AnyQueue!Spec

\* update() of RBTimer calls timers in the order of their times, however late it is.
THEOREM TreeCallsInOrder ==
  ASSUME WheelConstants
  PROVE  CoreSpec => [][runs = "tree" /\ Fire
                          => \A t \in DOMAIN mTimers :
                               mTimers[calling'].next =< mTimers[t].next]_coreVars
<1>1. ASSUME TimersInv, runs = "tree", Fire, NEW t \in DOMAIN mTimers
      PROVE  mTimers[calling'].next =< mTimers[t].next
  BY <1>1, FiresFirst DEF TimersInv
<1>2. TimersInv => [runs = "tree" /\ Fire
                      => \A t \in DOMAIN mTimers :
                           mTimers[calling'].next =< mTimers[t].next]_coreVars
  BY <1>1
<1>. QED  BY <1>2, AlwaysTimersInv, PTL

\* BoundedDisorder: RBTimer calls timers in the order of their times; TWTimer, whose
\* periodic timers come back into the slot that is being called, calls none before one
\* that is a whole turn of wheel 0 earlier.  A zero interval is left out: an endless timer
\* with one stays behind the clock by as much as it was late.
THEOREM DisorderBounded ==
  ASSUME WheelConstants, Prompt
  PROVE  CoreSpec => BoundedDisorder
<1>. DEFINE Bounded ==
       calling = 0 /\ calling' # 0
          => \A t \in DOMAIN mTimers :
               mTimers[calling'].next
                 < mTimers[t].next + (IF runs = "tree" THEN 1 ELSE StepCount)
<1>1. ASSUME TimersInv, [CoreNext]_coreVars, calling = 0, calling' # 0, NEW t \in DOMAIN mTimers
      PROVE  mTimers[calling'].next
               < mTimers[t].next + (IF runs = "tree" THEN 1 ELSE StepCount)
  <2>1. CASE RunsTree
    <3>1. runs = "tree" /\ SortInv /\ Next
      BY <1>1, <2>1 DEF RunsTree, TimersInv
    <3>2. Fire
      BY <1>1, <3>1 DEF Next, Run, Add, RemoveTimer, Clear, Reset, Update, Return, Done
    <3>3. mTimers[calling'].next =< mTimers[t].next
      BY <3>1, <3>2, FiresFirst
    <3>4. calling' \in DOMAIN mTimers
      BY <3>1, <3>2, FirstIsLeast DEF Fire, FirstDue
    <3>5. mTimers[calling'].next \in Nat /\ mTimers[t].next \in Nat
      BY <3>1, <3>4, EntryFacts
    <3>. QED  BY <3>1, <3>3, <3>5
  <2>2. CASE RunsWheel
    <3>1. runs = "wheel" /\ WheelInv /\ W!Next
      BY <1>1, <2>2 DEF RunsWheel, TimersInv
    <3>2. W!Fire
      BY <1>1, <3>1 DEF W!Next, W!Run, W!Add, W!RemoveTimer, W!Clear, W!Reset, W!Update,
         W!Return, W!SlotDone, W!Tick, W!LastSlot
    <3>. QED  BY <3>1, <3>2, WheelDisorder
  <2>3. CASE RunsPool \/ RunsEvent \/ RunsSnow \/ RunsList \/ UNCHANGED coreVars
    BY <1>1, <2>3 DEF RunsPool, RunsEvent, RunsSnow, RunsList, coreVars, vars
  <2>. QED  BY <1>1, <2>1, <2>2, <2>3 DEF CoreNext
<1>2. TimersInv /\ [CoreNext]_coreVars => [Bounded]_coreVars
  BY <1>1
<1>. QED  BY <1>2, AlwaysTimersInv, PTL DEF CoreSpec, BoundedDisorder

-----------------------------------------------------------------------------
(* The pool.  What is free in a chunk is a chain: a sequence of blocks that *)
(* begins at the first and goes on as the blocks say.                      *)

Chained(h, ch, S) ==
  /\ DOMAIN h.byte = Pool!Blocks /\ h.mCountAvBlocks = Len(ch)
  /\ Once(ch, Pool!Blocks, S)
  /\ ch # <<>> => h.mFirstAvBlock = ch[1]
  /\ \A i \in 1..Len(ch) - 1 : h.byte[ch[i]] = ch[i + 1]

\* Blocks that stand once in a chain are no more than there are, and fewer when one
\* does not stand in it.
LEMMA ChainLength ==
  ASSUME N \in Nat, NEW ch, NEW S, Once(ch, Pool!Blocks, S)
  PROVE  /\ Len(ch) \in 0..N
         /\ \A b \in Pool!Blocks : b \notin S => Len(ch) < N
<1>0. /\ IsFiniteSet(Pool!Blocks) /\ Cardinality(Pool!Blocks) = N
  <2>1. 0 \in Int /\ N - 1 \in Int
    OBVIOUS
  <2>2. IsFiniteSet(0..(N - 1)) /\ Cardinality(0..(N - 1)) = IF 0 > N - 1 THEN 0 ELSE (N - 1) - 0 + 1
    BY <2>1, FS_Interval
  <2>. QED  BY <2>2 DEF Pool!Blocks
<1>1. ASSUME NEW T, IsFiniteSet(T), S \subseteq T
      PROVE  Len(ch) =< Cardinality(T)
  <2>1. ch \in Injection(1..Len(ch), T)
    <3>1. ch \in [1..Len(ch) -> T]
      <4>1. ch \in Seq(Pool!Blocks) /\ \A i \in 1..Len(ch) : ch[i] \in T
        BY <1>1, OnceFacts
      <4>. QED  BY <4>1
    <3>2. IsInjective(ch)
      BY DEF Once
    <3>. QED  BY <3>1, <3>2 DEF Injection
  <2>2. Cardinality(1..Len(ch)) =< Cardinality(T)
    BY <1>1, <2>1, FS_Injection
  <2>3. Len(ch) \in Nat
    BY OnceFacts
  <2>4. Cardinality(1..Len(ch)) = Len(ch)
    BY <2>3, CountTo
  <2>. QED  BY <2>2, <2>4
<1>2. S \subseteq Pool!Blocks /\ Len(ch) \in Nat
  BY OnceFacts
<1>3. ASSUME NEW b \in Pool!Blocks, b \notin S
      PROVE  Len(ch) < N
  <2>1. IsFiniteSet(Pool!Blocks \ {b}) /\ Cardinality(Pool!Blocks \ {b}) = N - 1
    BY <1>0, FS_RemoveElement
  <2>2. Len(ch) =< N - 1
    BY <1>1, <1>2, <1>3, <2>1
  <2>. QED  BY <1>2, <2>2
<1>. QED  BY <1>0, <1>1, <1>2, <1>3

\* The recursive function of Chain exists: of the lengths without one there is no least.
LEMMA LinksExist ==
  ASSUME NEW h, NEW n \in Nat
  PROVE  \E f : f = [i \in 1..n |-> IF i = 1 THEN h.mFirstAvBlock
                                    ELSE IF f[i - 1] = Pool!Junk THEN Pool!Junk ELSE h.byte[f[i - 1]]]
<1>. DEFINE Link(f, i) == IF i = 1 THEN h.mFirstAvBlock
                          ELSE IF f[i - 1] = Pool!Junk THEN Pool!Junk ELSE h.byte[f[i - 1]]
            Links(f, k) == f = [i \in 1..k |-> Link(f, i)]
            without == {k \in Nat : ~ \E f : Links(f, k)}
<1>1. ASSUME NEW k \in without, \A j \in without : k =< j
      PROVE  FALSE
  <2>1. CASE k = 0
    <3>. DEFINE f == [i \in 1..0 |-> 0]
    <3>1. Links(f, 0)
      OBVIOUS
    <3>. QED  BY <1>1, <2>1, <3>1
  <2>2. CASE k # 0
    <3>1. k \in Nat /\ k - 1 \in Nat /\ k - 1 \notin without
      <4>1. k \in Nat
        BY <1>1
      <4>2. k - 1 \in Nat /\ ~(k =< k - 1)
        BY <2>2, <4>1
      <4>. HIDE DEF without
      <4>. QED  BY <1>1, <4>1, <4>2
    <3>2. PICK f : Links(f, k - 1)
      BY <3>1
    <3>. DEFINE g == [i \in 1..k |-> IF i < k THEN f[i] ELSE Link(f, k)]
    <3>3. \A i \in 1..k : i < k => g[i] = f[i]
      OBVIOUS
    <3>4. ASSUME NEW i \in 1..k PROVE g[i] = Link(g, i)
      <4>1. Link(g, i) = Link(f, i)
        <5>1. i # 1 => i - 1 \in 1..k /\ i - 1 < k
          BY <3>1
        <5>2. i # 1 => g[i - 1] = f[i - 1]
          BY <3>3, <5>1
        <5>. HIDE DEF g
        <5>. QED  BY <5>2
      <4>2. CASE i < k
        <5>1. i \in 1..(k - 1)
          BY <3>1, <4>2
        <5>2. f[i] = Link(f, i)
          <6>. HIDE DEF Link
          <6>. QED  BY <3>2, <5>1
        <5>. QED  BY <3>3, <4>1, <4>2, <5>2, Zenon
      <4>3. CASE ~(i < k)
        <5>1. i = k
          BY <3>1, <4>3
        <5>2. g[i] = Link(f, k)
          <6>. HIDE DEF Link
          <6>. QED  BY <4>3
        <5>. QED  BY <4>1, <5>1, <5>2, Zenon
      <4>. QED  BY <4>2, <4>3
    <3>5. Links(g, k)
      <4>. HIDE DEF Link
      <4>1. g = [i \in 1..k |-> g[i]]
        BY Zenon
      <4>2. [i \in 1..k |-> g[i]] = [i \in 1..k |-> Link(g, i)]
        BY <3>4, Zenon
      <4>. QED  BY <4>1, <4>2, Zenon
    <3>. QED  BY <1>1, <3>5
  <2>. QED  BY <2>1, <2>2
<1>2. without = {}
  <2>1. without \in SUBSET Nat
    OBVIOUS
  <2>. HIDE DEF without
  <2>2. without # {} => Min(without) \in without /\ \A j \in without : Min(without) =< j
    BY <2>1, MinIsLeast
  <2>. QED  BY <1>1, <2>2
<1>3. \E f : Links(f, n)
  BY <1>2
<1>. QED  BY <1>3

\* The chain the invariant speaks of is the one Chain computes.
LEMMA ChainIsChain ==
  ASSUME N \in Nat, NEW h, NEW ch, NEW S, Chained(h, ch, S)
  PROVE  Pool!Chain(h) = ch
<1>0. /\ ch \in Seq(Pool!Blocks) /\ Len(ch) \in 0..N /\ h.mCountAvBlocks = Len(ch)
      /\ \A i \in 1..Len(ch) : ch[i] \in Pool!Blocks
  BY ChainLength, OnceFacts DEF Chained
<1>. DEFINE Links(f) == f = [i \in 1..N |-> IF i = 1 THEN h.mFirstAvBlock
                               ELSE IF f[i - 1] = Pool!Junk THEN Pool!Junk ELSE h.byte[f[i - 1]]]
            walk == CHOOSE f : Links(f)
<1>1. Links(walk)
  <2>1. \A n \in Nat : \E f : f = [i \in 1..n |-> IF i = 1 THEN h.mFirstAvBlock
               ELSE IF f[i - 1] = Pool!Junk THEN Pool!Junk ELSE h.byte[f[i - 1]]]
    BY LinksExist, Zenon
  <2>2. \E f : Links(f)
    BY <2>1, Zenon
  <2>. HIDE DEF Links
  <2>. QED  BY <2>2
<1>2. Pool!Chain(h) = [i \in 1..h.mCountAvBlocks |-> walk[i]]
  BY Zenon DEF Pool!Chain
<1>. HIDE DEF walk
<1>3. /\ N >= 1 => walk[1] = h.mFirstAvBlock
      /\ \A i \in 1..N : i # 1 /\ walk[i - 1] # Pool!Junk => walk[i] = h.byte[walk[i - 1]]
  BY <1>1
<1>. DEFINE differs == {i \in 1..Len(ch) : walk[i] # ch[i]}
<1>4. ASSUME NEW i \in differs, \A j \in differs : i =< j
      PROVE  FALSE
  <2>0. i \in 1..Len(ch) /\ i \in 1..N /\ N >= 1 /\ Len(ch) \in Nat /\ walk[i] # ch[i]
    BY <1>0, <1>4
  <2>1. CASE i = 1
    <3>1. ch # <<>>
      BY <1>0, <2>0
    <3>. QED  BY <1>3, <2>0, <2>1, <3>1 DEF Chained
  <2>2. CASE i # 1
    <3>1. i - 1 \in 1..Len(ch) /\ i - 1 \in 1..Len(ch) - 1 /\ (i - 1) + 1 = i /\ ~(i =< i - 1)
      BY <2>0, <2>2
    <3>2. walk[i - 1] = ch[i - 1]
      BY <1>4, <3>1
    <3>3. walk[i - 1] # Pool!Junk
      BY <1>0, <3>1, <3>2 DEF Pool!Blocks, Pool!Junk
    <3>4. h.byte[ch[i - 1]] = ch[i]
      BY <3>1 DEF Chained
    <3>. QED  BY <1>3, <2>0, <2>2, <3>2, <3>3, <3>4
  <2>. QED  BY <2>1, <2>2
<1>5. \A i \in 1..Len(ch) : walk[i] = ch[i]
  <2>1. differs \in SUBSET Nat
    BY <1>0
  <2>2. differs # {} => Min(differs) \in differs /\ \A j \in differs : Min(differs) =< j
    <3>. HIDE DEF differs
    <3>. QED  BY <2>1, MinIsLeast
  <2>3. differs = {}
    <3>. HIDE DEF differs
    <3>. QED  BY <1>4, <2>2
  <2>. QED  BY <2>3
<1>6. ch = [i \in 1..Len(ch) |-> ch[i]]
  BY <1>0
<1>. QED  BY <1>0, <1>2, <1>5, <1>6

\* allocate takes the first block of the chain.
LEMMA TakenChain ==
  ASSUME NEW h, NEW ch, NEW S, Chained(h, ch, S), ch # <<>>
  PROVE  /\ h.mFirstAvBlock \in S
         /\ Chained(Pool!Taken(h), Tail(ch), S \ {h.mFirstAvBlock})
<1>. DEFINE b == h.mFirstAvBlock
            r == Tail(ch)
<1>0. /\ ch \in Seq(Pool!Blocks) /\ Len(ch) \in Nat /\ 1 \in 1..Len(ch) /\ b = ch[1] /\ b \in S
      /\ \A i, j \in 1..Len(ch) : ch[i] = ch[j] => i = j
      /\ \A i \in 1..Len(ch) : ch[i] \in Pool!Blocks
  <2>1. ch \in Seq(Pool!Blocks) /\ Len(ch) \in Nat
    BY OnceFacts DEF Chained
  <2>2. 1 \in 1..Len(ch)
    BY <2>1
  <2>. QED  BY <2>1, <2>2, OnceFacts DEF Chained
<1>1. RemoveAt(ch, 1) = r
  BY <1>0, TailRemoves
<1>2. /\ Len(r) = Len(ch) - 1 /\ \A i \in 1..Len(ch) - 1 : r[i] = ch[i + 1]
  BY <1>0, HeadTailProperties
<1>3. Once(r, Pool!Blocks, S \ {b})
  <2>1. Once(RemoveAt(ch, 1), Pool!Blocks, S \ {ch[1]})
    BY <1>0, OnceRemoved DEF Chained
  <2>. QED  BY <1>0, <1>1, <2>1, Zenon
<1>4. /\ Pool!Taken(h).mFirstAvBlock = h.byte[b] /\ Pool!Taken(h).mCountAvBlocks = Len(r)
      /\ Pool!Taken(h).byte = [h.byte EXCEPT ![b] = Pool!Junk]
  BY <1>0, <1>2 DEF Pool!Taken, Chained
<1>. HIDE DEF b, r
<1>5. /\ DOMAIN Pool!Taken(h).byte = Pool!Blocks
      /\ \A c \in Pool!Blocks : c # b => Pool!Taken(h).byte[c] = h.byte[c]
  BY <1>4 DEF Chained
<1>6. r # <<>> => Pool!Taken(h).mFirstAvBlock = r[1]
  <2>1. HAVE r # <<>>
  <2>2. Len(ch) # 1
    BY <1>2, <1>3, <2>1, OnceFacts
  <2>3. 1 \in 1..Len(ch) - 1 /\ 1 + 1 = 2
    <3>1. Len(ch) \in Nat /\ Len(ch) >= 1
      BY <1>0
    <3>2. Len(ch) - 1 \in Nat /\ Len(ch) - 1 >= 1
      BY <2>2, <3>1
    <3>. QED  BY <3>2
  <2>4. h.byte[ch[1]] = ch[2]
    BY <2>3 DEF Chained
  <2>. QED  BY <1>0, <1>2, <1>4, <2>3, <2>4
<1>7. \A i \in 1..Len(r) - 1 : Pool!Taken(h).byte[r[i]] = r[i + 1]
  <2>1. TAKE i \in 1..Len(r) - 1
  <2>2. /\ i + 1 \in 1..Len(ch) - 1 /\ i + 1 \in 1..Len(ch) /\ i + 1 # 1
        /\ i \in 1..Len(ch) - 1 /\ i + 1 \in 1..Len(ch) - 1
    BY <1>0, <1>2
  <2>3. r[i] = ch[i + 1] /\ r[i + 1] = ch[(i + 1) + 1] /\ r[i] # b /\ r[i] \in Pool!Blocks
    BY <1>0, <1>2, <2>2
  <2>4. h.byte[ch[i + 1]] = ch[(i + 1) + 1]
    BY <2>2 DEF Chained
  <2>. QED  BY <1>5, <2>3, <2>4
<1>. QED  BY <1>0, <1>3, <1>4, <1>5, <1>6, <1>7 DEF Chained, b, r

\* deallocate puts a block in front of the chain.
LEMMA GivenChain ==
  ASSUME NEW h, NEW ch, NEW S, Chained(h, ch, S), NEW b \in Pool!Blocks, b \notin S
  PROVE  Chained(Pool!Given(h, b), InsertAt(ch, 0 + 1, b), S \cup {b})
<1>. DEFINE r == InsertAt(ch, 0 + 1, b)
<1>0. /\ ch \in Seq(Pool!Blocks) /\ Len(ch) \in Nat /\ 0 \in 0..Len(ch)
      /\ \A i \in 1..Len(ch) : ch[i] \in Pool!Blocks /\ ch[i] # b
  <2>1. ch \in Seq(Pool!Blocks) /\ Len(ch) \in Nat
    BY OnceFacts DEF Chained
  <2>2. \A i \in 1..Len(ch) : ch[i] \in Pool!Blocks /\ ch[i] \in S
    BY OnceFacts DEF Chained
  <2>. QED  BY <2>1, <2>2
<1>1. Once(r, Pool!Blocks, S \cup {b})
  BY <1>0, OnceInserted DEF Chained
<1>2. /\ Len(r) = Len(ch) + 1
      /\ \A i \in 1..Len(ch) + 1 : r[i] = IF i =< 0 THEN ch[i] ELSE IF i = 0 + 1 THEN b ELSE ch[i - 1]
  <2>1. PICK k \in 0..Len(ch) : k = 0
    BY <1>0
  <2>2. /\ Len(InsertAt(ch, k + 1, b)) = Len(ch) + 1
        /\ \A i \in 1..Len(ch) + 1 : InsertAt(ch, k + 1, b)[i] =
             IF i =< k THEN ch[i] ELSE IF i = k + 1 THEN b ELSE ch[i - 1]
    BY <1>0, InsertedAt
  <2>. QED  BY <2>1, <2>2, Zenon
<1>3. /\ Pool!Given(h, b).mFirstAvBlock = b /\ Pool!Given(h, b).mCountAvBlocks = Len(r)
      /\ Pool!Given(h, b).byte = [h.byte EXCEPT ![b] = h.mFirstAvBlock]
  BY <1>2 DEF Pool!Given, Chained
<1>. HIDE DEF r
<1>4. /\ DOMAIN Pool!Given(h, b).byte = Pool!Blocks
      /\ Pool!Given(h, b).byte[b] = h.mFirstAvBlock
      /\ \A c \in Pool!Blocks : c # b => Pool!Given(h, b).byte[c] = h.byte[c]
  BY <1>3 DEF Chained
<1>5. r[1] = b /\ \A i \in 1..Len(ch) : r[i + 1] = ch[i]
  <2>1. 1 \in 1..Len(ch) + 1 /\ ~(1 =< 0)
    BY <1>0
  <2>2. \A i \in 1..Len(ch) : /\ i + 1 \in 1..Len(ch) + 1 /\ ~(i + 1 =< 0) /\ i + 1 # 0 + 1
                              /\ (i + 1) - 1 = i
    BY <1>0
  <2>. QED  BY <1>2, <2>1, <2>2
<1>6. \A i \in 1..Len(r) - 1 : Pool!Given(h, b).byte[r[i]] = r[i + 1]
  <2>1. TAKE i \in 1..Len(r) - 1
  <2>2. i \in 1..Len(ch)
    BY <1>0, <1>2
  <2>3. CASE i = 1
    <3>1. ch # <<>>
      BY <1>0, <2>2
    <3>2. h.mFirstAvBlock = ch[1] /\ r[1 + 1] = ch[1]
      BY <1>5, <2>2, <2>3, <3>1 DEF Chained
    <3>. QED  BY <1>4, <1>5, <2>3, <3>2
  <2>4. CASE i # 1
    <3>1. i - 1 \in 1..Len(ch) /\ i - 1 \in 1..Len(ch) - 1 /\ (i - 1) + 1 = i
      BY <1>0, <2>2, <2>4
    <3>2. r[i] = ch[i - 1] /\ r[i + 1] = ch[i] /\ ch[i - 1] \in Pool!Blocks /\ ch[i - 1] # b
      BY <1>0, <1>5, <2>2, <3>1
    <3>3. h.byte[ch[i - 1]] = ch[i]
      BY <3>1 DEF Chained
    <3>. QED  BY <1>4, <3>2, <3>3
  <2>. QED  BY <2>3, <2>4
<1>. QED  BY <1>1, <1>3, <1>4, <1>5, <1>6 DEF Chained, r

\* A new chunk links every block to the next one.
LEMMA FreshChain ==
  ASSUME N \in Nat
  PROVE  Chained(Pool!Fresh, [i \in 1..N |-> i - 1], Pool!Blocks)
<1>. DEFINE ch == [i \in 1..N |-> i - 1]
<1>1. /\ ch \in Seq(Pool!Blocks) /\ Len(ch) = N /\ \A i \in 1..N : ch[i] = i - 1
  BY DEF Pool!Blocks
<1>. HIDE DEF ch
<1>2. Once(ch, Pool!Blocks, Pool!Blocks)
  <2>1. IsInjective(ch)
    BY <1>1 DEF IsInjective
  <2>2. ToSet(ch) = Pool!Blocks
    <3>1. ToSet(ch) = {ch[i] : i \in 1..N}
      BY <1>1 DEF ToSet
    <3>2. \A i \in 1..N : ch[i] \in Pool!Blocks
      BY <1>1 DEF Pool!Blocks
    <3>3. \A b \in Pool!Blocks : b + 1 \in 1..N /\ ch[b + 1] = b
      BY <1>1 DEF Pool!Blocks
    <3>. QED  BY <3>1, <3>2, <3>3
  <2>. QED  BY <1>1, <2>1, <2>2 DEF Once
<1>3. /\ Pool!Fresh.mFirstAvBlock = 0 /\ Pool!Fresh.mCountAvBlocks = N
      /\ DOMAIN Pool!Fresh.byte = Pool!Blocks
      /\ \A b \in Pool!Blocks : Pool!Fresh.byte[b] = b + 1
  BY DEF Pool!Fresh
<1>4. ch # <<>> => ch[1] = 0
  BY <1>1
<1>5. \A i \in 1..Len(ch) - 1 : Pool!Fresh.byte[ch[i]] = ch[i + 1]
  <2>1. TAKE i \in 1..Len(ch) - 1
  <2>2. ch[i] = i - 1 /\ ch[i + 1] = (i - 1) + 1 /\ i - 1 \in Pool!Blocks
    BY <1>1 DEF Pool!Blocks
  <2>. QED  BY <1>3, <2>2
<1>. QED  BY <1>1, <1>2, <1>3, <1>4, <1>5 DEF Chained, ch

Kinds == {"full", "free", "empty"}

LEMMA KindFacts ==
  ASSUME N \in Nat \ {0}, NEW n \in 0..N
  PROVE  /\ Pool!Kind(n) \in Kinds
         /\ Pool!Kind(n) = "full" <=> n = 0
         /\ Pool!Kind(n) = "empty" <=> n = N
BY DEF Pool!Kind, Kinds

\* leave() takes a chunk out of the list it stands in.
LEMMA FirstRemoved ==
  ASSUME NEW A, NEW m, NEW S, Once(m, A, S), NEW c
  PROVE  /\ Once(Pool!RemoveFirst(m, c), A, S \ {c})
         /\ c \in S => Len(Pool!RemoveFirst(m, c)) = Len(m) - 1
         /\ c \notin S => Len(Pool!RemoveFirst(m, c)) = Len(m)
<1>. DEFINE I == {i \in 1..Len(m) : m[i] = c}
<1>1. CASE c \in S
  <2>1. \E i \in 1..Len(m) : m[i] = c
    BY <1>1, OnceFacts
  <2>2. I # {} /\ I \in SUBSET Nat
    BY <2>1, OnceFacts
  <2>3. Min(I) \in I
    BY <2>2, MinIsLeast
  <2>4. Pool!RemoveFirst(m, c) = RemoveAt(m, Min(I))
    BY <2>1, <2>2 DEF Pool!RemoveFirst, Pool!SelectInSeq, Pool!RemoveAt, RemoveAt, Pool!Min, Min
  <2>. DEFINE k == Min(I)
  <2>5. k \in 1..Len(m) /\ m[k] = c
    BY <2>3
  <2>. HIDE DEF k
  <2>6. Once(RemoveAt(m, k), A, S \ {c}) /\ Len(RemoveAt(m, k)) = Len(m) - 1
    <3>1. Once(RemoveAt(m, k), A, S \ {m[k]})
      BY <2>5, OnceRemoved
    <3>2. m \in Seq(A)
      BY OnceFacts
    <3>. QED  BY <2>5, <3>1, <3>2, RemovedAt
  <2>. QED  BY <1>1, <2>4, <2>6 DEF k
<1>2. CASE c \notin S
  <2>1. ~ \E i \in 1..Len(m) : m[i] = c
    BY <1>2, OnceFacts
  <2>2. Pool!RemoveFirst(m, c) = m
    BY <2>1 DEF Pool!RemoveFirst
  <2>3. S \ {c} = S
    BY <1>2
  <2>. QED  BY <1>2, <2>2, <2>3
<1>. QED  BY <1>1, <1>2

\* push_back puts it behind the others.
LEMMA OnceAppended ==
  ASSUME NEW A, NEW m, NEW S, Once(m, A, S), NEW c \in A, c \notin S
  PROVE  Once(Append(m, c), A, S \cup {c}) /\ Len(Append(m, c)) = Len(m) + 1
<1>. DEFINE r == Append(m, c)
<1>1. /\ r \in Seq(A) /\ Len(r) = Len(m) + 1 /\ r[Len(m) + 1] = c /\ Len(m) \in Nat
      /\ \A i \in 1..Len(m) : r[i] = m[i]
  BY OnceFacts, AppendProperties
<1>. HIDE DEF r
<1>2. \A i \in 1..Len(m) : r[i] # c
  BY <1>1, OnceFacts
<1>3. IsInjective(r)
  <2>1. SUFFICES ASSUME NEW i \in 1..Len(r), NEW j \in 1..Len(r), r[i] = r[j]
                 PROVE  i = j
    BY <1>1 DEF IsInjective
  <2>2. \A l \in 1..Len(r) : l \in 1..Len(m) \/ l = Len(m) + 1
    BY <1>1
  <2>. QED  BY <1>1, <1>2, <2>1, <2>2, OnceFacts
<1>4. ToSet(r) = S \cup {c}
  <2>1. ToSet(r) = {r[i] : i \in 1..Len(r)} /\ S = {m[i] : i \in 1..Len(m)}
    BY <1>1, OnceFacts DEF ToSet
  <2>2. 1..Len(r) = 1..Len(m) \cup {Len(m) + 1}
    BY <1>1
  <2>. QED  BY <1>1, <2>1, <2>2
<1>. QED  BY <1>1, <1>3, <1>4 DEF Once, r

\* The lists of chunks: each chunk once, in the list of its kind.
ListsInv(ls, ck) ==
  /\ DOMAIN ls = Kinds
  /\ \A k \in Kinds : Once(ls[k], Chunks, ToSet(ls[k]))
  /\ \A k \in Kinds : \A c \in ToSet(ls[k]) : Pool!Kind(ck[c].mCountAvBlocks) = k

ListedIn(ls) == UNION {ToSet(ls[k]) : k \in Kinds}

\* What becomes of the lists when the count of one chunk changes by one.
LEMMA RelistedLists ==
  ASSUME N \in Nat \ {0}, ListsInv(lists, chunk), NEW c \in Chunks,
         NEW before \in 0..N, NEW after \in 0..N,
         c \in ListedIn(lists) => before = chunk[c].mCountAvBlocks,
         c \notin ListedIn(lists) => Pool!Kind(after) # Pool!Kind(before),
         NEW ck, ck[c].mCountAvBlocks = after, \A d \in Chunks : d # c => ck[d] = chunk[d],
         NEW r, r = Pool!Relisted(c, before, after)
  PROVE  /\ ListsInv(r, ck)
         /\ ListedIn(r) = ListedIn(lists) \cup {c}
         /\ \A k \in Kinds :
              /\ Pool!Kind(after) = k /\ Pool!Kind(before) # k => Len(r[k]) = Len(lists[k]) + 1
              /\ Pool!Kind(before) = k /\ Pool!Kind(after) # k /\ c \in ListedIn(lists)
                   => Len(r[k]) = Len(lists[k]) - 1
              /\ (\/ Pool!Kind(after) = Pool!Kind(before)
                  \/ Pool!Kind(after) # k /\ Pool!Kind(before) # k
                  \/ Pool!Kind(after) # k /\ c \notin ListedIn(lists))
                 => Len(r[k]) = Len(lists[k])
         /\ Pool!Kind(after) # Pool!Kind(before) => r[Pool!Kind(after)] = Append(lists[Pool!Kind(after)], c)
<1>. DEFINE a == Pool!Kind(after)
            b == Pool!Kind(before)
<1>0. /\ a \in Kinds /\ b \in Kinds
      /\ \A k \in Kinds : Once(lists[k], Chunks, ToSet(lists[k])) /\ Len(lists[k]) \in Nat
      /\ \A k \in Kinds : c \in ToSet(lists[k]) <=> k = b /\ c \in ListedIn(lists)
  <2>1. a \in Kinds /\ b \in Kinds
    BY KindFacts
  <2>2. \A k \in Kinds : Once(lists[k], Chunks, ToSet(lists[k]))
    BY DEF ListsInv
  <2>3. \A k \in Kinds : Len(lists[k]) \in Nat
    BY <2>2, OnceFacts
  <2>4. \A k \in Kinds : c \in ToSet(lists[k]) => k = b /\ c \in ListedIn(lists)
    BY DEF ListsInv, ListedIn
  <2>5. c \in ListedIn(lists) => \E k \in Kinds : c \in ToSet(lists[k])
    BY DEF ListedIn
  <2>6. c \in ListedIn(lists) => c \in ToSet(lists[b])
    BY <2>4, <2>5
  <2>. QED  BY <2>1, <2>2, <2>3, <2>4, <2>6
<1>1. r = [k \in Kinds |-> IF b = a THEN lists[k]
                           ELSE IF k = a THEN Append(lists[k], c) ELSE Pool!RemoveFirst(lists[k], c)]
  BY DEF Pool!Relisted, ListsInv
<1>. HIDE DEF a, b
<1>2. CASE a = b
  <2>1. DOMAIN r = Kinds /\ \A k \in Kinds : r[k] = lists[k]
    BY <1>1, <1>2
  <2>2. ListedIn(r) = ListedIn(lists) /\ c \in ListedIn(lists)
    <3>1. ListedIn(r) = ListedIn(lists)
      BY <2>1 DEF ListedIn
    <3>. QED  BY <1>2, <3>1 DEF a, b
  <2>3. ListsInv(r, ck)
    <3>1. \A k \in Kinds : Once(r[k], Chunks, ToSet(r[k]))
      BY <1>0, <2>1
    <3>2. ASSUME NEW k \in Kinds, NEW d \in ToSet(r[k])
          PROVE  Pool!Kind(ck[d].mCountAvBlocks) = k
      <4>1. d \in ToSet(lists[k]) /\ d \in Chunks
        BY <1>0, <2>1, <3>2, OnceFacts
      <4>2. CASE d = c
        BY <1>0, <1>2, <4>1, <4>2 DEF a
      <4>3. CASE d # c
        BY <4>1, <4>3 DEF ListsInv
      <4>. QED  BY <4>2, <4>3
    <3>. QED  BY <2>1, <3>1, <3>2 DEF ListsInv
  <2>. QED  BY <1>2, <2>1, <2>2, <2>3, Zenon DEF a, b
<1>3. CASE a # b
  <2>1. DOMAIN r = Kinds /\ r[a] = Append(lists[a], c)
    BY <1>0, <1>1, <1>3
  <2>2. \A k \in Kinds : k # a => r[k] = Pool!RemoveFirst(lists[k], c)
    BY <1>1, <1>3
  <2>3. c \notin ToSet(lists[a])
    BY <1>0, <1>3
  <2>4. Once(r[a], Chunks, ToSet(lists[a]) \cup {c}) /\ Len(r[a]) = Len(lists[a]) + 1
    BY <1>0, <2>1, <2>3, OnceAppended
  <2>5. ASSUME NEW k \in Kinds, k # a
        PROVE  /\ Once(r[k], Chunks, ToSet(lists[k]) \ {c})
               /\ k = b /\ c \in ListedIn(lists) => Len(r[k]) = Len(lists[k]) - 1
               /\ ~(k = b /\ c \in ListedIn(lists)) => Len(r[k]) = Len(lists[k])
    <3>1. Once(lists[k], Chunks, ToSet(lists[k]))
      BY <1>0
    <3>2. /\ Once(Pool!RemoveFirst(lists[k], c), Chunks, ToSet(lists[k]) \ {c})
          /\ c \in ToSet(lists[k]) => Len(Pool!RemoveFirst(lists[k], c)) = Len(lists[k]) - 1
          /\ c \notin ToSet(lists[k]) => Len(Pool!RemoveFirst(lists[k], c)) = Len(lists[k])
      BY <3>1, FirstRemoved
    <3>. QED  BY <1>0, <2>2, <2>5, <3>2, Zenon
  <2>6. ToSet(r[a]) = ToSet(lists[a]) \cup {c}
    BY <2>4 DEF Once
  <2>7. \A k \in Kinds : k # a => ToSet(r[k]) = ToSet(lists[k]) \ {c}
    BY <2>5 DEF Once
  <2>8. \A k \in Kinds : Once(r[k], Chunks, ToSet(r[k]))
    BY <2>4, <2>5, <2>6, <2>7
  <2>9. ListsInv(r, ck)
    <3>1. ASSUME NEW k \in Kinds, NEW d \in ToSet(r[k])
          PROVE  Pool!Kind(ck[d].mCountAvBlocks) = k
      <4>1. CASE d = c
        BY <2>7, <3>1, <4>1 DEF a
      <4>2. CASE d # c
        <5>1. d \in ToSet(lists[k])
          BY <2>6, <2>7, <3>1, <4>2
        <5>2. d \in Chunks
          BY <1>0, <5>1, OnceFacts
        <5>. QED  BY <4>2, <5>1, <5>2 DEF ListsInv
      <4>. QED  BY <4>1, <4>2
    <3>. QED  BY <2>1, <2>8, <3>1 DEF ListsInv
  <2>10. ListedIn(r) = ListedIn(lists) \cup {c}
    <3>1. ASSUME NEW k \in Kinds, NEW d \in ToSet(r[k]) PROVE d \in ListedIn(lists) \cup {c}
      BY <2>6, <2>7, <3>1 DEF ListedIn
    <3>2. ASSUME NEW k \in Kinds, NEW d \in ToSet(lists[k]) PROVE d \in ListedIn(r)
      <4>1. d # c => d \in ToSet(r[k])
        BY <2>6, <2>7, <3>2
      <4>2. c \in ToSet(r[a])
        BY <2>6
      <4>. QED  BY <1>0, <3>2, <4>1, <4>2 DEF ListedIn
    <3>3. c \in ListedIn(r)
      BY <1>0, <2>6 DEF ListedIn
    <3>4. ListedIn(r) \subseteq ListedIn(lists) \cup {c}
      BY <3>1 DEF ListedIn
    <3>5. ListedIn(lists) \subseteq ListedIn(r)
      BY <3>2 DEF ListedIn
    <3>. QED  BY <3>3, <3>4, <3>5
  <2>11. \A k \in Kinds :
           /\ a = k /\ b # k => Len(r[k]) = Len(lists[k]) + 1
           /\ b = k /\ a # k /\ c \in ListedIn(lists) => Len(r[k]) = Len(lists[k]) - 1
           /\ a = b \/ (a # k /\ b # k) \/ (a # k /\ c \notin ListedIn(lists))
                => Len(r[k]) = Len(lists[k])
    BY <1>3, <2>4, <2>5, Zenon
  <2>. QED  BY <2>1, <2>9, <2>10, <2>11, Zenon DEF a, b
<1>. QED  BY <1>2, <1>3

\* The invariant of the pool: each listed chunk has a chain through its blocks that are
\* not given out.
Unowned(own, c) == {b \in Pool!Blocks : <<c, b>> \notin own}

Counted(ls, full, empty) == full = Len(ls.full) /\ empty = Len(ls.empty) /\ empty =< 1

PoolInv ==
  /\ DOMAIN chunk = Chunks /\ ListsInv(lists, chunk)
  /\ \A c \in ListedIn(lists) : \E ch : Chained(chunk[c], ch, Unowned(owned, c))
  /\ owned \subseteq Chunks \X Pool!Blocks /\ \A o \in owned : o[1] \in ListedIn(lists)
  /\ Counted(lists, mFullCount, mEmptyCount)

LEMMA ListedFacts ==
  ASSUME N \in Nat \ {0}, PoolInv
  PROVE  /\ Pool!Listed = ListedIn(lists) /\ ListedIn(lists) \subseteq Chunks
         /\ \A k \in Kinds : /\ lists[k] \in Seq(Chunks) /\ Len(lists[k]) \in Nat
                             /\ \A i \in 1..Len(lists[k]) : /\ lists[k][i] \in ListedIn(lists)
                                                            /\ lists[k][i] \in ToSet(lists[k])
         /\ mFullCount \in Nat /\ mEmptyCount \in Nat
<1>1. Pool!Listed = ListedIn(lists)
  BY DEF Pool!Listed, ListedIn, PoolInv, ListsInv, Pool!ToSet, ToSet
<1>2. \A k \in Kinds : Once(lists[k], Chunks, ToSet(lists[k]))
  BY DEF PoolInv, ListsInv
<1>3. \A k \in Kinds : ToSet(lists[k]) \subseteq Chunks
  BY <1>2, OnceFacts
<1>4. \A k \in Kinds : lists[k] \in Seq(Chunks) /\ Len(lists[k]) \in Nat
  BY <1>2, OnceFacts
<1>5. \A k \in Kinds : \A i \in 1..Len(lists[k]) : lists[k][i] \in ToSet(lists[k])
  BY <1>2, OnceFacts
<1>6. \A k \in Kinds : ToSet(lists[k]) \subseteq ListedIn(lists)
  BY DEF ListedIn
<1>7. ListedIn(lists) \subseteq Chunks
  BY <1>3 DEF ListedIn
<1>8. mFullCount \in Nat /\ mEmptyCount \in Nat
  BY <1>4 DEF PoolInv, Counted, Kinds
<1>. QED  BY <1>1, <1>4, <1>5, <1>6, <1>7, <1>8

\* The chunk allocate chooses has a block that is not given out.
LEMMA ChosenHasBlock ==
  ASSUME N \in Nat \ {0}, PoolInv, NEW c \in Pool!Chosen,
         NEW h, h = IF c \in Pool!Listed THEN chunk[c] ELSE Pool!Fresh
  PROVE  /\ c \in Chunks
         /\ \E ch : Chained(h, ch, Unowned(owned, c)) /\ ch # <<>> /\ Len(ch) \in 1..N
         /\ c \notin Pool!Listed => h.mCountAvBlocks = N
<1>1. CASE c \in Pool!Listed
  <2>1. PICK ch : Chained(chunk[c], ch, Unowned(owned, c))
    BY <1>1, ListedFacts DEF PoolInv
  <2>2. Len(ch) \in 0..N /\ chunk[c].mCountAvBlocks = Len(ch) /\ ch \in Seq(Pool!Blocks)
    BY <2>1, ChainLength, OnceFacts DEF Chained
  <2>3. PICK k \in {"free", "empty"} : lists[k] # <<>> /\ c = Head(lists[k])
    BY <1>1 DEF Pool!Chosen
  <2>4. c \in ToSet(lists[k])
    <3>1. k \in Kinds
      BY DEF Kinds
    <3>2. lists[k] \in Seq(Chunks) /\ 1 \in 1..Len(lists[k])
      BY <2>3, <3>1, ListedFacts
    <3>. QED  BY <2>3, <3>1, <3>2, ListedFacts
  <2>5. Pool!Kind(Len(ch)) = k /\ k # "full"
    BY <2>2, <2>4 DEF PoolInv, ListsInv, Kinds
  <2>6. Len(ch) # 0
    BY <2>2, <2>5, KindFacts
  <2>7. Len(ch) \in 1..N /\ ch # <<>>
    BY <2>2, <2>6
  <2>. QED  BY <1>1, <2>1, <2>7, ListedFacts
<1>2. CASE c \notin Pool!Listed
  <2>1. c \in Chunks
    <3>1. \A k \in Kinds : lists[k] # <<>> => Head(lists[k]) \in ListedIn(lists)
      <4>1. TAKE k \in Kinds
      <4>2. HAVE lists[k] # <<>>
      <4>3. lists[k] \in Seq(Chunks) /\ 1 \in 1..Len(lists[k]) /\ Head(lists[k]) = lists[k][1]
        BY <4>2, ListedFacts
      <4>. QED  BY <4>3, ListedFacts
    <3>2. lists.free # <<>> => Head(lists.free) \in Pool!Listed
      BY <3>1, ListedFacts DEF Kinds
    <3>3. lists.empty # <<>> => Head(lists.empty) \in Pool!Listed
      BY <3>1, ListedFacts DEF Kinds
    <3>. QED  BY <1>2, <3>2, <3>3 DEF Pool!Chosen
  <2>2. Unowned(owned, c) = Pool!Blocks
    BY <1>2, ListedFacts DEF Unowned, PoolInv
  <2>3. Chained(Pool!Fresh, [i \in 1..N |-> i - 1], Pool!Blocks)
    BY FreshChain
  <2>. DEFINE ch == [i \in 1..N |-> i - 1]
  <2>4. ch # <<>> /\ Len(ch) = N
    OBVIOUS
  <2>. HIDE DEF ch
  <2>5. Chained(h, ch, Unowned(owned, c)) /\ h.mCountAvBlocks = N /\ N \in 1..N
    BY <1>2, <2>2, <2>3, <2>4 DEF ch, Pool!Fresh
  <2>. QED  BY <2>1, <2>4, <2>5
<1>. QED  BY <1>1, <1>2

\* allocate: the block goes to the owner, and the chunk to the list it then belongs in.
LEMMA GetStep == ASSUME N \in Nat \ {0}, PoolInv, Pool!Get PROVE PoolInv'
<1>1. PICK c \in Pool!Chosen :
        LET h == IF c \in Pool!Listed THEN chunk[c] ELSE Pool!Fresh
            before == h.mCountAvBlocks
        IN /\ chunk' = [chunk EXCEPT ![c] = Pool!Taken(h)]
           /\ lists' = Pool!Relisted(c, before, before - 1)
           /\ mFullCount' = IF before = 1 THEN mFullCount + 1 ELSE mFullCount
           /\ mEmptyCount' = IF before = N /\ c \in Pool!Listed THEN mEmptyCount - 1 ELSE mEmptyCount
           /\ owned' = owned \cup {<<c, h.mFirstAvBlock>>}
  BY DEF Pool!Get
<1>. DEFINE h == IF c \in Pool!Listed THEN chunk[c] ELSE Pool!Fresh
            before == h.mCountAvBlocks
            b == h.mFirstAvBlock
<1>2. /\ chunk' = [chunk EXCEPT ![c] = Pool!Taken(h)]
      /\ lists' = Pool!Relisted(c, before, before - 1)
      /\ mFullCount' = IF before = 1 THEN mFullCount + 1 ELSE mFullCount
      /\ mEmptyCount' = IF before = N /\ c \in Pool!Listed THEN mEmptyCount - 1 ELSE mEmptyCount
      /\ owned' = owned \cup {<<c, b>>}
  BY <1>1, Zenon
<1>3. /\ c \in Chunks /\ (c \notin ListedIn(lists) => before = N)
      /\ c \in ListedIn(lists) => before = chunk[c].mCountAvBlocks
      /\ \E ch : Chained(h, ch, Unowned(owned, c)) /\ ch # <<>> /\ Len(ch) \in 1..N
  BY ChosenHasBlock, ListedFacts
<1>. HIDE DEF h
<1>4. PICK ch : Chained(h, ch, Unowned(owned, c)) /\ ch # <<>> /\ Len(ch) \in 1..N
  BY <1>3
<1>5. /\ b \in Unowned(owned, c) /\ b \in Pool!Blocks
      /\ Chained(Pool!Taken(h), Tail(ch), Unowned(owned, c) \ {b})
      /\ before \in 1..N /\ before \in 0..N /\ before - 1 \in 0..N
      /\ Pool!Taken(h).mCountAvBlocks = before - 1
  <2>1. b \in Unowned(owned, c) /\ Chained(Pool!Taken(h), Tail(ch), Unowned(owned, c) \ {b})
    BY <1>4, TakenChain
  <2>2. before = Len(ch)
    BY <1>4 DEF Chained
  <2>3. Pool!Taken(h).mCountAvBlocks = before - 1
    BY DEF Pool!Taken
  <2>. QED  BY <1>4, <2>1, <2>2, <2>3 DEF Unowned
<1>. HIDE DEF before, b
<1>6. /\ DOMAIN chunk' = Chunks /\ chunk'[c] = Pool!Taken(h)
      /\ \A d \in Chunks : d # c => chunk'[d] = chunk[d]
  BY <1>2, <1>3 DEF PoolInv
<1>7. /\ Pool!Kind(before) # "full" /\ Pool!Kind(before - 1) # "empty"
      /\ Pool!Kind(before - 1) = "full" <=> before = 1
      /\ Pool!Kind(before) = "empty" <=> before = N
  BY <1>5, KindFacts
<1>8. /\ ListsInv(lists', chunk') /\ ListedIn(lists') = ListedIn(lists) \cup {c}
      /\ \A k \in Kinds :
           /\ Pool!Kind(before - 1) = k /\ Pool!Kind(before) # k => Len(lists'[k]) = Len(lists[k]) + 1
           /\ Pool!Kind(before) = k /\ Pool!Kind(before - 1) # k /\ c \in ListedIn(lists)
                => Len(lists'[k]) = Len(lists[k]) - 1
           /\ (\/ Pool!Kind(before - 1) = Pool!Kind(before)
               \/ Pool!Kind(before - 1) # k /\ Pool!Kind(before) # k
               \/ Pool!Kind(before - 1) # k /\ c \notin ListedIn(lists))
              => Len(lists'[k]) = Len(lists[k])
  <2>. DEFINE after == before - 1
              ck == chunk'
              r == lists'
  <2>1. c \notin ListedIn(lists) => Pool!Kind(after) # Pool!Kind(before)
    BY <1>3, <1>7
  <2>2. ck[c].mCountAvBlocks = after /\ \A d \in Chunks : d # c => ck[d] = chunk[d]
    BY <1>5, <1>6
  <2>3. ListsInv(lists, chunk) /\ before \in 0..N /\ after \in 0..N
    BY <1>5 DEF PoolInv
  <2>4. r = Pool!Relisted(c, before, after)
    BY <1>2
  <2>5. c \in Chunks /\ (c \in ListedIn(lists) => before = chunk[c].mCountAvBlocks)
    BY <1>3
  <2>. HIDE DEF after, ck, r
  <2>6. /\ ListsInv(r, ck) /\ ListedIn(r) = ListedIn(lists) \cup {c}
        /\ \A k \in Kinds :
             /\ Pool!Kind(after) = k /\ Pool!Kind(before) # k => Len(r[k]) = Len(lists[k]) + 1
             /\ Pool!Kind(before) = k /\ Pool!Kind(after) # k /\ c \in ListedIn(lists)
                  => Len(r[k]) = Len(lists[k]) - 1
             /\ (\/ Pool!Kind(after) = Pool!Kind(before)
                 \/ Pool!Kind(after) # k /\ Pool!Kind(before) # k
                 \/ Pool!Kind(after) # k /\ c \notin ListedIn(lists))
                => Len(r[k]) = Len(lists[k])
    BY <2>1, <2>2, <2>3, <2>4, <2>5, RelistedLists
  <2>. QED  BY <2>6 DEF after, ck, r
<1>9. Counted(lists', mFullCount', mEmptyCount')
  <2>1. "full" \in Kinds /\ "empty" \in Kinds
    BY DEF Kinds
  <2>2. mFullCount' = Len(lists'.full)
    <3>1. CASE before = 1
      BY <1>2, <1>7, <1>8, <2>1, <3>1 DEF PoolInv, Counted
    <3>2. CASE before # 1
      <4>1. Len(lists'["full"]) = Len(lists["full"])
        BY <1>7, <1>8, <2>1, <3>2, Zenon
      <4>. QED  BY <1>2, <3>2, <4>1 DEF PoolInv, Counted
    <3>. QED  BY <3>1, <3>2
  <2>3. mEmptyCount' = Len(lists'.empty) /\ mEmptyCount' =< 1
    <3>1. CASE before = N /\ c \in Pool!Listed
      BY <1>2, <1>7, <1>8, <2>1, <3>1, ListedFacts DEF PoolInv, Counted
    <3>2. CASE ~(before = N /\ c \in Pool!Listed)
      <4>1. Pool!Kind(before) # "empty" \/ c \notin ListedIn(lists)
        BY <1>7, <3>2, ListedFacts
      <4>2. Len(lists'["empty"]) = Len(lists["empty"])
        BY <1>7, <1>8, <2>1, <4>1, Zenon
      <4>. QED  BY <1>2, <3>2, <4>2 DEF PoolInv, Counted
    <3>. QED  BY <3>1, <3>2
  <2>. QED  BY <2>2, <2>3 DEF Counted
<1>10. \A d \in ListedIn(lists') : \E x : Chained(chunk'[d], x, Unowned(owned', d))
  <2>1. TAKE d \in ListedIn(lists')
  <2>2. CASE d = c
    <3>1. Unowned(owned', c) = Unowned(owned, c) \ {b}
      BY <1>2 DEF Unowned
    <3>. QED  BY <1>5, <1>6, <2>2, <3>1
  <2>3. CASE d # c
    <3>1. Unowned(owned', d) = Unowned(owned, d)
      BY <1>2, <2>3 DEF Unowned
    <3>2. d \in ListedIn(lists) /\ d \in Chunks
      BY <1>8, <2>3, ListedFacts
    <3>. QED  BY <1>6, <2>3, <3>1, <3>2 DEF PoolInv
  <2>. QED  BY <2>2, <2>3
<1>11. owned' \subseteq Chunks \X Pool!Blocks /\ \A o \in owned' : o[1] \in ListedIn(lists')
  <2>1. <<c, b>> \in Chunks \X Pool!Blocks /\ <<c, b>>[1] = c
    BY <1>3, <1>5
  <2>. QED  BY <1>2, <1>8, <2>1 DEF PoolInv
<1>. QED  BY <1>6, <1>8, <1>9, <1>10, <1>11 DEF PoolInv

\* gc deletes the first empty chunk; the others stay in their lists.
LEMMA CollectedLists ==
  ASSUME N \in Nat \ {0}, NEW ls, NEW ck, ListsInv(ls, ck), Len(ls.empty) = 2,
         NEW ls2, ls2 = [ls EXCEPT !.empty = Tail(@)], NEW e, e = Head(ls.empty)
  PROVE  /\ ListsInv(ls2, ck) /\ ListedIn(ls2) = ListedIn(ls) \ {e} /\ e \in ToSet(ls.empty)
         /\ Len(ls2.empty) = 1 /\ ls2.full = ls.full /\ e = ls.empty[1]
<1>0. "empty" \in Kinds /\ "full" \in Kinds /\ DOMAIN ls = Kinds
  BY DEF Kinds, ListsInv
<1>1. Once(ls["empty"], Chunks, ToSet(ls["empty"]))
  BY <1>0 DEF ListsInv
<1>. DEFINE m == ls["empty"]
<1>2. m \in Seq(Chunks) /\ m # <<>>
  BY <1>1, OnceFacts
<1>3. RemoveAt(m, 1) = Tail(m) /\ e = m[1] /\ 1 \in 1..Len(m)
  BY <1>2, TailRemoves
<1>4. Once(Tail(m), Chunks, ToSet(m) \ {e}) /\ Len(Tail(m)) = 1 /\ e \in ToSet(m)
  <2>. HIDE DEF m
  <2>1. Once(RemoveAt(m, 1), Chunks, ToSet(m) \ {m[1]})
    BY <1>1, <1>3, OnceRemoved DEF m
  <2>2. Len(Tail(m)) = 1
    BY <1>2, HeadTailProperties DEF m
  <2>3. m[1] \in ToSet(m)
    BY <1>1, <1>3, OnceFacts DEF m
  <2>. QED  BY <1>3, <2>1, <2>2, <2>3, Zenon
<1>5. /\ DOMAIN ls2 = Kinds /\ ls2["empty"] = Tail(m)
      /\ \A k \in Kinds : k # "empty" => ls2[k] = ls[k]
  BY <1>0
<1>6. ToSet(ls2["empty"]) = ToSet(m) \ {e}
  BY <1>4, <1>5 DEF Once
<1>7. \A k \in Kinds : k # "empty" => e \notin ToSet(ls[k])
  BY <1>0, <1>4 DEF ListsInv
<1>. HIDE DEF m
<1>8. \A k \in Kinds : ToSet(ls2[k]) = ToSet(ls[k]) \ {e}
  BY <1>5, <1>6, <1>7 DEF m
<1>9. ListsInv(ls2, ck)
  <2>1. \A k \in Kinds : Once(ls2[k], Chunks, ToSet(ls2[k]))
    BY <1>4, <1>5, <1>6 DEF ListsInv
  <2>2. \A k \in Kinds : \A c \in ToSet(ls2[k]) : Pool!Kind(ck[c].mCountAvBlocks) = k
    BY <1>8 DEF ListsInv
  <2>. QED  BY <1>5, <2>1, <2>2 DEF ListsInv
<1>10. ListedIn(ls2) = ListedIn(ls) \ {e}
  <2>1. ASSUME NEW d \in ListedIn(ls2) PROVE d \in ListedIn(ls) \ {e}
    <3>1. PICK k \in Kinds : d \in ToSet(ls2[k])
      BY <2>1, Zenon DEF ListedIn
    <3>2. d \in ToSet(ls[k]) /\ d # e
      BY <1>8, <3>1
    <3>. QED  BY <3>2, Zenon DEF ListedIn
  <2>2. ASSUME NEW d \in ListedIn(ls), d # e PROVE d \in ListedIn(ls2)
    <3>1. PICK k \in Kinds : d \in ToSet(ls[k])
      BY <2>2, Zenon DEF ListedIn
    <3>2. d \in ToSet(ls2[k])
      BY <1>8, <2>2, <3>1
    <3>. QED  BY <3>2, Zenon DEF ListedIn
  <2>. QED  BY <2>1, <2>2
<1>. QED  BY <1>0, <1>3, <1>4, <1>5, <1>9, <1>10 DEF m

\* deallocate, and the gc of ObjectPool::free: the block is free again, and no chunk with
\* an object in it is deleted.
LEMMA FreeStep ==
  ASSUME N \in Nat \ {0}, PoolInv, NEW c \in Chunks, NEW b \in Pool!Blocks, Pool!Free(c, b)
  PROVE  PoolInv'
<1>. DEFINE before == chunk[c].mCountAvBlocks
            after == before + 1
            relisted == Pool!Relisted(c, before, after)
            empty == IF after = N THEN mEmptyCount + 1 ELSE mEmptyCount
<1>1. /\ <<c, b>> \in owned /\ owned' = owned \ {<<c, b>>}
      /\ chunk' = [chunk EXCEPT ![c] = Pool!Given(chunk[c], b)]
      /\ mFullCount' = IF before = 0 THEN mFullCount - 1 ELSE mFullCount
      /\ IF empty > 1
           THEN lists' = [relisted EXCEPT !.empty = Tail(@)] /\ mEmptyCount' = empty - 1
           ELSE lists' = relisted /\ mEmptyCount' = empty
  BY DEF Pool!Free
<1>2. c \in ListedIn(lists)
  <2>1. <<c, b>>[1] = c
    OBVIOUS
  <2>. QED  BY <1>1, <2>1 DEF PoolInv
<1>3. PICK ch : Chained(chunk[c], ch, Unowned(owned, c))
  BY <1>2 DEF PoolInv
<1>4. /\ b \notin Unowned(owned, c) /\ before \in 0..N /\ after \in 0..N /\ before < N
      /\ Pool!Given(chunk[c], b).mCountAvBlocks = after
      /\ Chained(Pool!Given(chunk[c], b), InsertAt(ch, 0 + 1, b), Unowned(owned, c) \cup {b})
  <2>1. b \notin Unowned(owned, c)
    BY <1>1 DEF Unowned
  <2>2. Once(ch, Pool!Blocks, Unowned(owned, c)) /\ before = Len(ch)
    BY <1>3 DEF Chained
  <2>3. Len(ch) \in 0..N /\ Len(ch) < N
    BY <2>1, <2>2, ChainLength
  <2>4. before \in 0..N /\ after \in 0..N /\ before < N
    BY <2>2, <2>3
  <2>. QED  BY <1>3, <2>1, <2>4, GivenChain DEF Pool!Given
<1>5. /\ DOMAIN chunk' = Chunks /\ chunk'[c] = Pool!Given(chunk[c], b)
      /\ \A d \in Chunks : d # c => chunk'[d] = chunk[d]
  BY <1>1 DEF PoolInv
<1>6. /\ Pool!Kind(after) # "full" /\ Pool!Kind(before) # "empty"
      /\ Pool!Kind(before) = "full" <=> before = 0
      /\ Pool!Kind(after) = "empty" <=> after = N
  BY <1>4, KindFacts
<1>. HIDE DEF before, after, relisted, empty
<1>7. /\ ListsInv(relisted, chunk') /\ ListedIn(relisted) = ListedIn(lists) \cup {c}
      /\ \A k \in Kinds :
           /\ Pool!Kind(after) = k /\ Pool!Kind(before) # k => Len(relisted[k]) = Len(lists[k]) + 1
           /\ Pool!Kind(before) = k /\ Pool!Kind(after) # k /\ c \in ListedIn(lists)
                => Len(relisted[k]) = Len(lists[k]) - 1
           /\ (\/ Pool!Kind(after) = Pool!Kind(before)
               \/ Pool!Kind(after) # k /\ Pool!Kind(before) # k
               \/ Pool!Kind(after) # k /\ c \notin ListedIn(lists))
              => Len(relisted[k]) = Len(lists[k])
      /\ Pool!Kind(after) # Pool!Kind(before)
           => relisted[Pool!Kind(after)] = Append(lists[Pool!Kind(after)], c)
  <2>. DEFINE ck == chunk'
  <2>1. ck[c].mCountAvBlocks = after /\ \A d \in Chunks : d # c => ck[d] = chunk[d]
    BY <1>4, <1>5
  <2>2. ListsInv(lists, chunk) /\ before \in 0..N /\ after \in 0..N
    BY <1>4 DEF PoolInv
  <2>3. relisted = Pool!Relisted(c, before, after)
    BY DEF relisted
  <2>4. before = chunk[c].mCountAvBlocks
    BY DEF before
  <2>. HIDE DEF ck
  <2>5. /\ ListsInv(relisted, ck) /\ ListedIn(relisted) = ListedIn(lists) \cup {c}
        /\ \A k \in Kinds :
             /\ Pool!Kind(after) = k /\ Pool!Kind(before) # k => Len(relisted[k]) = Len(lists[k]) + 1
             /\ Pool!Kind(before) = k /\ Pool!Kind(after) # k /\ c \in ListedIn(lists)
                  => Len(relisted[k]) = Len(lists[k]) - 1
             /\ (\/ Pool!Kind(after) = Pool!Kind(before)
                 \/ Pool!Kind(after) # k /\ Pool!Kind(before) # k
                 \/ Pool!Kind(after) # k /\ c \notin ListedIn(lists))
                => Len(relisted[k]) = Len(lists[k])
        /\ Pool!Kind(after) # Pool!Kind(before)
             => relisted[Pool!Kind(after)] = Append(lists[Pool!Kind(after)], c)
    BY <1>2, <2>1, <2>2, <2>3, <2>4, RelistedLists
  <2>. QED  BY <2>5 DEF ck
<1>8. "full" \in Kinds /\ "empty" \in Kinds
  BY DEF Kinds
<1>9. mFullCount' = Len(relisted["full"])
  <2>1. CASE before = 0
    <3>1. Len(relisted["full"]) = Len(lists["full"]) - 1
      BY <1>2, <1>6, <1>7, <1>8, <2>1, Zenon
    <3>. QED  BY <1>1, <2>1, <3>1 DEF PoolInv, Counted
  <2>2. CASE before # 0
    <3>1. Len(relisted["full"]) = Len(lists["full"])
      BY <1>6, <1>7, <1>8, <2>2, Zenon
    <3>. QED  BY <1>1, <2>2, <3>1 DEF PoolInv, Counted
  <2>. QED  BY <2>1, <2>2
<1>10. empty = Len(relisted["empty"]) /\ mEmptyCount \in 0..1
  <2>0. mEmptyCount \in 0..1
    <3>1. mEmptyCount \in Nat
      BY ListedFacts
    <3>2. mEmptyCount =< 1
      BY DEF PoolInv, Counted
    <3>. QED  BY <3>1, <3>2, SMT
  <2>1. mEmptyCount = Len(lists["empty"])
    BY DEF PoolInv, Counted
  <2>2. CASE after = N
    <3>1. Len(relisted["empty"]) = Len(lists["empty"]) + 1
      BY <1>6, <1>7, <1>8, <2>2, Zenon
    <3>2. empty = mEmptyCount + 1
      BY <2>2 DEF empty
    <3>3. empty = Len(relisted["empty"])
      BY <2>1, <3>1, <3>2, Zenon
    <3>. QED  BY <2>0, <3>3
  <2>3. CASE after # N
    <3>1. Len(relisted["empty"]) = Len(lists["empty"])
      BY <1>6, <1>7, <1>8, <2>3, Zenon
    <3>2. empty = mEmptyCount
      BY <2>3 DEF empty
    <3>3. empty = Len(relisted["empty"])
      BY <2>1, <3>1, <3>2, Zenon
    <3>. QED  BY <2>0, <3>3
  <2>. QED  BY <2>2, <2>3
<1>11. ListedIn(relisted) = ListedIn(lists) /\ ListedIn(lists) \subseteq Chunks
  BY <1>2, <1>7, ListedFacts
<1>12. \A d \in ListedIn(lists) : \E x : Chained(chunk'[d], x, Unowned(owned', d))
  <2>1. TAKE d \in ListedIn(lists)
  <2>2. CASE d = c
    <3>1. Unowned(owned', c) = Unowned(owned, c) \cup {b}
      BY <1>1 DEF Unowned
    <3>. QED  BY <1>4, <1>5, <2>2, <3>1
  <2>3. CASE d # c
    <3>1. Unowned(owned', d) = Unowned(owned, d)
      BY <1>1, <2>3 DEF Unowned
    <3>. QED  BY <1>5, <1>11, <2>3, <3>1 DEF PoolInv
  <2>. QED  BY <2>2, <2>3
<1>13. CASE empty > 1
  <2>. DEFINE e == Head(relisted.empty)
              ls2 == [relisted EXCEPT !.empty = Tail(@)]
  <2>1. empty = 2 /\ after = N /\ mEmptyCount = 1
    BY <1>10, <1>13 DEF empty
  <2>2. lists' = ls2 /\ mEmptyCount' = 1
    BY <1>1, <1>13, <2>1
  <2>3. /\ ListsInv(ls2, chunk') /\ ListedIn(ls2) = ListedIn(relisted) \ {e} /\ e \in ToSet(relisted.empty)
        /\ Len(ls2.empty) = 1 /\ ls2.full = relisted.full /\ e = relisted.empty[1]
    <3>. DEFINE ck == chunk'
    <3>1. ListsInv(relisted, ck) /\ Len(relisted.empty) = 2
      BY <1>7, <1>10, <2>1
    <3>. HIDE DEF ck
    <3>2. /\ ListsInv(ls2, ck) /\ ListedIn(ls2) = ListedIn(relisted) \ {e} /\ e \in ToSet(relisted.empty)
          /\ Len(ls2.empty) = 1 /\ ls2.full = relisted.full /\ e = relisted.empty[1]
      BY <3>1, CollectedLists
    <3>. QED  BY <3>2 DEF ck
  <2>. HIDE DEF e, ls2
  <2>4. e # c /\ e \in ListedIn(lists)
    <3>1. relisted["empty"] = Append(lists["empty"], c)
      BY <1>6, <1>7, <2>1
    <3>2. lists["empty"] \in Seq(Chunks) /\ Len(lists["empty"]) = 1 /\ 1 \in 1..Len(lists["empty"])
      <4>1. lists["empty"] \in Seq(Chunks)
        BY <1>8, ListedFacts
      <4>2. mEmptyCount = Len(lists["empty"])
        BY DEF PoolInv, Counted
      <4>. QED  BY <2>1, <4>1, <4>2
    <3>3. e = lists["empty"][1]
      BY <2>3, <3>1, <3>2
    <3>4. e \in ToSet(lists["empty"]) /\ e \in ListedIn(lists)
      BY <1>8, <3>2, <3>3, ListedFacts
    <3>5. Pool!Kind(chunk[e].mCountAvBlocks) = "empty"
      BY <1>8, <3>4 DEF PoolInv, ListsInv
    <3>. QED  BY <1>6, <3>4, <3>5 DEF before
  <2>5. \A o \in owned : o[1] # e
    <3>1. PICK x : Chained(chunk[e], x, Unowned(owned, e))
      BY <2>4 DEF PoolInv
    <3>2. chunk[e] = chunk'[e]
      BY <1>5, <1>11, <2>4
    <3>3. Pool!Kind(chunk[e].mCountAvBlocks) = "empty"
      BY <1>7, <1>8, <2>3, <3>2 DEF ListsInv
    <3>4. Once(x, Pool!Blocks, Unowned(owned, e)) /\ chunk[e].mCountAvBlocks = Len(x)
      BY <3>1 DEF Chained
    <3>5. Len(x) = N
      BY <3>3, <3>4, ChainLength, KindFacts
    <3>6. \A y \in Pool!Blocks : y \in Unowned(owned, e)
      BY <3>4, <3>5, ChainLength
    <3>7. SUFFICES ASSUME NEW o \in owned, o[1] = e PROVE FALSE
      OBVIOUS
    <3>8. o \in Chunks \X Pool!Blocks
      BY DEF PoolInv
    <3>9. o = <<e, o[2]>> /\ o[2] \in Pool!Blocks
      BY <3>7, <3>8
    <3>. QED  BY <3>6, <3>9 DEF Unowned
  <2>6. ListedIn(lists') = ListedIn(lists) \ {e}
    BY <1>11, <2>2, <2>3
  <2>7. owned' \subseteq Chunks \X Pool!Blocks /\ \A o \in owned' : o[1] \in ListedIn(lists')
    BY <1>1, <2>5, <2>6 DEF PoolInv
  <2>8. Counted(lists', mFullCount', mEmptyCount')
    BY <1>9, <2>2, <2>3 DEF Counted
  <2>9. ListsInv(lists', chunk')
    BY <2>2, <2>3
  <2>10. \A d \in ListedIn(lists') : \E x : Chained(chunk'[d], x, Unowned(owned', d))
    BY <1>12, <2>6
  <2>. QED  BY <1>5, <2>7, <2>8, <2>9, <2>10 DEF PoolInv
<1>14. CASE ~(empty > 1)
  <2>1. lists' = relisted /\ mEmptyCount' = empty
    BY <1>1, <1>14
  <2>2. ListedIn(lists') = ListedIn(lists) /\ ListsInv(lists', chunk')
    BY <1>7, <1>11, <2>1
  <2>3. empty \in Nat /\ empty =< 1
    BY <1>10, <1>14 DEF empty
  <2>4. Counted(lists', mFullCount', mEmptyCount')
    BY <1>9, <1>10, <2>1, <2>3 DEF Counted
  <2>5. owned' \subseteq Chunks \X Pool!Blocks /\ \A o \in owned' : o[1] \in ListedIn(lists')
    BY <1>1, <2>2 DEF PoolInv
  <2>6. \A d \in ListedIn(lists') : \E x : Chained(chunk'[d], x, Unowned(owned', d))
    BY <1>12, <2>2
  <2>. QED  BY <1>5, <2>2, <2>4, <2>5, <2>6 DEF PoolInv
<1>. QED  BY <1>13, <1>14

LEMMA InitPoolInv == ASSUME N \in Nat \ {0}, Pool!Init PROVE PoolInv
<1>1. /\ chunk = [c \in Chunks |-> Pool!Fresh] /\ owned = {}
      /\ lists = [full |-> <<>>, free |-> <<>>, empty |-> <<>>]
      /\ mFullCount = 0 /\ mEmptyCount = 0
  BY DEF Pool!Init
<1>2. DOMAIN lists = Kinds /\ \A k \in Kinds : lists[k] = <<>>
  BY <1>1 DEF Kinds
<1>3. \A k \in Kinds : Once(lists[k], Chunks, {}) /\ ToSet(lists[k]) = {}
  BY <1>2, OnceNothing DEF Once
<1>4. ListsInv(lists, chunk) /\ ListedIn(lists) = {}
  BY <1>2, <1>3 DEF ListsInv, ListedIn
<1>5. Counted(lists, mFullCount, mEmptyCount)
  BY <1>1 DEF Counted
<1>. QED  BY <1>1, <1>4, <1>5 DEF PoolInv

LEMMA NextPoolInv ==
  ASSUME N \in Nat \ {0}, PoolInv, [Pool!Next]_(Pool!vars)
  PROVE  PoolInv'
<1>1. CASE UNCHANGED Pool!vars
  BY <1>1 DEF Pool!vars, PoolInv
<1>. QED  BY <1>1, GetStep, FreeStep DEF Pool!Next

\* The invariant says what BlocksAgree does of the chains Chain computes.
LEMMA PoolInvAgrees == ASSUME N \in Nat \ {0}, PoolInv PROVE Pool!BlocksAgree
<1>1. ASSUME NEW c \in Pool!Listed
      PROVE  /\ Pool!ToSet(Pool!Chain(chunk[c])) = {b \in Pool!Blocks : <<c, b>> \notin owned}
             /\ Pool!IsInjective(Pool!Chain(chunk[c]))
  <2>1. PICK ch : Chained(chunk[c], ch, Unowned(owned, c))
    BY ListedFacts DEF PoolInv
  <2>2. Pool!Chain(chunk[c]) = ch
    BY <2>1, ChainIsChain
  <2>. QED  BY <2>1, <2>2 DEF Chained, Once, Unowned, Pool!ToSet, ToSet, Pool!IsInjective, IsInjective
<1>2. ASSUME NEW k \in DOMAIN lists
      PROVE  /\ Pool!ToSet(lists[k]) = {c \in Pool!Listed : Pool!Kind(chunk[c].mCountAvBlocks) = k}
             /\ Pool!IsInjective(lists[k])
  <2>1. k \in Kinds /\ Once(lists[k], Chunks, ToSet(lists[k]))
    BY DEF PoolInv, ListsInv
  <2>2. Pool!IsInjective(lists[k])
    BY <2>1 DEF Once, Pool!IsInjective, IsInjective
  <2>3. \A l \in Kinds : \A c \in ToSet(lists[l]) : Pool!Kind(chunk[c].mCountAvBlocks) = l
    BY DEF PoolInv, ListsInv
  <2>4. ToSet(lists[k]) = {c \in ListedIn(lists) : Pool!Kind(chunk[c].mCountAvBlocks) = k}
    BY <2>1, <2>3 DEF ListedIn
  <2>. QED  BY <2>2, <2>4, ListedFacts DEF Pool!ToSet, ToSet
<1>. QED  BY <1>1, <1>2, ListedFacts DEF Pool!BlocksAgree, PoolInv, Counted

\* BlocksAgree: an ObjectPool gives no block out twice and loses none, whatever the
\* owners write into their blocks; its chunks stand in the list of their kind, the two
\* counters count, and no chunk with an object in it is deleted.
THEOREM BlocksAlwaysAgree ==
  ASSUME N \in Nat \ {0}
  PROVE  CoreSpec => []BlocksAgree
<1>1. Pool!Init => PoolInv
  BY InitPoolInv
<1>2. PoolInv /\ [Pool!Next]_(Pool!vars) => PoolInv'
  BY NextPoolInv
<1>3. PoolInv => BlocksAgree
  BY PoolInvAgrees DEF BlocksAgree
<1>. QED  BY <1>1, <1>2, <1>3, PartsRun, PTL DEF Pool!Spec

-----------------------------------------------------------------------------
(* The lists of nodes.  The pointers of all lists are those of sequences   *)
(* that have no node in common, and agree in both directions.              *)

ListConstants ==
  /\ Nodes \in SUBSET (Nat \ {0}) /\ IsFiniteSet(Nodes)
  /\ Lists \in SUBSET (Nat \ {0}) /\ Temp \in (Nat \ {0}) \ Lists

AllLists == Lists \cup {Temp}

PointsTo == [List!Points -> List!Points \cup {List!Null}]

\* b comes after a where a comes before b; nothing is before a head or behind a tail.
Wired(q) ==
  /\ q \in [next : PointsTo, pre : PointsTo]
  /\ \A a \in List!Points : q.next[a] # List!Null => q.pre[q.next[a]] = a
  /\ \A a \in List!Points : q.pre[a] # List!Null => q.next[q.pre[a]] = a
  /\ \A l \in AllLists : /\ q.pre[List!HeadOf(l)] = List!Null
                         /\ q.next[List!TailOf(l)] = List!Null

\* No node is in two of the sequences or twice in one.
NoneShared(ss) ==
  \A l, m \in AllLists : \A i \in 1..Len(ss[l]), j \in 1..Len(ss[m]) :
      ss[l][i] = ss[m][j] => l = m /\ i = j

Stands(q, ss) ==
  /\ Wired(q)
  /\ ss \in [AllLists -> Seq(Nodes)]
  /\ NoneShared(ss)
  /\ \A l \in AllLists : List!Joined(q, l, ss[l])

\* A chain that is in no list: its ends point nowhere.
Loose(q, ss, c) ==
  /\ c \in Seq(Nodes) /\ c # <<>>
  /\ \A i, j \in 1..Len(c) : c[i] = c[j] => i = j
  /\ \A l \in AllLists : \A i \in 1..Len(ss[l]), j \in 1..Len(c) : ss[l][i] # c[j]
  /\ \A i \in 1..Len(c) - 1 : q.next[c[i]] = c[i + 1]
  /\ q.pre[c[1]] = List!Null /\ q.next[c[Len(c)]] = List!Null

LEMMA PointsDiffer ==
  ASSUME ListConstants, NEW l \in AllLists
  PROVE  /\ List!HeadOf(l) \in List!Points /\ List!HeadOf(l) \notin Nodes
         /\ List!TailOf(l) \in List!Points /\ List!TailOf(l) \notin Nodes
         /\ Nodes \subseteq List!Points /\ List!Null \notin List!Points
         /\ \A m \in AllLists : /\ List!HeadOf(l) # List!TailOf(m)
                                /\ List!HeadOf(l) = List!HeadOf(m) => l = m
                                /\ List!TailOf(l) = List!TailOf(m) => l = m
<1>1. AllLists \in SUBSET (Nat \ {0})
  BY DEF ListConstants, AllLists
<1>2. \A m \in AllLists : /\ List!HeadOf(l) # List!TailOf(m)
                          /\ List!HeadOf(l) = List!HeadOf(m) => l = m
                          /\ List!TailOf(l) = List!TailOf(m) => l = m
  BY <1>1 DEF List!HeadOf, List!TailOf
<1>3. List!HeadOf(l) \notin Nodes /\ List!TailOf(l) \notin Nodes
  BY <1>1 DEF List!HeadOf, List!TailOf, ListConstants
<1>4. List!HeadOf(l) \in List!Points /\ List!TailOf(l) \in List!Points /\ Nodes \subseteq List!Points
  BY DEF List!Points, AllLists
<1>5. List!Null \notin List!Points
  <2>1. List!Null \notin Nodes
    BY DEF List!Null, ListConstants
  <2>2. \A m \in AllLists : List!HeadOf(m) # List!Null /\ List!TailOf(m) # List!Null
    BY <1>1 DEF List!HeadOf, List!TailOf, List!Null
  <2>. QED  BY <2>1, <2>2 DEF List!Points, AllLists
<1>. QED  BY <1>2, <1>3, <1>4, <1>5

LEMMA JoinIs ==
  ASSUME NEW q, NEW a, NEW b, NEW x \in List!Points
  PROVE  /\ List!Join(q, a, b).next[x] = IF x = a THEN b ELSE q.next[x]
         /\ List!Join(q, a, b).pre[x] = IF x = b THEN a ELSE q.pre[x]
BY DEF List!Join

LEMMA JoinShape ==
  ASSUME NEW q, NEW a, NEW b
  PROVE  /\ List!Join(q, a, b) = [next |-> List!Join(q, a, b).next, pre |-> List!Join(q, a, b).pre]
         /\ List!Join(q, a, b).next = [x \in List!Points |-> List!Join(q, a, b).next[x]]
         /\ List!Join(q, a, b).pre = [x \in List!Points |-> List!Join(q, a, b).pre[x]]
BY DEF List!Join

\* Joins that do not touch the same pointers may be made in either order.
LEMMA JoinsCommute ==
  ASSUME NEW q, NEW a, NEW b, NEW c, NEW d, a # c, b # d
  PROVE  List!Join(List!Join(q, a, b), c, d) = List!Join(List!Join(q, c, d), a, b)
BY DEF List!Join

LEMMA LeftIs ==
  ASSUME NEW q, NEW n \in List!Points, NEW x \in List!Points
  PROVE  /\ List!Left(q, n).next[x] =
              IF x = n THEN List!Null ELSE IF x = q.pre[n] THEN q.next[n] ELSE q.next[x]
         /\ List!Left(q, n).pre[x] =
              IF x = n THEN List!Null ELSE IF x = q.next[n] THEN q.pre[n] ELSE q.pre[x]
BY DEF List!Left, List!Join

LEMMA LeftShape ==
  ASSUME NEW q, NEW n
  PROVE  /\ List!Left(q, n) = [next |-> List!Left(q, n).next, pre |-> List!Left(q, n).pre]
         /\ List!Left(q, n).next = [x \in List!Points |-> List!Left(q, n).next[x]]
         /\ List!Left(q, n).pre = [x \in List!Points |-> List!Left(q, n).pre[x]]
BY DEF List!Left, List!Join

\* Where a list's places lie, and that no two places are one.
LEMMA PlacesApart ==
  ASSUME ListConstants, NEW ss \in [AllLists -> Seq(Nodes)], NoneShared(ss),
         NEW l \in AllLists, NEW m \in AllLists,
         NEW i \in 0..Len(ss[l]) + 1, NEW j \in 0..Len(ss[m]) + 1,
         List!At(l, ss[l], i) = List!At(m, ss[m], j)
  PROVE  l = m /\ i = j
<1>1. ss[l] \in Seq(Nodes) /\ ss[m] \in Seq(Nodes)
  OBVIOUS
<1>2. Len(ss[l]) \in Nat /\ Len(ss[m]) \in Nat
  BY <1>1
<1>3. i \in 1..Len(ss[l]) => ss[l][i] \in Nodes
  BY <1>1
<1>4. j \in 1..Len(ss[m]) => ss[m][j] \in Nodes
  BY <1>1
<1>5. i = 0 \/ i = Len(ss[l]) + 1 \/ (i \in 1..Len(ss[l]) /\ i # 0 /\ i # Len(ss[l]) + 1)
  BY <1>2
<1>6. j = 0 \/ j = Len(ss[m]) + 1 \/ (j \in 1..Len(ss[m]) /\ j # 0 /\ j # Len(ss[m]) + 1)
  BY <1>2
<1>7. 0 # Len(ss[l]) + 1 /\ 0 # Len(ss[m]) + 1
  BY <1>2
<1>. QED  BY <1>3, <1>4, <1>5, <1>6, <1>7, PointsDiffer DEF List!At, NoneShared

LEMMA PlacesArePoints ==
  ASSUME ListConstants, NEW s \in Seq(Nodes), NEW l \in AllLists, NEW i \in 0..Len(s) + 1
  PROVE  /\ List!At(l, s, i) \in List!Points /\ List!At(l, s, i) # List!Null
         /\ i \in 1..Len(s) => List!At(l, s, i) = s[i] /\ s[i] \in Nodes
         /\ List!At(l, s, 0) = List!HeadOf(l) /\ List!At(l, s, Len(s) + 1) = List!TailOf(l)
<1>1. Len(s) \in Nat /\ \A k \in 1..Len(s) : s[k] \in Nodes
  OBVIOUS
<1>2. i = 0 \/ i = Len(s) + 1 \/ (i \in 1..Len(s) /\ i # 0 /\ i # Len(s) + 1)
  BY <1>1
<1>. QED  BY <1>1, <1>2, PointsDiffer DEF List!At

\* The end of a pointer is a place or Null.
LEMMA WiredPoints ==
  ASSUME NEW q, Wired(q), NEW x \in List!Points
  PROVE  /\ q.next[x] = List!Null \/ (q.next[x] \in List!Points /\ q.pre[q.next[x]] = x)
         /\ q.pre[x] = List!Null \/ (q.pre[x] \in List!Points /\ q.next[q.pre[x]] = x)
         /\ q.next[x] \in List!Points \cup {List!Null}
         /\ q.pre[x] \in List!Points \cup {List!Null}
BY DEF Wired, PointsTo

-----------------------------------------------------------------------------
(* A node leaves.                                                          *)

LEMMA LeftWired ==
  ASSUME ListConstants, NEW q, Wired(q), NEW n \in Nodes
  PROVE  Wired(List!Left(q, n))
<1>. DEFINE j == List!Left(q, n)
            a == q.pre[n]
            b == q.next[n]
<1>1. n \in List!Points /\ List!Null \notin List!Points
  BY PointsDiffer DEF AllLists
<1>2. /\ a = List!Null \/ (a \in List!Points /\ q.next[a] = n)
      /\ b = List!Null \/ (b \in List!Points /\ q.pre[b] = n)
  BY <1>1, WiredPoints
<1>3. \A x \in List!Points :
         /\ j.next[x] = IF x = n THEN List!Null ELSE IF x = a THEN b ELSE q.next[x]
         /\ j.pre[x] = IF x = n THEN List!Null ELSE IF x = b THEN a ELSE q.pre[x]
  BY <1>1, LeftIs
<1>4. /\ j = [next |-> j.next, pre |-> j.pre]
      /\ j.next = [x \in List!Points |-> j.next[x]] /\ j.pre = [x \in List!Points |-> j.pre[x]]
  BY LeftShape
<1>5. \A x \in List!Points :
         /\ q.next[x] = List!Null \/ (q.next[x] \in List!Points /\ q.pre[q.next[x]] = x)
         /\ q.pre[x] = List!Null \/ (q.pre[x] \in List!Points /\ q.next[q.pre[x]] = x)
  BY WiredPoints
<1>. HIDE DEF j, a, b
<1>6. j \in [next : PointsTo, pre : PointsTo]
  <2>1. \A x \in List!Points : /\ j.next[x] \in List!Points \cup {List!Null}
                               /\ j.pre[x] \in List!Points \cup {List!Null}
    BY <1>2, <1>3, <1>5
  <2>2. j.next \in PointsTo /\ j.pre \in PointsTo
    BY <1>4, <2>1 DEF PointsTo
  <2>. QED  BY <1>4, <2>2
<1>7. \A x \in List!Points : j.next[x] # List!Null => j.pre[j.next[x]] = x
  BY <1>1, <1>2, <1>3, <1>5 DEF a, b
<1>8. \A x \in List!Points : j.pre[x] # List!Null => j.next[j.pre[x]] = x
  BY <1>1, <1>2, <1>3, <1>5 DEF a, b
<1>9. \A l \in AllLists : j.pre[List!HeadOf(l)] = List!Null /\ j.next[List!TailOf(l)] = List!Null
  <2>1. TAKE l \in AllLists
  <2>2. /\ List!HeadOf(l) \in List!Points /\ List!TailOf(l) \in List!Points
        /\ List!HeadOf(l) # n /\ List!TailOf(l) # n
    BY PointsDiffer
  <2>3. q.pre[List!HeadOf(l)] = List!Null /\ q.next[List!TailOf(l)] = List!Null
    BY DEF Wired
  <2>. QED  BY <1>1, <1>2, <1>3, <2>2, <2>3
<1>. QED  BY <1>6, <1>7, <1>8, <1>9 DEF Wired, j

LEMMA RemovedFrom ==
  ASSUME NEW S, NEW s \in Seq(S), NEW k \in 1..Len(s)
  PROVE  LET t == List!RemoveAt(s, k)
         IN  /\ t \in Seq(S) /\ Len(t) = Len(s) - 1
             /\ \A i \in 1..Len(t) : t[i] = IF i < k THEN s[i] ELSE s[i + 1]
<1>. DEFINE a == SubSeq(s, 1, k - 1)
            b == SubSeq(s, k + 1, Len(s))
<1>1. Len(s) \in Nat /\ k \in Nat /\ 1 <= k /\ k <= Len(s)
  OBVIOUS
<1>2. a \in Seq(S) /\ Len(a) = k - 1 /\ \A i \in 1..k - 1 : a[i] = s[i]
  BY <1>1
<1>3. b \in Seq(S) /\ Len(b) = Len(s) - k /\ \A i \in 1..Len(s) - k : b[i] = s[k + i]
  BY <1>1
<1>4. List!RemoveAt(s, k) = a \o b
  BY DEF List!RemoveAt
<1>. HIDE DEF a, b
<1>5. a \o b \in Seq(S) /\ Len(a \o b) = Len(s) - 1
  <2>1. a \o b \in Seq(S) /\ Len(a \o b) = Len(a) + Len(b)
    BY <1>2, <1>3, ConcatProperties
  <2>2. (k - 1) + (Len(s) - k) = Len(s) - 1
    BY <1>1
  <2>. QED  BY <1>2, <1>3, <2>1, <2>2
<1>6. ASSUME NEW i \in 1..Len(s) - 1 PROVE (a \o b)[i] = IF i < k THEN s[i] ELSE s[i + 1]
  <2>1. CASE i < k
    BY <1>1, <1>2, <1>3, <2>1
  <2>2. CASE ~(i < k)
    <3>1. i - (k - 1) \in 1..Len(s) - k /\ k + (i - (k - 1)) = i + 1
      BY <1>1, <2>2
    <3>2. (a \o b)[i] = b[i - (k - 1)]
      BY <1>1, <1>2, <1>3, <2>2
    <3>. QED  BY <1>3, <2>2, <3>1, <3>2
  <2>. QED  BY <2>1, <2>2
<1>. QED  BY <1>4, <1>5, <1>6

LEMMA LeaveList ==
  ASSUME ListConstants, NEW q, NEW ss, Stands(q, ss), NEW l \in AllLists, NEW k \in 1..Len(ss[l])
  PROVE  Stands(List!Left(q, ss[l][k]), [ss EXCEPT ![l] = List!RemoveAt(@, k)])
<1>. DEFINE n == ss[l][k]
            j == List!Left(q, n)
            t == List!RemoveAt(ss[l], k)
            tt == [ss EXCEPT ![l] = List!RemoveAt(@, k)]
<1>1. /\ Wired(q) /\ ss \in [AllLists -> Seq(Nodes)] /\ NoneShared(ss)
      /\ \A m \in AllLists : List!Joined(q, m, ss[m])
  BY DEF Stands
<1>2. ss[l] \in Seq(Nodes) /\ Len(ss[l]) \in Nat /\ n \in Nodes /\ k \in Nat /\ 1 <= k /\ k <= Len(ss[l])
  BY <1>1
<1>3. t \in Seq(Nodes) /\ Len(t) = Len(ss[l]) - 1
  BY <1>2, RemovedFrom
<1>4. \A i \in 1..Len(t) : t[i] = IF i < k THEN ss[l][i] ELSE ss[l][i + 1]
  BY <1>2, RemovedFrom
<1>5. /\ tt \in [AllLists -> Seq(Nodes)] /\ tt[l] = t
      /\ \A m \in AllLists : m # l => tt[m] = ss[m]
  BY <1>1, <1>3
<1>6. Wired(j)
  BY <1>1, <1>2, LeftWired
<1>. HIDE DEF t, tt
<1>7. NoneShared(tt)
  <2>1. SUFFICES ASSUME NEW x \in AllLists, NEW y \in AllLists,
                        NEW i \in 1..Len(tt[x]), NEW h \in 1..Len(tt[y]), tt[x][i] = tt[y][h]
                 PROVE  x = y /\ i = h
    BY DEF NoneShared
  <2>. DEFINE u(z, o) == IF z = l /\ ~(o < k) THEN o + 1 ELSE o
  <2>2. \A z \in AllLists : \A o \in 1..Len(tt[z]) : u(z, o) \in 1..Len(ss[z]) /\ tt[z][o] = ss[z][u(z, o)]
    <3>1. TAKE z \in AllLists
    <3>2. ss[z] \in Seq(Nodes) /\ Len(ss[z]) \in Nat
      BY <1>1
    <3>3. CASE z = l
      <4>1. \A o \in 1..Len(t) : o \in 1..Len(ss[l]) /\ o + 1 \in 1..Len(ss[l])
        BY <1>2, <1>3
      <4>. QED  BY <1>4, <1>5, <3>3, <4>1
    <3>4. CASE z # l
      BY <1>5, <3>4
    <3>. QED  BY <3>3, <3>4
  <2>3. u(x, i) \in 1..Len(ss[x]) /\ u(y, h) \in 1..Len(ss[y]) /\ ss[x][u(x, i)] = ss[y][u(y, h)]
    BY <2>1, <2>2
  <2>4. x = y /\ u(x, i) = u(y, h)
    BY <1>1, <2>3 DEF NoneShared
  <2>5. i \in Int /\ h \in Int /\ k \in Int
    BY <1>2
  <2>. QED  BY <2>4, <2>5
<1>8. \A x \in List!Points :
         /\ j.next[x] = IF x = n THEN List!Null ELSE IF x = q.pre[n] THEN q.next[n] ELSE q.next[x]
         /\ j.pre[x] = IF x = n THEN List!Null ELSE IF x = q.next[n] THEN q.pre[n] ELSE q.pre[x]
  BY <1>2, LeftIs, PointsDiffer
<1>9. \A m \in AllLists : \A i \in 0..Len(ss[m]) :
         /\ q.next[List!At(m, ss[m], i)] = List!At(m, ss[m], i + 1)
         /\ q.pre[List!At(m, ss[m], i + 1)] = List!At(m, ss[m], i)
  BY <1>1 DEF List!Joined
<1>10. n = List!At(l, ss[l], k)
  BY <1>2, PlacesArePoints
<1>11. /\ k - 1 \in 0..Len(ss[l]) /\ k \in 0..Len(ss[l]) /\ (k - 1) + 1 = k
       /\ k - 1 \in 0..Len(ss[l]) + 1 /\ k \in 0..Len(ss[l]) + 1 /\ k + 1 \in 0..Len(ss[l]) + 1
  BY <1>2
<1>12. q.pre[n] = List!At(l, ss[l], k - 1) /\ q.next[n] = List!At(l, ss[l], k + 1)
  BY <1>9, <1>10, <1>11
<1>. HIDE DEF n, j
<1>13. ASSUME NEW m \in AllLists, m # l PROVE List!Joined(j, m, tt[m])
  <2>1. SUFFICES ASSUME NEW i \in 0..Len(ss[m])
                 PROVE  /\ j.next[List!At(m, ss[m], i)] = List!At(m, ss[m], i + 1)
                        /\ j.pre[List!At(m, ss[m], i + 1)] = List!At(m, ss[m], i)
    BY <1>5, <1>13 DEF List!Joined
  <2>2. ss[m] \in Seq(Nodes) /\ Len(ss[m]) \in Nat
    BY <1>1
  <2>3. i \in 0..Len(ss[m]) + 1 /\ i + 1 \in 0..Len(ss[m]) + 1
    BY <2>2
  <2>4. \A o \in 0..Len(ss[m]) + 1 :
           /\ List!At(m, ss[m], o) \in List!Points /\ List!At(m, ss[m], o) # n
           /\ List!At(m, ss[m], o) # q.pre[n] /\ List!At(m, ss[m], o) # q.next[n]
    <3>1. TAKE o \in 0..Len(ss[m]) + 1
    <3>2. \A r \in 0..Len(ss[l]) + 1 : List!At(m, ss[m], o) # List!At(l, ss[l], r)
      BY <1>1, <1>13, PlacesApart
    <3>3. List!At(m, ss[m], o) \in List!Points
      BY <2>2, PlacesArePoints
    <3>. QED  BY <1>10, <1>11, <1>12, <3>2, <3>3
  <2>. QED  BY <1>8, <1>9, <2>3, <2>4
<1>14. List!Joined(j, l, tt[l])
  <2>1. \A i \in 0..Len(t) + 1 : List!At(l, t, i) = List!At(l, ss[l], IF i < k THEN i ELSE i + 1)
    <3>1. TAKE i \in 0..Len(t) + 1
    <3>2. CASE i \in 1..Len(t)
      <4>1. i \in 0..Len(t) + 1 /\ i \in 1..Len(ss[l]) /\ i + 1 \in 1..Len(ss[l])
            /\ i \in 0..Len(ss[l]) + 1 /\ i + 1 \in 0..Len(ss[l]) + 1
        BY <1>2, <1>3, <3>2
      <4>. QED  BY <1>2, <1>3, <1>4, <3>2, <4>1, PlacesArePoints
    <3>3. CASE i = 0
      BY <1>2, <1>3, <3>3 DEF List!At
    <3>4. CASE i = Len(t) + 1
      <4>1. i + 1 = Len(ss[l]) + 1 /\ ~(i < k) /\ i # 0 /\ i + 1 # 0
        BY <1>2, <1>3, <3>4
      <4>. QED  BY <3>4, <4>1 DEF List!At
    <3>. QED  BY <1>2, <1>3, <3>2, <3>3, <3>4
  <2>2. SUFFICES ASSUME NEW i \in 0..Len(t)
                 PROVE  /\ j.next[List!At(l, t, i)] = List!At(l, t, i + 1)
                        /\ j.pre[List!At(l, t, i + 1)] = List!At(l, t, i)
    BY <1>5 DEF List!Joined
  <2>3. i \in 0..Len(t) + 1 /\ i + 1 \in 0..Len(t) + 1 /\ Len(ss[l]) = Len(t) + 1 /\ i \in Int
    BY <1>2, <1>3
  <2>4. \A o \in 0..Len(ss[l]) + 1 : \A r \in 0..Len(ss[l]) + 1 :
           List!At(l, ss[l], o) = List!At(l, ss[l], r) => o = r
    BY <1>1, PlacesApart
  <2>5. \A o \in 0..Len(ss[l]) + 1 : List!At(l, ss[l], o) \in List!Points
    BY <1>2, PlacesArePoints
  <2>6. CASE i < k - 1
    <3>1. /\ List!At(l, t, i) = List!At(l, ss[l], i) /\ List!At(l, t, i + 1) = List!At(l, ss[l], i + 1)
          /\ i \in 0..Len(ss[l]) /\ i \in 0..Len(ss[l]) + 1 /\ i + 1 \in 0..Len(ss[l]) + 1
          /\ i # k /\ i # k - 1 /\ i + 1 # k /\ i + 1 # k + 1
      BY <1>2, <2>1, <2>3, <2>6
    <3>2. /\ List!At(l, ss[l], i) # n /\ List!At(l, ss[l], i) # q.pre[n]
          /\ List!At(l, ss[l], i + 1) # n /\ List!At(l, ss[l], i + 1) # q.next[n]
      BY <1>10, <1>11, <1>12, <2>4, <3>1
    <3>. QED  BY <1>8, <1>9, <2>5, <3>1, <3>2
  <2>7. CASE i = k - 1
    <3>1. List!At(l, t, i) = List!At(l, ss[l], k - 1) /\ List!At(l, t, i + 1) = List!At(l, ss[l], k + 1)
      BY <1>2, <2>1, <2>3, <2>7
    <3>2. List!At(l, ss[l], k - 1) # n /\ List!At(l, ss[l], k + 1) # n
      BY <1>2, <1>10, <1>11, <2>4
    <3>. QED  BY <1>8, <1>11, <1>12, <2>5, <3>1, <3>2
  <2>8. CASE i >= k
    <3>1. /\ List!At(l, t, i) = List!At(l, ss[l], i + 1) /\ List!At(l, t, i + 1) = List!At(l, ss[l], (i + 1) + 1)
          /\ i + 1 \in 0..Len(ss[l]) /\ i + 1 \in 0..Len(ss[l]) + 1 /\ (i + 1) + 1 \in 0..Len(ss[l]) + 1
          /\ i + 1 # k /\ i + 1 # k - 1 /\ (i + 1) + 1 # k /\ (i + 1) + 1 # k + 1
      BY <1>2, <2>1, <2>3, <2>8
    <3>2. /\ List!At(l, ss[l], i + 1) # n /\ List!At(l, ss[l], i + 1) # q.pre[n]
          /\ List!At(l, ss[l], (i + 1) + 1) # n /\ List!At(l, ss[l], (i + 1) + 1) # q.next[n]
      BY <1>10, <1>11, <1>12, <2>4, <3>1
    <3>. QED  BY <1>8, <1>9, <2>5, <3>1, <3>2
  <2>. QED  BY <1>2, <2>3, <2>6, <2>7, <2>8
<1>. QED  BY <1>5, <1>6, <1>7, <1>13, <1>14 DEF Stands, j, n, tt

-----------------------------------------------------------------------------
(* A list is cleared.                                                      *)

LEMMA ClearedIs ==
  ASSUME ListConstants, NEW q, NEW l \in AllLists, NEW f, NEW g,
         f = q.next[List!HeadOf(l)], g = q.pre[List!TailOf(l)],
         f # List!HeadOf(l), g # List!TailOf(l), f = List!TailOf(l) <=> g = List!HeadOf(l),
         q.pre[List!HeadOf(l)] = List!Null, q.next[List!TailOf(l)] = List!Null,
         NEW x \in List!Points
  PROVE  /\ List!Cleared(q, l).next[x] =
              IF x = List!HeadOf(l) THEN List!TailOf(l) ELSE IF x = g THEN List!Null ELSE q.next[x]
         /\ List!Cleared(q, l).pre[x] =
              IF x = List!TailOf(l) THEN List!HeadOf(l) ELSE IF x = f THEN List!Null ELSE q.pre[x]
<1>. DEFINE hd == List!HeadOf(l)
            tl == List!TailOf(l)
            u == List!Left(q, hd)
            v == List!Left(u, tl)
            r == List!Join(v, hd, tl)
<1>1. hd \in List!Points /\ tl \in List!Points /\ hd # tl /\ List!Null \notin List!Points
  BY PointsDiffer
<1>2. List!Cleared(q, l) = r
  BY DEF List!Cleared
<1>. HIDE DEF hd, tl
<1>3. \A y \in List!Points : /\ u.next[y] = IF y = hd THEN List!Null ELSE q.next[y]
                             /\ u.pre[y] = IF y = hd \/ y = f THEN List!Null ELSE q.pre[y]
  <2>1. TAKE y \in List!Points
  <2>2. /\ u.next[y] = IF y = hd THEN List!Null ELSE IF y = q.pre[hd] THEN q.next[hd] ELSE q.next[y]
        /\ u.pre[y] = IF y = hd THEN List!Null ELSE IF y = q.next[hd] THEN q.pre[hd] ELSE q.pre[y]
    BY <1>1, LeftIs
  <2>. QED  BY <1>1, <2>2 DEF hd
<1>. HIDE DEF u
<1>4. u.next[tl] = List!Null /\ u.pre[tl] = IF tl = f THEN List!Null ELSE g
  BY <1>1, <1>3 DEF tl
<1>5. \A y \in List!Points :
         /\ v.next[y] = IF y = tl \/ y = u.pre[tl] THEN List!Null ELSE u.next[y]
         /\ v.pre[y] = IF y = tl THEN List!Null ELSE u.pre[y]
  <2>1. TAKE y \in List!Points
  <2>2. /\ v.next[y] = IF y = tl THEN List!Null ELSE IF y = u.pre[tl] THEN u.next[tl] ELSE u.next[y]
        /\ v.pre[y] = IF y = tl THEN List!Null ELSE IF y = u.next[tl] THEN u.pre[tl] ELSE u.pre[y]
    BY <1>1, LeftIs
  <2>. QED  BY <1>1, <1>4, <2>2
<1>. HIDE DEF v
<1>6. /\ r.next[x] = IF x = hd THEN tl ELSE v.next[x]
      /\ r.pre[x] = IF x = tl THEN hd ELSE v.pre[x]
  BY JoinIs
<1>. HIDE DEF r
<1>7. q.next[tl] = List!Null /\ q.pre[hd] = List!Null /\ (f = tl <=> g = hd)
  BY DEF hd, tl
<1>8. r.next[x] = IF x = hd THEN tl ELSE IF x = g THEN List!Null ELSE q.next[x]
  BY <1>1, <1>3, <1>4, <1>5, <1>6, <1>7
<1>9. r.pre[x] = IF x = tl THEN hd ELSE IF x = f THEN List!Null ELSE q.pre[x]
  BY <1>1, <1>3, <1>4, <1>5, <1>6, <1>7
<1>. QED  BY <1>2, <1>8, <1>9 DEF hd, tl

LEMMA EndsOf ==
  ASSUME ListConstants, NEW q, NEW ss, Stands(q, ss), NEW l \in AllLists
  PROVE  /\ List!FirstOf(q, l) = List!At(l, ss[l], 1)
         /\ List!LastOf(q, l) = List!At(l, ss[l], Len(ss[l]))
         /\ List!IsEmpty(q, l) <=> ss[l] = <<>>
         /\ ss[l] = <<>> => /\ List!FirstOf(q, l) = List!TailOf(l)
                            /\ List!LastOf(q, l) = List!HeadOf(l)
         /\ ss[l] # <<>> => /\ List!FirstOf(q, l) = ss[l][1]
                            /\ List!LastOf(q, l) = ss[l][Len(ss[l])]
                            /\ ss[l][1] \in Nodes /\ ss[l][Len(ss[l])] \in Nodes
<1>1. ss[l] \in Seq(Nodes) /\ Len(ss[l]) \in Nat /\ (ss[l] = <<>> <=> Len(ss[l]) = 0)
  BY DEF Stands
<1>2. 0 \in 0..Len(ss[l]) /\ Len(ss[l]) \in 0..Len(ss[l]) /\ 0 + 1 = 1
      /\ 1 \in 0..Len(ss[l]) + 1 /\ 0 \in 0..Len(ss[l]) + 1
      /\ Len(ss[l]) \in 0..Len(ss[l]) + 1
  BY <1>1
<1>3. /\ q.next[List!At(l, ss[l], 0)] = List!At(l, ss[l], 1)
      /\ q.pre[List!At(l, ss[l], Len(ss[l]) + 1)] = List!At(l, ss[l], Len(ss[l]))
  BY <1>2 DEF Stands, List!Joined
<1>4. /\ List!At(l, ss[l], 0) = List!HeadOf(l)
      /\ List!At(l, ss[l], Len(ss[l]) + 1) = List!TailOf(l)
  BY <1>1, <1>2, PlacesArePoints
<1>5. /\ List!FirstOf(q, l) = List!At(l, ss[l], 1)
      /\ List!LastOf(q, l) = List!At(l, ss[l], Len(ss[l]))
  BY <1>3, <1>4 DEF List!FirstOf, List!LastOf
<1>6. CASE ss[l] = <<>>
  <2>1. List!At(l, ss[l], 1) = List!TailOf(l) /\ List!At(l, ss[l], Len(ss[l])) = List!HeadOf(l)
    BY <1>1, <1>4, <1>6
  <2>. QED  BY <1>5, <1>6, <2>1 DEF List!IsEmpty, List!FirstOf
<1>7. CASE ss[l] # <<>>
  <2>1. 1 \in 1..Len(ss[l]) /\ Len(ss[l]) \in 1..Len(ss[l])
    BY <1>1, <1>7
  <2>2. /\ List!At(l, ss[l], 1) = ss[l][1] /\ ss[l][1] \in Nodes
        /\ List!At(l, ss[l], Len(ss[l])) = ss[l][Len(ss[l])] /\ ss[l][Len(ss[l])] \in Nodes
    BY <1>1, <1>2, <2>1, PlacesArePoints
  <2>3. ss[l][1] # List!TailOf(l)
    BY <2>2, PointsDiffer
  <2>. QED  BY <1>5, <1>7, <2>2, <2>3 DEF List!IsEmpty, List!FirstOf
<1>. QED  BY <1>5, <1>6, <1>7

\* The list is empty then, and what was in it is a chain of its own.
LEMMA ClearList ==
  ASSUME ListConstants, NEW q, NEW ss, Stands(q, ss), NEW l \in AllLists
  PROVE  /\ Stands(List!Cleared(q, l), [ss EXCEPT ![l] = <<>>])
         /\ ss[l] # <<>> => Loose(List!Cleared(q, l), [ss EXCEPT ![l] = <<>>], ss[l])
<1>. DEFINE r == List!Cleared(q, l)
            tt == [ss EXCEPT ![l] = <<>>]
            hd == List!HeadOf(l)
            tl == List!TailOf(l)
            s == ss[l]
            f == q.next[hd]
            g == q.pre[tl]
<1>1. /\ Wired(q) /\ ss \in [AllLists -> Seq(Nodes)] /\ NoneShared(ss)
      /\ \A m \in AllLists : List!Joined(q, m, ss[m])
  BY DEF Stands
<1>2. hd \in List!Points /\ tl \in List!Points /\ hd # tl /\ List!Null \notin List!Points
      /\ hd \notin Nodes /\ tl \notin Nodes /\ Nodes \subseteq List!Points
  BY PointsDiffer
<1>3. s \in Seq(Nodes) /\ Len(s) \in Nat /\ (s = <<>> <=> Len(s) = 0) /\ \A i \in 1..Len(s) : s[i] \in Nodes
  BY <1>1
<1>4. /\ s = <<>> => f = tl /\ g = hd
      /\ s # <<>> => f = s[1] /\ g = s[Len(s)] /\ f \in Nodes /\ g \in Nodes
  BY EndsOf DEF List!FirstOf, List!LastOf
<1>5. q.pre[hd] = List!Null /\ q.next[tl] = List!Null
  BY <1>1 DEF Wired
<1>6. f # hd /\ g # tl /\ (f = tl <=> g = hd) /\ f \in List!Points /\ g \in List!Points
  BY <1>2, <1>4
<1>7. q.pre[f] = hd /\ q.next[g] = tl
  <2>1. f # List!Null /\ g # List!Null
    BY <1>2, <1>6
  <2>. QED  BY <1>1, <1>2, <2>1 DEF Wired
<1>8. tt \in [AllLists -> Seq(Nodes)] /\ tt[l] = <<>> /\ \A m \in AllLists : m # l => tt[m] = ss[m]
  BY <1>1
<1>9. \A x \in List!Points :
         /\ r.next[x] = IF x = hd THEN tl ELSE IF x = g THEN List!Null ELSE q.next[x]
         /\ r.pre[x] = IF x = tl THEN hd ELSE IF x = f THEN List!Null ELSE q.pre[x]
  BY <1>5, <1>6, ClearedIs
<1>10. r = [next |-> r.next, pre |-> r.pre]
       /\ r.next = [x \in List!Points |-> r.next[x]] /\ r.pre = [x \in List!Points |-> r.pre[x]]
  BY JoinShape DEF List!Cleared
<1>11. \A x \in List!Points :
         /\ q.next[x] = List!Null \/ (q.next[x] \in List!Points /\ q.pre[q.next[x]] = x)
         /\ q.pre[x] = List!Null \/ (q.pre[x] \in List!Points /\ q.next[q.pre[x]] = x)
  BY <1>1, WiredPoints
<1>12. \A m \in AllLists : \A i \in 0..Len(ss[m]) :
         /\ q.next[List!At(m, ss[m], i)] = List!At(m, ss[m], i + 1)
         /\ q.pre[List!At(m, ss[m], i + 1)] = List!At(m, ss[m], i)
  BY <1>1 DEF List!Joined
<1>13. /\ hd = List!At(l, ss[l], 0) /\ tl = List!At(l, ss[l], Len(s) + 1)
       /\ f = List!At(l, ss[l], 1) /\ g = List!At(l, ss[l], Len(s))
       /\ 0 \in 0..Len(s) + 1 /\ Len(s) + 1 \in 0..Len(s) + 1
       /\ 1 \in 0..Len(s) + 1 /\ Len(s) \in 0..Len(s) + 1
  <2>1. /\ 0 \in 0..Len(s) + 1 /\ Len(s) + 1 \in 0..Len(s) + 1
        /\ 1 \in 0..Len(s) + 1 /\ Len(s) \in 0..Len(s) + 1
    BY <1>3
  <2>2. f = List!At(l, ss[l], 1) /\ g = List!At(l, ss[l], Len(s))
    BY EndsOf DEF List!FirstOf, List!LastOf
  <2>. QED  BY <1>3, <2>1, <2>2, PlacesArePoints
<1>. HIDE DEF r, tt, hd, tl, s, f, g
<1>14. Wired(r)
  <2>1. r \in [next : PointsTo, pre : PointsTo]
    <3>1. \A x \in List!Points : /\ r.next[x] \in List!Points \cup {List!Null}
                                 /\ r.pre[x] \in List!Points \cup {List!Null}
      BY <1>2, <1>9, <1>11
    <3>2. r.next \in PointsTo /\ r.pre \in PointsTo
      BY <1>10, <3>1 DEF PointsTo
    <3>. QED  BY <1>10, <3>2
  <2>2. \A x \in List!Points : r.next[x] # List!Null => r.pre[r.next[x]] = x
    BY <1>2, <1>6, <1>7, <1>9, <1>11 DEF f, g
  <2>3. \A x \in List!Points : r.pre[x] # List!Null => r.next[r.pre[x]] = x
    BY <1>2, <1>6, <1>7, <1>9, <1>11 DEF f, g
  <2>4. \A m \in AllLists : r.pre[List!HeadOf(m)] = List!Null /\ r.next[List!TailOf(m)] = List!Null
    <3>1. TAKE m \in AllLists
    <3>2. /\ List!HeadOf(m) \in List!Points /\ List!TailOf(m) \in List!Points
          /\ List!HeadOf(m) # tl /\ List!TailOf(m) # hd
      BY PointsDiffer DEF hd, tl
    <3>3. q.pre[List!HeadOf(m)] = List!Null /\ q.next[List!TailOf(m)] = List!Null
      BY <1>1 DEF Wired
    <3>. QED  BY <1>9, <3>2, <3>3
  <2>. QED  BY <2>1, <2>2, <2>3, <2>4 DEF Wired
<1>15. NoneShared(tt)
  <2>1. \A m \in AllLists : m # l => tt[m] = ss[m]
    BY <1>8
  <2>2. \A m \in AllLists : 1..Len(tt[m]) # {} => m # l
    BY <1>8
  <2>3. SUFFICES ASSUME NEW x \in AllLists, NEW y \in AllLists,
                        NEW i \in 1..Len(tt[x]), NEW j \in 1..Len(tt[y]), tt[x][i] = tt[y][j]
                 PROVE  x = y /\ i = j
    BY DEF NoneShared
  <2>4. tt[x] = ss[x] /\ tt[y] = ss[y]
    BY <2>1, <2>2
  <2>. QED  BY <1>1, <2>3, <2>4 DEF NoneShared
<1>16. ASSUME NEW m \in AllLists, m # l PROVE List!Joined(r, m, tt[m])
  <2>1. SUFFICES ASSUME NEW i \in 0..Len(ss[m])
                 PROVE  /\ r.next[List!At(m, ss[m], i)] = List!At(m, ss[m], i + 1)
                        /\ r.pre[List!At(m, ss[m], i + 1)] = List!At(m, ss[m], i)
    BY <1>8, <1>16 DEF List!Joined
  <2>2. ss[m] \in Seq(Nodes) /\ Len(ss[m]) \in Nat
    BY <1>1
  <2>3. i \in 0..Len(ss[m]) + 1 /\ i + 1 \in 0..Len(ss[m]) + 1
    BY <2>2
  <2>4. \A o \in 0..Len(ss[m]) + 1 :
           /\ List!At(m, ss[m], o) \in List!Points /\ List!At(m, ss[m], o) # hd
           /\ List!At(m, ss[m], o) # tl /\ List!At(m, ss[m], o) # f /\ List!At(m, ss[m], o) # g
    <3>1. TAKE o \in 0..Len(ss[m]) + 1
    <3>2. \A k \in 0..Len(ss[l]) + 1 : List!At(m, ss[m], o) # List!At(l, ss[l], k)
      BY <1>1, <1>16, PlacesApart
    <3>3. List!At(m, ss[m], o) \in List!Points
      BY <2>2, PlacesArePoints
    <3>4. \A k \in 0..Len(s) + 1 : List!At(m, ss[m], o) # List!At(l, ss[l], k)
      BY <3>2 DEF s
    <3>. QED  BY <1>13, <3>3, <3>4
  <2>. QED  BY <1>9, <1>12, <2>3, <2>4
<1>17. List!Joined(r, l, tt[l])
  <2>1. Len(tt[l]) = 0 /\ List!At(l, tt[l], 0) = hd /\ List!At(l, tt[l], 1) = tl
    BY <1>8 DEF List!At, hd, tl
  <2>2. r.next[hd] = tl /\ r.pre[tl] = hd
    BY <1>2, <1>9
  <2>. QED  BY <2>1, <2>2 DEF List!Joined
<1>18. Stands(r, tt)
  BY <1>8, <1>14, <1>15, <1>16, <1>17 DEF Stands
<1>19. ASSUME s # <<>> PROVE Loose(r, tt, s)
  <2>1. \A i, j \in 1..Len(s) : s[i] = s[j] => i = j
    BY <1>1 DEF NoneShared, s
  <2>2. \A m \in AllLists : \A i \in 1..Len(tt[m]), j \in 1..Len(s) : tt[m][i] # s[j]
    <3>1. TAKE m \in AllLists
    <3>2. CASE m = l
      <4>1. Len(tt[m]) = 0
        BY <1>8, <3>2
      <4>. QED  BY <4>1
    <3>3. CASE m # l
      BY <1>1, <1>8, <3>3 DEF NoneShared, s
    <3>. QED  BY <3>2, <3>3
  <2>3. \A i \in 1..Len(s) - 1 : r.next[s[i]] = s[i + 1]
    <3>1. TAKE i \in 1..Len(s) - 1
    <3>2. /\ i \in 0..Len(s) /\ i \in 1..Len(s) /\ i + 1 \in 1..Len(s) /\ i # Len(s)
          /\ i \in 0..Len(s) + 1 /\ i + 1 \in 0..Len(s) + 1 /\ Len(s) \in 1..Len(s)
      BY <1>3
    <3>3. s[i] = List!At(l, s, i) /\ s[i + 1] = List!At(l, s, i + 1) /\ s[i] \in Nodes
      BY <1>3, <3>2, PlacesArePoints
    <3>4. q.next[s[i]] = s[i + 1]
      BY <1>12, <3>2, <3>3 DEF s
    <3>5. s[i] # g /\ s[i] # hd
      BY <1>2, <1>4, <1>19, <2>1, <3>2, <3>3
    <3>. QED  BY <1>2, <1>9, <3>3, <3>4, <3>5
  <2>4. r.pre[s[1]] = List!Null /\ r.next[s[Len(s)]] = List!Null
    BY <1>2, <1>4, <1>9, <1>19
  <2>. QED  BY <1>3, <1>19, <2>1, <2>2, <2>3, <2>4 DEF Loose
<1>. QED  BY <1>18, <1>19 DEF r, tt, s

-----------------------------------------------------------------------------
(* A chain is put into a list.                                             *)

\* z is s with c behind its first k.
PutIn(z, s, k, c) ==
  /\ z \in Seq(Nodes) /\ Len(z) = Len(s) + Len(c)
  /\ \A i \in 1..Len(z) :
        z[i] = IF i <= k THEN s[i] ELSE IF i <= k + Len(c) THEN c[i - k] ELSE s[i - Len(c)]

LEMMA PutWired ==
  ASSUME ListConstants, NEW q, Wired(q), NEW h \in List!Points, NEW t \in List!Points,
         NEW f \in Nodes, NEW g \in Nodes, q.next[h] = t, q.pre[t] = h, h # g, t # f,
         q.pre[f] = List!Null, q.next[g] = List!Null,
         \A l \in AllLists : t # List!HeadOf(l) /\ h # List!TailOf(l)
  PROVE  /\ Wired(List!Join(List!Join(q, h, f), g, t))
         /\ \A x \in List!Points :
              /\ List!Join(List!Join(q, h, f), g, t).next[x] =
                   IF x = h THEN f ELSE IF x = g THEN t ELSE q.next[x]
              /\ List!Join(List!Join(q, h, f), g, t).pre[x] =
                   IF x = f THEN h ELSE IF x = t THEN g ELSE q.pre[x]
<1>. DEFINE u == List!Join(q, h, f)
            r == List!Join(u, g, t)
<1>1. f \in List!Points /\ g \in List!Points /\ List!Null \notin List!Points
  BY PointsDiffer DEF AllLists
<1>2. \A x \in List!Points :
         /\ r.next[x] = IF x = h THEN f ELSE IF x = g THEN t ELSE q.next[x]
         /\ r.pre[x] = IF x = f THEN h ELSE IF x = t THEN g ELSE q.pre[x]
  <2>1. TAKE x \in List!Points
  <2>2. /\ u.next[x] = IF x = h THEN f ELSE q.next[x]
        /\ u.pre[x] = IF x = f THEN h ELSE q.pre[x]
    BY JoinIs
  <2>. HIDE DEF u
  <2>3. /\ r.next[x] = IF x = g THEN t ELSE u.next[x]
        /\ r.pre[x] = IF x = t THEN g ELSE u.pre[x]
    BY JoinIs
  <2>. QED  BY <2>2, <2>3
<1>3. r = [next |-> r.next, pre |-> r.pre]
      /\ r.next = [x \in List!Points |-> r.next[x]] /\ r.pre = [x \in List!Points |-> r.pre[x]]
  BY JoinShape
<1>4. \A x \in List!Points :
         /\ q.next[x] = List!Null \/ (q.next[x] \in List!Points /\ q.pre[q.next[x]] = x)
         /\ q.pre[x] = List!Null \/ (q.pre[x] \in List!Points /\ q.next[q.pre[x]] = x)
  BY WiredPoints
<1>. HIDE DEF r
<1>5. r \in [next : PointsTo, pre : PointsTo]
  <2>1. \A x \in List!Points : /\ r.next[x] \in List!Points \cup {List!Null}
                               /\ r.pre[x] \in List!Points \cup {List!Null}
    BY <1>1, <1>2, <1>4
  <2>2. r.next \in PointsTo /\ r.pre \in PointsTo
    BY <1>3, <2>1 DEF PointsTo
  <2>. QED  BY <1>3, <2>2
<1>6. \A x \in List!Points : r.next[x] # List!Null => r.pre[r.next[x]] = x
  BY <1>1, <1>2, <1>4
<1>7. \A x \in List!Points : r.pre[x] # List!Null => r.next[r.pre[x]] = x
  BY <1>1, <1>2, <1>4
<1>8. \A m \in AllLists : r.pre[List!HeadOf(m)] = List!Null /\ r.next[List!TailOf(m)] = List!Null
  <2>1. TAKE m \in AllLists
  <2>2. /\ List!HeadOf(m) \in List!Points /\ List!TailOf(m) \in List!Points
        /\ List!HeadOf(m) # f /\ List!TailOf(m) # g /\ List!HeadOf(m) # t /\ List!TailOf(m) # h
    BY PointsDiffer
  <2>3. q.pre[List!HeadOf(m)] = List!Null /\ q.next[List!TailOf(m)] = List!Null
    BY DEF Wired
  <2>. QED  BY <1>2, <2>2, <2>3
<1>. QED  BY <1>2, <1>5, <1>6, <1>7, <1>8 DEF Wired, r, u

\* Which place of s or c a place of z was.
LEMMA PutPlaces ==
  ASSUME ListConstants, NEW l \in AllLists, NEW s \in Seq(Nodes), NEW c \in Seq(Nodes), c # <<>>,
         NEW k \in 0..Len(s), NEW z, PutIn(z, s, k, c), NEW i \in 0..Len(z) + 1
  PROVE  List!At(l, z, i) = IF i <= k THEN List!At(l, s, i)
                              ELSE IF i <= k + Len(c) THEN c[i - k] ELSE List!At(l, s, i - Len(c))
<1>1. /\ Len(s) \in Nat /\ Len(c) \in Nat /\ Len(c) > 0 /\ k \in Nat /\ k <= Len(s)
      /\ z \in Seq(Nodes) /\ Len(z) = Len(s) + Len(c)
  BY DEF PutIn
<1>2. CASE i = 0
  BY <1>1, <1>2 DEF List!At
<1>3. CASE i = Len(z) + 1
  <2>1. i - Len(c) = Len(s) + 1 /\ i - Len(c) # 0 /\ ~(i <= k) /\ ~(i <= k + Len(c)) /\ i # 0
    BY <1>1, <1>3
  <2>. QED  BY <1>3, <2>1 DEF List!At
<1>4. CASE i \in 1..Len(z)
  <2>1. z[i] = IF i <= k THEN s[i] ELSE IF i <= k + Len(c) THEN c[i - k] ELSE s[i - Len(c)]
    BY <1>4 DEF PutIn
  <2>2. i # 0 /\ i # Len(z) + 1
    BY <1>1, <1>4
  <2>3. i <= k => i # Len(s) + 1
    BY <1>1
  <2>4. ~(i <= k + Len(c)) => i - Len(c) # 0 /\ i - Len(c) # Len(s) + 1
    BY <1>1, <1>4
  <2>. QED  BY <2>1, <2>2, <2>3, <2>4 DEF List!At
<1>5. i = 0 \/ i = Len(z) + 1 \/ i \in 1..Len(z)
  <2>1. Len(z) \in Nat
    BY <1>1
  <2>. QED  BY <2>1
<1>. QED  BY <1>2, <1>3, <1>4, <1>5

LEMMA PutNoneShared ==
  ASSUME ListConstants, NEW q, NEW ss, Stands(q, ss), NEW l \in AllLists, NEW c, Loose(q, ss, c),
         NEW k \in 0..Len(ss[l]), NEW z, PutIn(z, ss[l], k, c)
  PROVE  NoneShared([ss EXCEPT ![l] = z])
<1>. DEFINE tt == [ss EXCEPT ![l] = z]
            u(m, i) == IF m = l /\ i > k THEN i - Len(c) ELSE i
            InC(m, i) == m = l /\ i > k /\ i <= k + Len(c)
<1>1. ss \in [AllLists -> Seq(Nodes)] /\ NoneShared(ss)
  BY DEF Stands
<1>2. /\ c \in Seq(Nodes) /\ \A i, j \in 1..Len(c) : c[i] = c[j] => i = j
      /\ \A m \in AllLists : \A i \in 1..Len(ss[m]), j \in 1..Len(c) : ss[m][i] # c[j]
  BY DEF Loose
<1>3. /\ Len(ss[l]) \in Nat /\ Len(c) \in Nat /\ k \in Nat /\ k <= Len(ss[l])
      /\ z \in Seq(Nodes) /\ Len(z) = Len(ss[l]) + Len(c)
  BY <1>1, <1>2 DEF PutIn
<1>4. tt[l] = z /\ \A m \in AllLists : m # l => tt[m] = ss[m]
  BY <1>1
<1>. HIDE DEF tt
<1>5. ASSUME NEW m \in AllLists, NEW i \in 1..Len(tt[m])
      PROVE  IF InC(m, i) THEN i - k \in 1..Len(c) /\ tt[m][i] = c[i - k]
               ELSE u(m, i) \in 1..Len(ss[m]) /\ tt[m][i] = ss[m][u(m, i)]
  <2>1. CASE m # l
    BY <1>4, <2>1
  <2>2. CASE m = l
    <3>1. i \in 1..Len(z) /\ tt[m] = z
      BY <1>4, <2>2
    <3>2. z[i] = IF i <= k THEN ss[l][i] ELSE IF i <= k + Len(c) THEN c[i - k] ELSE ss[l][i - Len(c)]
      BY <3>1 DEF PutIn
    <3>3. /\ i <= k => i \in 1..Len(ss[l])
          /\ i > k /\ i <= k + Len(c) => i - k \in 1..Len(c)
          /\ i > k + Len(c) => i - Len(c) \in 1..Len(ss[l])
          /\ i \in Int
      BY <1>3, <3>1
    <3>. QED  BY <1>3, <2>2, <3>1, <3>2, <3>3
  <2>. QED  BY <2>1, <2>2
<1>6. SUFFICES ASSUME NEW x \in AllLists, NEW y \in AllLists,
                      NEW i \in 1..Len(tt[x]), NEW j \in 1..Len(tt[y]), tt[x][i] = tt[y][j]
               PROVE  x = y /\ i = j
  BY DEF NoneShared, tt
<1>7. i \in Int /\ j \in Int /\ k \in Int /\ Len(c) \in Int
  BY <1>3
<1>8. /\ InC(x, i) => i - k \in 1..Len(c) /\ tt[x][i] = c[i - k]
      /\ ~InC(x, i) => u(x, i) \in 1..Len(ss[x]) /\ tt[x][i] = ss[x][u(x, i)]
  BY <1>5
<1>9. /\ InC(y, j) => j - k \in 1..Len(c) /\ tt[y][j] = c[j - k]
      /\ ~InC(y, j) => u(y, j) \in 1..Len(ss[y]) /\ tt[y][j] = ss[y][u(y, j)]
  BY <1>5
<1>10. CASE InC(x, i) /\ InC(y, j)
  <2>1. c[i - k] = c[j - k] /\ i - k \in 1..Len(c) /\ j - k \in 1..Len(c)
    BY <1>6, <1>8, <1>9, <1>10
  <2>2. i - k = j - k
    BY <1>2, <2>1
  <2>3. x = l /\ y = l
    BY <1>10
  <2>. QED  BY <1>7, <2>2, <2>3
<1>11. CASE ~InC(x, i) /\ ~InC(y, j)
  <2>1. u(x, i) \in 1..Len(ss[x]) /\ u(y, j) \in 1..Len(ss[y]) /\ ss[x][u(x, i)] = ss[y][u(y, j)]
    BY <1>6, <1>8, <1>9, <1>11
  <2>2. x = y /\ u(x, i) = u(y, j)
    BY <1>1, <2>1 DEF NoneShared
  <2>3. i > k /\ x = l => i > k + Len(c)
    BY <1>7, <1>11
  <2>4. j > k /\ y = l => j > k + Len(c)
    BY <1>7, <1>11
  <2>. QED  BY <1>7, <2>2, <2>3, <2>4
<1>12. CASE InC(x, i) /\ ~InC(y, j)
  <2>1. c[i - k] = ss[y][u(y, j)] /\ i - k \in 1..Len(c) /\ u(y, j) \in 1..Len(ss[y])
    BY <1>6, <1>8, <1>9, <1>12
  <2>. QED  BY <1>2, <2>1
<1>13. CASE ~InC(x, i) /\ InC(y, j)
  <2>1. c[j - k] = ss[x][u(x, i)] /\ j - k \in 1..Len(c) /\ u(x, i) \in 1..Len(ss[x])
    BY <1>6, <1>8, <1>9, <1>13
  <2>. QED  BY <1>2, <2>1
<1>. QED  BY <1>10, <1>11, <1>12, <1>13

LEMMA PutList ==
  ASSUME ListConstants, NEW q, NEW ss, Stands(q, ss), NEW l \in AllLists, NEW c, Loose(q, ss, c),
         NEW k \in 0..Len(ss[l]), NEW z, PutIn(z, ss[l], k, c)
  PROVE  Stands(List!Join(List!Join(q, List!At(l, ss[l], k), c[1]),
                          c[Len(c)], List!At(l, ss[l], k + 1)),
                [ss EXCEPT ![l] = z])
<1>. DEFINE s == ss[l]
            h == List!At(l, s, k)
            t == List!At(l, s, k + 1)
            f == c[1]
            g == c[Len(c)]
            r == List!Join(List!Join(q, h, f), g, t)
            tt == [ss EXCEPT ![l] = z]
<1>1. /\ Wired(q) /\ ss \in [AllLists -> Seq(Nodes)] /\ NoneShared(ss)
      /\ \A m \in AllLists : List!Joined(q, m, ss[m])
  BY DEF Stands
<1>2. /\ c \in Seq(Nodes) /\ c # <<>>
      /\ \A i, j \in 1..Len(c) : c[i] = c[j] => i = j
      /\ \A m \in AllLists : \A i \in 1..Len(ss[m]), j \in 1..Len(c) : ss[m][i] # c[j]
      /\ \A i \in 1..Len(c) - 1 : q.next[c[i]] = c[i + 1]
      /\ q.pre[f] = List!Null /\ q.next[g] = List!Null
  BY DEF Loose
<1>3. /\ s \in Seq(Nodes) /\ Len(s) \in Nat /\ Len(c) \in Nat /\ Len(c) > 0
      /\ k \in Nat /\ k <= Len(s) /\ Len(z) = Len(s) + Len(c) /\ z \in Seq(Nodes)
      /\ 1 \in 1..Len(c) /\ Len(c) \in 1..Len(c)
      /\ k \in 0..Len(s) + 1 /\ k + 1 \in 0..Len(s) + 1
  BY <1>1, <1>2 DEF PutIn
<1>4. \A j \in 1..Len(c) : c[j] \in Nodes /\ c[j] \in List!Points
  BY <1>2, PointsDiffer
<1>5. tt \in [AllLists -> Seq(Nodes)] /\ tt[l] = z /\ \A m \in AllLists : m # l => tt[m] = ss[m]
  BY <1>1, <1>3
<1>6. \A m \in AllLists : \A i \in 0..Len(ss[m]) :
         /\ q.next[List!At(m, ss[m], i)] = List!At(m, ss[m], i + 1)
         /\ q.pre[List!At(m, ss[m], i + 1)] = List!At(m, ss[m], i)
  BY <1>1 DEF List!Joined
<1>7. \A m \in AllLists : \A i \in 0..Len(ss[m]) + 1 :
         List!At(m, ss[m], i) \in List!Points /\ \A j \in 1..Len(c) : List!At(m, ss[m], i) # c[j]
  <2>1. TAKE m \in AllLists
  <2>2. TAKE i \in 0..Len(ss[m]) + 1
  <2>3. ss[m] \in Seq(Nodes) /\ Len(ss[m]) \in Nat
    BY <1>1
  <2>4. List!At(m, ss[m], i) \in List!Points
    BY <2>3, PlacesArePoints
  <2>5. CASE i \in 1..Len(ss[m])
    <3>1. List!At(m, ss[m], i) = ss[m][i]
      BY <2>3, <2>5, PlacesArePoints
    <3>. QED  BY <1>2, <2>4, <2>5, <3>1
  <2>6. CASE i = 0 \/ i = Len(ss[m]) + 1
    <3>1. List!At(m, ss[m], i) \notin Nodes
      BY <2>3, <2>6, PlacesArePoints, PointsDiffer
    <3>. QED  BY <1>4, <2>4, <3>1
  <2>. QED  BY <2>3, <2>5, <2>6
<1>8. \A m \in AllLists : \A i \in 0..Len(ss[m]) + 1 : \A o \in 0..Len(s) + 1 :
         List!At(m, ss[m], i) = List!At(l, s, o) => m = l /\ i = o
  BY <1>1, PlacesApart
<1>9. \A m \in AllLists : t # List!HeadOf(m) /\ h # List!TailOf(m)
  <2>1. TAKE m \in AllLists
  <2>2. ss[m] \in Seq(Nodes) /\ Len(ss[m]) \in Nat
    BY <1>1
  <2>3. /\ List!HeadOf(m) = List!At(m, ss[m], 0) /\ List!TailOf(m) = List!At(m, ss[m], Len(ss[m]) + 1)
        /\ 0 \in 0..Len(ss[m]) + 1 /\ Len(ss[m]) + 1 \in 0..Len(ss[m]) + 1
    BY <2>2, PlacesArePoints
  <2>4. k + 1 # 0 /\ k # Len(s) + 1
    BY <1>3
  <2>. QED  BY <1>3, <1>8, <2>3, <2>4
<1>10. /\ h \in List!Points /\ t \in List!Points /\ f \in Nodes /\ g \in Nodes
       /\ q.next[h] = t /\ q.pre[t] = h /\ h # g /\ t # f
  BY <1>3, <1>4, <1>6, <1>7
<1>. HIDE DEF h, t, f, g, r
<1>11. /\ Wired(r)
       /\ \A x \in List!Points :
            /\ r.next[x] = IF x = h THEN f ELSE IF x = g THEN t ELSE q.next[x]
            /\ r.pre[x] = IF x = f THEN h ELSE IF x = t THEN g ELSE q.pre[x]
  BY <1>1, <1>2, <1>9, <1>10, PutWired DEF r
<1>12. NoneShared(tt)
  BY PutNoneShared
<1>. HIDE DEF tt
<1>13. SUFFICES ASSUME NEW m \in AllLists PROVE List!Joined(r, m, tt[m])
  BY <1>5, <1>11, <1>12 DEF Stands, tt, r, h, t, f, g
\* The backward pointers follow from the forward ones.
<1>14. SUFFICES ASSUME NEW i \in 0..Len(tt[m])
                PROVE  r.next[List!At(m, tt[m], i)] = List!At(m, tt[m], i + 1)
  <2>1. ASSUME NEW o \in 0..Len(tt[m]), r.next[List!At(m, tt[m], o)] = List!At(m, tt[m], o + 1)
        PROVE  r.pre[List!At(m, tt[m], o + 1)] = List!At(m, tt[m], o)
    <3>1. tt[m] \in Seq(Nodes) /\ o \in 0..Len(tt[m]) + 1 /\ o + 1 \in 0..Len(tt[m]) + 1
      BY <1>5
    <3>2. List!At(m, tt[m], o) \in List!Points /\ List!At(m, tt[m], o + 1) # List!Null
      BY <3>1, PlacesArePoints
    <3>. QED  BY <1>11, <2>1, <3>2 DEF Wired
  <2>. QED  BY <2>1 DEF List!Joined
<1>15. CASE m # l
  <2>1. tt[m] = ss[m] /\ ss[m] \in Seq(Nodes) /\ Len(ss[m]) \in Nat
    BY <1>1, <1>5, <1>15
  <2>2. i \in 0..Len(ss[m]) /\ i \in 0..Len(ss[m]) + 1
    BY <2>1
  <2>3. List!At(m, ss[m], i) # h /\ List!At(m, ss[m], i) # g
    BY <1>3, <1>7, <1>8, <1>15, <2>2 DEF h, g
  <2>. QED  BY <1>6, <1>7, <1>11, <2>1, <2>2, <2>3
<1>16. CASE m = l
  <2>1. tt[m] = z /\ i \in 0..Len(z) /\ i \in 0..Len(z) + 1 /\ i + 1 \in 0..Len(z) + 1 /\ i \in Int
    BY <1>3, <1>5, <1>16
  <2>2. \A o \in 0..Len(z) + 1 :
           List!At(l, z, o) = IF o <= k THEN List!At(l, s, o)
                                ELSE IF o <= k + Len(c) THEN c[o - k] ELSE List!At(l, s, o - Len(c))
    BY <1>2, <1>3, PutPlaces
  <2>3. /\ Len(s) \in Int /\ Len(c) \in Int /\ k \in Int /\ Len(c) > 0 /\ k <= Len(s) /\ 0 <= k
         /\ i \in 0..(Len(s) + Len(c))
    BY <1>3, <2>1
  <2>4. CASE i < k
    <3>1. i \in 0..Len(s) /\ i \in 0..Len(s) + 1 /\ i # k /\ i <= k /\ i + 1 <= k
      BY <1>3, <2>1, <2>4
    <3>2. List!At(l, z, i) = List!At(l, s, i) /\ List!At(l, z, i + 1) = List!At(l, s, i + 1)
      BY <2>1, <2>2, <3>1
    <3>3. List!At(l, s, i) # h /\ List!At(l, s, i) # g /\ List!At(l, s, i) \in List!Points
      BY <1>3, <1>7, <1>8, <3>1 DEF h, g
    <3>. QED  BY <1>6, <1>11, <1>16, <2>1, <3>1, <3>2, <3>3
  <2>5. CASE i = k
    <3>1. List!At(l, z, i) = h
      BY <1>3, <2>1, <2>2, <2>5 DEF h
    <3>2. i <= k /\ ~(i + 1 <= k) /\ i + 1 <= k + Len(c) /\ (i + 1) - k = 1
      BY <1>3, <2>1, <2>5
    <3>3. List!At(l, z, i + 1) = f
      BY <2>1, <2>2, <3>2 DEF f
    <3>. QED  BY <1>10, <1>11, <1>16, <2>1, <3>1, <3>3
  <2>6. CASE i > k /\ i < k + Len(c)
    <3>1. /\ ~(i <= k) /\ i <= k + Len(c) /\ ~(i + 1 <= k) /\ i + 1 <= k + Len(c)
          /\ (i + 1) - k = (i - k) + 1 /\ i - k \in 1..Len(c) - 1 /\ i - k \in 1..Len(c) /\ i - k # Len(c)
      BY <1>3, <2>1, <2>6
    <3>2. List!At(l, z, i) = c[i - k] /\ List!At(l, z, i + 1) = c[(i - k) + 1]
      BY <2>1, <2>2, <3>1
    <3>3. c[i - k] # h /\ c[i - k] # g
      BY <1>2, <1>3, <1>7, <3>1 DEF h, g
    <3>. QED  BY <1>2, <1>4, <1>11, <1>16, <2>1, <3>1, <3>2, <3>3
  <2>7. CASE i = k + Len(c)
    <3>1. /\ ~(i <= k) /\ i <= k + Len(c) /\ i - k = Len(c) /\ ~(i + 1 <= k) /\ ~(i + 1 <= k + Len(c))
          /\ (i + 1) - Len(c) = k + 1
      BY <2>3, <2>7
    <3>2. List!At(l, z, i) = g /\ List!At(l, z, i + 1) = t
      BY <2>1, <2>2, <3>1 DEF g, t
    <3>. QED  BY <1>4, <1>3, <1>10, <1>11, <1>16, <2>1, <3>2 DEF g
  <2>8. CASE i > k + Len(c)
    <3>1. /\ ~(i <= k) /\ ~(i <= k + Len(c)) /\ ~(i + 1 <= k) /\ ~(i + 1 <= k + Len(c))
          /\ (i + 1) - Len(c) = (i - Len(c)) + 1 /\ i - Len(c) \in 0..Len(s)
          /\ i - Len(c) \in 0..Len(s) + 1 /\ i - Len(c) # k
      BY <2>3, <2>8
    <3>2. /\ List!At(l, z, i) = List!At(l, s, i - Len(c))
          /\ List!At(l, z, i + 1) = List!At(l, s, (i - Len(c)) + 1)
      BY <2>1, <2>2, <3>1
    <3>3. /\ List!At(l, s, i - Len(c)) # h /\ List!At(l, s, i - Len(c)) # g
          /\ List!At(l, s, i - Len(c)) \in List!Points
      BY <1>3, <1>7, <1>8, <3>1 DEF h, g
    <3>. QED  BY <1>6, <1>11, <1>16, <2>1, <3>1, <3>2, <3>3
  <2>. QED  BY <1>3, <2>1, <2>4, <2>5, <2>6, <2>7, <2>8
<1>. QED  BY <1>15, <1>16

-----------------------------------------------------------------------------
(* What a list holds.                                                      *)

LEMMA JoinedOnce ==
  ASSUME ListConstants, NEW q, NEW l \in AllLists, NEW s \in Seq(Nodes), NEW t \in Seq(Nodes),
         List!Joined(q, l, s), List!Joined(q, l, t)
  PROVE  s = t
<1>1. /\ Len(s) \in Nat /\ Len(t) \in Nat
      /\ \A i \in 1..Len(s) : s[i] \in Nodes
      /\ \A i \in 1..Len(t) : t[i] \in Nodes
  OBVIOUS
<1>2. PICK k \in Nat : k <= Len(s) /\ k <= Len(t) /\ (k = Len(s) \/ k = Len(t))
  <2>1. Len(s) <= Len(t) \/ Len(t) <= Len(s)
    BY <1>1
  <2>. QED  BY <1>1, <2>1
<1>. DEFINE S == {i \in 0..k + 1 : List!At(l, s, i) # List!At(l, t, i)}
<1>3. S = {}
  <2>1. SUFFICES ASSUME S # {} PROVE FALSE
    OBVIOUS
  <2>2. S \in SUBSET Nat
    BY <1>2
  <2>3. Min(S) \in S /\ \A i \in S : Min(S) =< i
    <3>. HIDE DEF S
    <3>. QED  BY <2>1, <2>2, MinIsLeast
  <2>4. PICK e \in S : \A i \in S : e =< i
    BY <2>3
  <2>5. e # 0
    BY <2>4 DEF List!At
  <2>6. e - 1 \in 0..k + 1 /\ e - 1 \notin S /\ e - 1 \in 0..Len(s) /\ e - 1 \in 0..Len(t) /\ (e - 1) + 1 = e
    BY <1>1, <1>2, <2>4, <2>5
  <2>7. List!At(l, s, e - 1) = List!At(l, t, e - 1)
    BY <2>6
  <2>8. /\ q.next[List!At(l, s, e - 1)] = List!At(l, s, (e - 1) + 1)
        /\ q.next[List!At(l, t, e - 1)] = List!At(l, t, (e - 1) + 1)
    BY <2>6 DEF List!Joined
  <2>. QED  BY <2>4, <2>6, <2>7, <2>8
<1>4. \A i \in 0..k + 1 : List!At(l, s, i) = List!At(l, t, i)
  BY <1>3
<1>. HIDE DEF S
<1>5. k + 1 \in 0..k + 1
  BY <1>2
<1>6. Len(s) = Len(t)
  <2>1. CASE Len(s) < Len(t)
    <3>1. k = Len(s) /\ k + 1 \in 1..Len(t) /\ k + 1 \in 0..Len(t) + 1
      BY <1>1, <1>2, <2>1
    <3>2. List!At(l, s, k + 1) = List!TailOf(l) /\ List!At(l, t, k + 1) \in Nodes
      BY <1>1, <3>1, PlacesArePoints
    <3>. QED  BY <1>4, <1>5, <3>2, PointsDiffer
  <2>2. CASE Len(t) < Len(s)
    <3>1. k = Len(t) /\ k + 1 \in 1..Len(s) /\ k + 1 \in 0..Len(s) + 1
      BY <1>1, <1>2, <2>2
    <3>2. List!At(l, t, k + 1) = List!TailOf(l) /\ List!At(l, s, k + 1) \in Nodes
      BY <1>1, <3>1, PlacesArePoints
    <3>. QED  BY <1>4, <1>5, <3>2, PointsDiffer
  <2>. QED  BY <1>1, <2>1, <2>2
<1>7. \A i \in 1..Len(s) : s[i] = t[i]
  <2>1. TAKE i \in 1..Len(s)
  <2>2. i \in 0..k + 1 /\ i \in 0..Len(s) + 1 /\ i \in 1..Len(t) /\ i \in 0..Len(t) + 1
    BY <1>1, <1>2, <1>6
  <2>. QED  BY <1>4, <2>2, PlacesArePoints
<1>. QED  BY <1>6, <1>7, SeqEqual

LEMMA SameCountNodes == List!Cardinality(Nodes) = Cardinality(Nodes)
BY DEF List!Cardinality, Cardinality

LEMMA ContentsAre ==
  ASSUME ListConstants, NEW q, NEW ss, Stands(q, ss), NEW l \in AllLists
  PROVE  List!Contents(q, l) = ss[l]
<1>. DEFINE C == Cardinality(Nodes)
            n == Len(ss[l])
            Fits(k) == \E s \in [1..k -> Nodes] : List!Joined(q, l, s)
            c == CHOOSE k \in 0..C : Fits(k)
<1>1. ss[l] \in Seq(Nodes) /\ n \in Nat /\ ss[l] \in [1..n -> Nodes] /\ List!Joined(q, l, ss[l])
  BY DEF Stands
<1>2. n \in 0..C
  <2>1. IsFiniteSet(1..n) /\ Cardinality(1..n) = n
    BY <1>1, CountTo
  <2>2. \A i, j \in 1..n : ss[l][i] = ss[l][j] => i = j
    BY DEF Stands, NoneShared
  <2>3. ss[l] \in Injection(1..n, Nodes)
    <3>. HIDE DEF n
    <3>. QED  BY <1>1, <2>2 DEF Injection, IsInjective
  <2>4. IsFiniteSet(Nodes) /\ C \in Nat
    BY FS_CardinalityType DEF ListConstants
  <2>5. Cardinality(1..n) <= Cardinality(Nodes)
    BY <2>3, <2>4, FS_Injection
  <2>. HIDE DEF n, C
  <2>. QED  BY <1>1, <2>1, <2>4, <2>5 DEF C
<1>3. \A k \in Nat : \A s \in [1..k -> Nodes] : List!Joined(q, l, s) => s = ss[l] /\ k = n
  <2>1. TAKE k \in Nat
  <2>2. TAKE s \in [1..k -> Nodes]
  <2>3. s \in Seq(Nodes) /\ Len(s) = k
    OBVIOUS
  <2>. QED  BY <1>1, <2>3, JoinedOnce
<1>4. Fits(n)
  BY <1>1
<1>5. c \in 0..C /\ Fits(c)
  <2>1. \E k \in 0..C : Fits(k)
    BY <1>2, <1>4
  <2>. HIDE DEF Fits, C
  <2>. QED  BY <2>1, Zenon
<1>6. List!Contents(q, l) = CHOOSE s \in [1..c -> Nodes] : List!Joined(q, l, s)
  BY <1>2, <1>4, SameCountNodes DEF List!Contents
<1>7. C \in Nat
  BY FS_CardinalityType DEF ListConstants
<1>. HIDE DEF c, C
<1>8. c = n
  BY <1>3, <1>5, <1>7
<1>9. \A s \in [1..n -> Nodes] : List!Joined(q, l, s) <=> s = ss[l]
  BY <1>1, <1>3
<1>. QED  BY <1>1, <1>6, <1>8, <1>9

-----------------------------------------------------------------------------
(* The operations.                                                         *)

LEMMA PutAtEnds ==
  ASSUME NEW s \in Seq(Nodes), NEW c \in Seq(Nodes)
  PROVE  PutIn(c \o s, s, 0, c) /\ PutIn(s \o c, s, Len(s), c)
<1>1. /\ c \o s \in Seq(Nodes) /\ Len(c \o s) = Len(c) + Len(s)
      /\ \A i \in 1..Len(c) + Len(s) : (c \o s)[i] = IF i <= Len(c) THEN c[i] ELSE s[i - Len(c)]
  BY ConcatProperties
<1>2. /\ s \o c \in Seq(Nodes) /\ Len(s \o c) = Len(s) + Len(c)
      /\ \A i \in 1..Len(s) + Len(c) : (s \o c)[i] = IF i <= Len(s) THEN s[i] ELSE c[i - Len(s)]
  BY ConcatProperties
<1>3. Len(s) \in Nat /\ Len(c) \in Nat
  OBVIOUS
<1>4. \A i \in 1..Len(c \o s) :
         (c \o s)[i] = IF i <= 0 THEN s[i] ELSE IF i <= 0 + Len(c) THEN c[i - 0] ELSE s[i - Len(c)]
  <2>1. TAKE i \in 1..Len(c \o s)
  <2>2. i \in 1..Len(c) + Len(s) /\ ~(i <= 0) /\ 0 + Len(c) = Len(c) /\ i - 0 = i
    BY <1>1, <1>3
  <2>. QED  BY <1>1, <2>2
<1>5. \A i \in 1..Len(s \o c) :
         (s \o c)[i] = IF i <= Len(s) THEN s[i]
                         ELSE IF i <= Len(s) + Len(c) THEN c[i - Len(s)] ELSE s[i - Len(c)]
  <2>1. TAKE i \in 1..Len(s \o c)
  <2>2. i \in 1..Len(s) + Len(c) /\ i <= Len(s) + Len(c)
    BY <1>2, <1>3
  <2>. QED  BY <1>2, <2>2
<1>6. Len(c \o s) = Len(s) + Len(c)
  BY <1>1, <1>3
<1>. QED  BY <1>1, <1>2, <1>4, <1>5, <1>6 DEF PutIn

\* A chain is put before the first or behind the last of a list, joined in either order.
LEMMA PutFirst ==
  ASSUME ListConstants, NEW q, NEW ss, Stands(q, ss), NEW l \in AllLists, NEW c, Loose(q, ss, c)
  PROVE  Stands(List!Join(List!Join(q, c[Len(c)], List!FirstOf(q, l)), List!HeadOf(l), c[1]),
                [ss EXCEPT ![l] = c \o ss[l]])
<1>1. ss[l] \in Seq(Nodes) /\ Len(ss[l]) \in Nat
  BY DEF Stands
<1>2. c \in Seq(Nodes) /\ Len(c) \in 1..Len(c) /\ 1 \in 1..Len(c)
  BY DEF Loose
<1>3. 0 \in 0..Len(ss[l]) /\ 0 + 1 = 1 /\ 1 \in 0..Len(ss[l]) + 1 /\ 0 \in 0..Len(ss[l]) + 1
  BY <1>1
<1>4. PutIn(c \o ss[l], ss[l], 0, c)
  BY <1>1, <1>2, PutAtEnds
<1>5. List!At(l, ss[l], 0) = List!HeadOf(l) /\ List!At(l, ss[l], 0 + 1) = List!FirstOf(q, l)
  BY <1>1, <1>3, PlacesArePoints, EndsOf
<1>6. Stands(List!Join(List!Join(q, List!HeadOf(l), c[1]), c[Len(c)], List!FirstOf(q, l)),
             [ss EXCEPT ![l] = c \o ss[l]])
  BY <1>3, <1>4, <1>5, PutList
<1>7. List!HeadOf(l) # c[Len(c)]
  BY <1>2, PointsDiffer
<1>8. List!FirstOf(q, l) # c[1]
  <2>1. CASE ss[l] = <<>>
    BY <1>2, <2>1, EndsOf, PointsDiffer
  <2>2. CASE ss[l] # <<>>
    <3>1. 1 \in 1..Len(ss[l])
      BY <1>1, <2>2
    <3>. QED  BY <1>2, <2>2, <3>1, EndsOf DEF Loose
  <2>. QED  BY <2>1, <2>2
<1>. QED  BY <1>6, <1>7, <1>8, JoinsCommute

LEMMA PutLast ==
  ASSUME ListConstants, NEW q, NEW ss, Stands(q, ss), NEW l \in AllLists, NEW c, Loose(q, ss, c)
  PROVE  Stands(List!Join(List!Join(q, List!LastOf(q, l), c[1]), c[Len(c)], List!TailOf(l)),
                [ss EXCEPT ![l] = ss[l] \o c])
<1>1. ss[l] \in Seq(Nodes) /\ Len(ss[l]) \in Nat /\ c \in Seq(Nodes)
  BY DEF Stands, Loose
<1>2. /\ Len(ss[l]) \in 0..Len(ss[l]) /\ Len(ss[l]) \in 0..Len(ss[l]) + 1
      /\ Len(ss[l]) + 1 \in 0..Len(ss[l]) + 1
  BY <1>1
<1>3. PutIn(ss[l] \o c, ss[l], Len(ss[l]), c)
  BY <1>1, PutAtEnds
<1>4. /\ List!At(l, ss[l], Len(ss[l])) = List!LastOf(q, l)
      /\ List!At(l, ss[l], Len(ss[l]) + 1) = List!TailOf(l)
  BY <1>1, <1>2, PlacesArePoints, EndsOf
<1>. QED  BY <1>2, <1>3, <1>4, PutList

LEMMA PushList ==
  ASSUME ListConstants, NEW q, NEW ss, Stands(q, ss), NEW l \in AllLists, NEW n \in Nodes,
         q.next[n] = List!Null, q.pre[n] = List!Null
  PROVE  /\ \A m \in AllLists : \A i \in 1..Len(ss[m]) : ss[m][i] # n
         /\ Stands(List!PushedFront(q, l, n), [ss EXCEPT ![l] = <<n>> \o ss[l]])
         /\ Stands(List!PushedBack(q, l, n), [ss EXCEPT ![l] = Append(ss[l], n)])
<1>1. \A m \in AllLists : \A i \in 1..Len(ss[m]) : ss[m][i] # n
  <2>1. TAKE m \in AllLists
  <2>2. TAKE i \in 1..Len(ss[m])
  <2>3. ss[m] \in Seq(Nodes) /\ Len(ss[m]) \in Nat
    BY DEF Stands
  <2>4. i \in 0..Len(ss[m]) /\ i \in 0..Len(ss[m]) + 1 /\ i + 1 \in 0..Len(ss[m]) + 1
    BY <2>3
  <2>5. q.next[List!At(m, ss[m], i)] = List!At(m, ss[m], i + 1)
    BY <2>4 DEF Stands, List!Joined
  <2>. QED  BY <2>3, <2>4, <2>5, PlacesArePoints
<1>2. <<n>> \in Seq(Nodes) /\ <<n>> # <<>> /\ Len(<<n>>) = 1 /\ <<n>>[1] = n
  OBVIOUS
<1>3. Loose(q, ss, <<n>>)
  BY <1>1, <1>2 DEF Loose
<1>4. ss[l] \in Seq(Nodes) /\ Append(ss[l], n) = ss[l] \o <<n>>
  <2>1. ss[l] \in Seq(Nodes)
    BY DEF Stands
  <2>. QED  BY <2>1, AppendIsConcat
<1>5. Stands(List!PushedFront(q, l, n), [ss EXCEPT ![l] = <<n>> \o ss[l]])
  BY <1>2, <1>3, PutFirst DEF List!PushedFront
<1>6. Stands(List!PushedBack(q, l, n), [ss EXCEPT ![l] = Append(ss[l], n)])
  BY <1>2, <1>3, <1>4, PutLast DEF List!PushedBack
<1>. QED  BY <1>1, <1>5, <1>6

\* All of m goes to an end of l; of m itself, it stays.
ToFront(ss, l, m) == LET tt == [ss EXCEPT ![m] = <<>>] IN [tt EXCEPT ![l] = ss[m] \o tt[l]]
ToBack(ss, l, m) == LET tt == [ss EXCEPT ![m] = <<>>] IN [tt EXCEPT ![l] = tt[l] \o ss[m]]

LEMMA StaysItself ==
  ASSUME NEW ss \in [AllLists -> Seq(Nodes)], NEW l \in AllLists, NEW m \in AllLists,
         l = m \/ ss[m] = <<>>
  PROVE  ToFront(ss, l, m) = ss /\ ToBack(ss, l, m) = ss
<1>1. ss[l] \in Seq(Nodes) /\ ss[m] \in Seq(Nodes)
  OBVIOUS
<1>2. /\ ss[l] \o <<>> = ss[l] /\ <<>> \o ss[l] = ss[l]
      /\ ss[m] \o <<>> = ss[m] /\ <<>> \o ss[m] = ss[m]
  BY <1>1, ConcatEmptySeq
<1>3. CASE l = m
  BY <1>2, <1>3 DEF ToFront, ToBack
<1>4. CASE l # m
  BY <1>2, <1>4 DEF ToFront, ToBack
<1>. QED  BY <1>3, <1>4

LEMMA FillsEmpty ==
  ASSUME NEW ss \in [AllLists -> Seq(Nodes)], NEW l \in AllLists, NEW m \in AllLists, l # m, ss[l] = <<>>
  PROVE  /\ ToBack(ss, l, m)[m] = <<>> /\ ToBack(ss, l, m)[l] = ss[m]
         /\ \A x \in AllLists : x # l /\ x # m => ToBack(ss, l, m)[x] = ss[x]
<1>1. ss[m] \in Seq(Nodes)
  OBVIOUS
<1>2. <<>> \o ss[m] = ss[m]
  BY <1>1, ConcatEmptySeq
<1>. QED  BY <1>2 DEF ToBack

LEMMA SpliceList ==
  ASSUME ListConstants, NEW q, NEW ss, Stands(q, ss), NEW l \in AllLists, NEW m \in AllLists
  PROVE  /\ Stands(List!SplicedFront(q, l, m), ToFront(ss, l, m))
         /\ Stands(List!SplicedBack(q, l, m), ToBack(ss, l, m))
<1>1. ss \in [AllLists -> Seq(Nodes)]
  BY DEF Stands
<1>2. CASE ss[m] = <<>>
  <2>1. List!SplicedFront(q, l, m) = q /\ List!SplicedBack(q, l, m) = q
    BY <1>2, EndsOf DEF List!SplicedFront, List!SplicedBack
  <2>2. ToFront(ss, l, m) = ss /\ ToBack(ss, l, m) = ss
    BY <1>1, <1>2, StaysItself
  <2>. QED  BY <2>1, <2>2
<1>3. CASE ss[m] # <<>>
  <2>. DEFINE e == List!Cleared(q, m)
              tt == [ss EXCEPT ![m] = <<>>]
              c == ss[m]
  <2>1. Stands(e, tt) /\ Loose(e, tt, c)
    BY <1>3, ClearList
  <2>2. List!FirstOf(q, m) = c[1] /\ List!LastOf(q, m) = c[Len(c)] /\ ~List!IsEmpty(q, m)
    BY <1>3, EndsOf
  <2>. HIDE DEF e, tt, c
  <2>3. Stands(List!Join(List!Join(e, c[Len(c)], List!FirstOf(e, l)), List!HeadOf(l), c[1]),
               [tt EXCEPT ![l] = c \o tt[l]])
    BY <2>1, PutFirst
  <2>4. Stands(List!Join(List!Join(e, List!LastOf(e, l), c[1]), c[Len(c)], List!TailOf(l)),
               [tt EXCEPT ![l] = tt[l] \o c])
    BY <2>1, PutLast
  <2>5. /\ List!SplicedFront(q, l, m)
             = List!Join(List!Join(e, c[Len(c)], List!FirstOf(e, l)), List!HeadOf(l), c[1])
        /\ List!SplicedBack(q, l, m)
             = List!Join(List!Join(e, List!LastOf(e, l), c[1]), c[Len(c)], List!TailOf(l))
    BY <2>2 DEF List!SplicedFront, List!SplicedBack, List!Emptied, e
  <2>6. ToFront(ss, l, m) = [tt EXCEPT ![l] = c \o tt[l]] /\ ToBack(ss, l, m) = [tt EXCEPT ![l] = tt[l] \o c]
    BY DEF ToFront, ToBack, tt, c
  <2>. QED  BY <2>3, <2>4, <2>5, <2>6
<1>. QED  BY <1>2, <1>3

LEMMA SwapList ==
  ASSUME ListConstants, NEW q, NEW ss, Stands(q, ss), ss[Temp] = <<>>,
         NEW l \in Lists, NEW m \in Lists
  PROVE  Stands(List!Swapped(q, l, m), [ss EXCEPT ![l] = ss[m], ![m] = ss[l]])
<1>. DEFINE s1 == ToBack(ss, Temp, m)
            s2 == ToBack(s1, m, l)
            s3 == ToBack(s2, l, Temp)
            q1 == List!SplicedBack(q, Temp, m)
            q2 == List!SplicedBack(q1, m, l)
            q3 == List!SplicedBack(q2, l, Temp)
<1>1. l \in AllLists /\ m \in AllLists /\ Temp \in AllLists /\ Temp # l /\ Temp # m
  BY DEF AllLists, ListConstants
<1>2. ss \in [AllLists -> Seq(Nodes)]
  BY DEF Stands
<1>3. Stands(q1, s1)
  BY <1>1, SpliceList
<1>. HIDE DEF q1, s1
<1>4. Stands(q2, s2)
  BY <1>1, <1>3, SpliceList
<1>. HIDE DEF q2, s2
<1>5. Stands(q3, s3)
  BY <1>1, <1>4, SpliceList
<1>6. List!Swapped(q, l, m) = q3
  BY DEF List!Swapped, q1, q2
<1>7. s1 \in [AllLists -> Seq(Nodes)] /\ s2 \in [AllLists -> Seq(Nodes)]
  BY <1>3, <1>4 DEF Stands
<1>8. /\ s1[m] = <<>> /\ s1[Temp] = ss[m]
       /\ \A x \in AllLists \ {Temp, m} : s1[x] = ss[x]
  <2>1. ToBack(ss, Temp, m)[m] = <<>> /\ ToBack(ss, Temp, m)[Temp] = ss[m]
    BY <1>1, <1>2, FillsEmpty
  <2>2. \A x \in AllLists \ {Temp, m} : ToBack(ss, Temp, m)[x] = ss[x]
    BY <1>1, <1>2, FillsEmpty
  <2>. QED  BY <2>1, <2>2 DEF s1
<1>9. /\ s2[l] = <<>> /\ s2[Temp] = ss[m] /\ (l # m => s2[m] = ss[l])
       /\ \A x \in AllLists \ {Temp, l, m} : s2[x] = ss[x]
  <2>1. CASE l = m
    <3>1. ToBack(s1, m, l) = s1
      BY <1>1, <1>7, <2>1, StaysItself
    <3>. QED  BY <1>1, <1>8, <2>1, <3>1 DEF s2
  <2>2. CASE l # m
    <3>1. s1[m] = <<>>
      BY <1>8
    <3>2. /\ ToBack(s1, m, l)[l] = <<>> /\ ToBack(s1, m, l)[m] = s1[l]
          /\ \A x \in AllLists : x # m /\ x # l => ToBack(s1, m, l)[x] = s1[x]
      BY <1>1, <1>7, <2>2, <3>1, FillsEmpty
    <3>. QED  BY <1>1, <1>8, <2>2, <3>2 DEF s2
  <2>. QED  BY <2>1, <2>2
<1>10. /\ s3[Temp] = <<>> /\ s3[l] = ss[m] /\ (l # m => s3[m] = ss[l])
       /\ \A x \in AllLists \ {Temp, l, m} : s3[x] = ss[x]
  <2>1. s2[l] = <<>>
    BY <1>9
  <2>2. /\ s3[Temp] = <<>> /\ s3[l] = s2[Temp]
        /\ \A x \in AllLists : x # l /\ x # Temp => s3[x] = s2[x]
    BY <1>1, <1>7, <2>1, FillsEmpty
  <2>. QED  BY <1>1, <1>9, <2>2
<1>11. s3 \in [AllLists -> Seq(Nodes)]
  BY <1>5 DEF Stands
<1>. HIDE DEF s3
<1>12. s3 = [ss EXCEPT ![l] = ss[m], ![m] = ss[l]]
  <2>1. \A x \in AllLists : s3[x] = IF x = m THEN ss[l] ELSE IF x = l THEN ss[m] ELSE ss[x]
    BY <1>1, <1>10
  <2>. QED  BY <1>1, <1>2, <1>11, <2>1
<1>. QED  BY <1>5, <1>6, <1>12

\* A node that is in no list leaves what it hangs on.
LEMMA LeaveChain ==
  ASSUME ListConstants, NEW q, NEW ss, Stands(q, ss), NEW n \in Nodes,
         \A l \in AllLists : \A i \in 1..Len(ss[l]) : ss[l][i] # n
  PROVE  Stands(List!Left(q, n), ss)
<1>. DEFINE r == List!Left(q, n)
<1>1. Wired(q) /\ ss \in [AllLists -> Seq(Nodes)] /\ NoneShared(ss)
  BY DEF Stands
<1>2. Wired(r)
  BY <1>1, LeftWired
<1>3. ASSUME NEW l \in AllLists PROVE List!Joined(r, l, ss[l])
  <2>1. ss[l] \in Seq(Nodes) /\ Len(ss[l]) \in Nat
    BY <1>1
  <2>2. \A i \in 0..Len(ss[l]) + 1 : List!At(l, ss[l], i) \in List!Points /\ List!At(l, ss[l], i) # n
    <3>1. TAKE i \in 0..Len(ss[l]) + 1
    <3>2. i = 0 \/ i = Len(ss[l]) + 1 \/ i \in 1..Len(ss[l])
      BY <2>1
    <3>3. List!HeadOf(l) # n /\ List!TailOf(l) # n
      BY PointsDiffer
    <3>. QED  BY <2>1, <3>2, <3>3, PlacesArePoints
  <2>3. SUFFICES ASSUME NEW i \in 0..Len(ss[l])
                 PROVE  /\ r.next[List!At(l, ss[l], i)] = List!At(l, ss[l], i + 1)
                        /\ r.pre[List!At(l, ss[l], i + 1)] = List!At(l, ss[l], i)
    BY DEF List!Joined
  <2>. DEFINE a == List!At(l, ss[l], i)
              b == List!At(l, ss[l], i + 1)
  <2>4. i \in 0..Len(ss[l]) + 1 /\ i + 1 \in 0..Len(ss[l]) + 1
    BY <2>1
  <2>5. a \in List!Points /\ a # n /\ b \in List!Points /\ b # n
    BY <2>2, <2>4
  <2>6. q.next[a] = b /\ q.pre[b] = a
    BY DEF Stands, List!Joined
  <2>. HIDE DEF a, b
  <2>7. n \in List!Points /\ List!Null \notin List!Points
    BY PointsDiffer
  <2>8. a # q.pre[n] /\ b # q.next[n]
    BY <1>1, <2>5, <2>6, <2>7 DEF Wired
  <2>9. r.next[a] = q.next[a] /\ r.pre[b] = q.pre[b]
    BY <2>5, <2>7, <2>8, LeftIs
  <2>. QED  BY <2>6, <2>9 DEF a, b
<1>. QED  BY <1>1, <1>2, <1>3 DEF Stands

-----------------------------------------------------------------------------
(* The pointers implement sequences.                                       *)

ListInv == \E ss : Stands(pointers, ss) /\ ss[Temp] = <<>>

LEMMA HeldAre ==
  ASSUME ListConstants, runs = "list", NEW ss, Stands(pointers, ss)
  PROVE  listsHeld = [l \in Lists |-> ss[l]]
<1>1. \A l \in Lists : List!Contents(pointers, l) = ss[l]
  BY ContentsAre DEF AllLists
<1>. QED  BY <1>1 DEF listsHeld

LEMMA HeldAfter ==
  ASSUME ListConstants, runs' = "list", NEW ss, Stands(pointers', ss)
  PROVE  listsHeld' = [l \in Lists |-> ss[l]]
<1>1. \A l \in Lists : List!Contents(pointers', l) = ss[l]
  BY ContentsAre DEF AllLists
<1>. QED  BY <1>1 DEF listsHeld

LEMMA InitListInv == ASSUME ListConstants, List!Init PROVE ListInv /\ Seqs!Init
<1>. DEFINE q == pointers
            ss == [l \in AllLists |-> <<>>]
<1>1. AllLists \in SUBSET (Nat \ {0})
  BY DEF ListConstants, AllLists
<1>2. \A l \in AllLists : /\ List!HeadOf(l) - 1 = List!TailOf(l) /\ List!TailOf(l) + 1 = List!HeadOf(l)
                          /\ List!HeadOf(l) \in List!Points /\ List!TailOf(l) \in List!Points
                          /\ List!HeadOf(l) # List!TailOf(l)
  <2>1. TAKE l \in AllLists
  <2>2. List!HeadOf(l) - 1 = List!TailOf(l) /\ List!TailOf(l) + 1 = List!HeadOf(l)
    BY <1>1 DEF List!HeadOf, List!TailOf
  <2>. QED  BY <2>2, PointsDiffer
<1>3. /\ q = [next |-> q.next, pre |-> q.pre]
      /\ q.next = [x \in List!Points |-> q.next[x]] /\ q.pre = [x \in List!Points |-> q.pre[x]]
      /\ \A x \in List!Points :
           /\ q.next[x] = IF \E l \in AllLists : x = List!HeadOf(l) THEN x - 1 ELSE List!Null
           /\ q.pre[x] = IF \E l \in AllLists : x = List!TailOf(l) THEN x + 1 ELSE List!Null
  BY DEF List!Init, AllLists
<1>. HIDE DEF q
<1>4. \A x \in List!Points :
         \/ /\ q.next[x] = List!Null
            /\ \A l \in AllLists : x # List!HeadOf(l)
         \/ \E l \in AllLists : x = List!HeadOf(l) /\ q.next[x] = List!TailOf(l)
  BY <1>2, <1>3
<1>5. \A x \in List!Points :
         \/ /\ q.pre[x] = List!Null
            /\ \A l \in AllLists : x # List!TailOf(l)
         \/ \E l \in AllLists : x = List!TailOf(l) /\ q.pre[x] = List!HeadOf(l)
  BY <1>2, <1>3
<1>6. \A l \in AllLists : q.next[List!HeadOf(l)] = List!TailOf(l) /\ q.pre[List!TailOf(l)] = List!HeadOf(l)
  <2>1. TAKE l \in AllLists
  <2>2. PICK m \in AllLists : List!HeadOf(l) = List!HeadOf(m) /\ q.next[List!HeadOf(l)] = List!TailOf(m)
    BY <1>2, <1>4
  <2>3. PICK k \in AllLists : List!TailOf(l) = List!TailOf(k) /\ q.pre[List!TailOf(l)] = List!HeadOf(k)
    BY <1>2, <1>5
  <2>4. m = l /\ k = l
    BY <2>2, <2>3, PointsDiffer
  <2>. QED  BY <2>2, <2>3, <2>4
<1>7. Wired(q)
  <2>1. \A x \in List!Points : /\ q.next[x] \in List!Points \cup {List!Null}
                               /\ q.pre[x] \in List!Points \cup {List!Null}
    BY <1>2, <1>4, <1>5
  <2>2. q \in [next : PointsTo, pre : PointsTo]
    <3>1. q.next \in PointsTo /\ q.pre \in PointsTo
      BY <1>3, <2>1 DEF PointsTo
    <3>. QED  BY <1>3, <3>1
  <2>3. \A x \in List!Points : q.next[x] # List!Null => q.pre[q.next[x]] = x
    BY <1>4, <1>6
  <2>4. \A x \in List!Points : q.pre[x] # List!Null => q.next[q.pre[x]] = x
    BY <1>5, <1>6
  <2>5. \A l \in AllLists : q.pre[List!HeadOf(l)] = List!Null /\ q.next[List!TailOf(l)] = List!Null
    <3>1. TAKE l \in AllLists
    <3>2. \A m \in AllLists : List!HeadOf(l) # List!TailOf(m) /\ List!TailOf(l) # List!HeadOf(m)
      BY PointsDiffer
    <3>. QED  BY <1>2, <1>4, <1>5, <3>2
  <2>. QED  BY <2>2, <2>3, <2>4, <2>5 DEF Wired
<1>8. ss \in [AllLists -> Seq(Nodes)] /\ \A l \in AllLists : ss[l] = <<>> /\ Len(ss[l]) = 0
  OBVIOUS
<1>. HIDE DEF ss
<1>9. NoneShared(ss)
  BY <1>8 DEF NoneShared
<1>10. \A l \in AllLists : List!Joined(q, l, ss[l])
  <2>1. TAKE l \in AllLists
  <2>2. List!At(l, ss[l], 0) = List!HeadOf(l) /\ List!At(l, ss[l], 1) = List!TailOf(l)
    BY <1>8 DEF List!At
  <2>. QED  BY <1>6, <1>8, <2>2 DEF List!Joined
<1>11. Stands(q, ss)
  BY <1>7, <1>8, <1>9, <1>10 DEF Stands
<1>12. ListInv
  BY <1>8, <1>11 DEF ListInv, q, AllLists
<1>13. listsHeld = [l \in Lists |-> <<>>]
  <2>1. CASE runs = "list"
    <3>1. listsHeld = [l \in Lists |-> ss[l]]
      BY <1>11, <2>1, HeldAre DEF q
    <3>. QED  BY <1>8, <3>1 DEF AllLists
  <2>2. CASE runs # "list"
    BY <2>2 DEF listsHeld
  <2>. QED  BY <2>1, <2>2
<1>. QED  BY <1>12, <1>13 DEF Seqs!Init

LEMMA PushStep ==
  ASSUME ListConstants, runs = "list", runs' = runs, NEW ss, Stands(pointers, ss), ss[Temp] = <<>>,
         NEW l \in Lists, NEW n \in Nodes, List!Push(l, n)
  PROVE  Seqs!Push(l) /\ ListInv'
<1>1. /\ pointers.next[n] = List!Null /\ pointers.pre[n] = List!Null
      /\ pointers' \in {List!PushedFront(pointers, l, n), List!PushedBack(pointers, l, n)}
  BY DEF List!Push, List!Alone
<1>2. l \in AllLists /\ Temp \in AllLists /\ Temp # l /\ Lists \subseteq AllLists
  BY DEF AllLists, ListConstants
<1>3. /\ \A m \in AllLists : \A i \in 1..Len(ss[m]) : ss[m][i] # n
      /\ Stands(List!PushedFront(pointers, l, n), [ss EXCEPT ![l] = <<n>> \o ss[l]])
      /\ Stands(List!PushedBack(pointers, l, n), [ss EXCEPT ![l] = Append(ss[l], n)])
  BY <1>1, <1>2, PushList
<1>4. listsHeld = [m \in Lists |-> ss[m]]
  BY HeldAre
<1>5. ss \in [AllLists -> Seq(Nodes)]
  BY DEF Stands
<1>6. n \in Seqs!Free
  <2>1. \A m \in Lists : n \notin Seqs!ToSet(listsHeld[m])
    <3>1. TAKE m \in Lists
    <3>2. listsHeld[m] = ss[m] /\ ss[m] \in Seq(Nodes) /\ DOMAIN ss[m] = 1..Len(ss[m])
      BY <1>2, <1>4, <1>5
    <3>. QED  BY <1>2, <1>3, <3>2 DEF Seqs!ToSet
  <2>. QED  BY <2>1 DEF Seqs!Free
<1>7. \A s : LET tt == [ss EXCEPT ![l] = s]
             IN  Stands(pointers', tt)
                   => ListInv' /\ listsHeld' = [listsHeld EXCEPT ![l] = s]
  <2>1. SUFFICES ASSUME NEW s, Stands(pointers', [ss EXCEPT ![l] = s])
                 PROVE  ListInv' /\ listsHeld' = [listsHeld EXCEPT ![l] = s]
    OBVIOUS
  <2>. DEFINE tt == [ss EXCEPT ![l] = s]
  <2>2. listsHeld' = [m \in Lists |-> tt[m]]
    BY <2>1, HeldAfter
  <2>3. tt[Temp] = <<>>
    BY <1>2, <1>5
  <2>4. ListInv'
    BY <2>1, <2>3 DEF ListInv
  <2>5. [m \in Lists |-> tt[m]] = [listsHeld EXCEPT ![l] = s]
    BY <1>2, <1>4, <1>5
  <2>. QED  BY <2>2, <2>4, <2>5
<1>8. listsHeld[l] = ss[l]
  BY <1>4
<1>9. CASE pointers' = List!PushedFront(pointers, l, n)
  <2>1. ListInv' /\ listsHeld' = [listsHeld EXCEPT ![l] = <<n>> \o ss[l]]
    BY <1>3, <1>7, <1>9
  <2>. QED  BY <1>6, <1>8, <2>1 DEF Seqs!Push
<1>10. CASE pointers' = List!PushedBack(pointers, l, n)
  <2>1. ListInv' /\ listsHeld' = [listsHeld EXCEPT ![l] = Append(ss[l], n)]
    BY <1>3, <1>7, <1>10
  <2>. QED  BY <1>6, <1>8, <2>1 DEF Seqs!Push
<1>. QED  BY <1>1, <1>9, <1>10

LEMMA LeaveAt ==
  ASSUME ListConstants, runs = "list", runs' = runs, NEW ss, Stands(pointers, ss), ss[Temp] = <<>>,
         NEW l \in Lists, NEW k \in 1..Len(ss[l]), pointers' = List!Left(pointers, ss[l][k])
  PROVE  Seqs!Leave(l) /\ ListInv'
<1>. DEFINE tt == [ss EXCEPT ![l] = List!RemoveAt(@, k)]
<1>1. l \in AllLists /\ Temp \in AllLists /\ Temp # l /\ Lists \subseteq AllLists
  BY DEF AllLists, ListConstants
<1>2. ss \in [AllLists -> Seq(Nodes)]
  BY DEF Stands
<1>3. Stands(pointers', tt)
  BY <1>1, LeaveList
<1>4. tt[Temp] = <<>>
  BY <1>1, <1>2
<1>5. ListInv'
  BY <1>3, <1>4 DEF ListInv
<1>6. listsHeld = [m \in Lists |-> ss[m]] /\ listsHeld' = [m \in Lists |-> tt[m]]
  BY <1>3, HeldAre, HeldAfter
<1>7. \A s : List!RemoveAt(s, k) = Seqs!RemoveAt(s, k)
  BY DEF List!RemoveAt, Seqs!RemoveAt
<1>8. listsHeld[l] = ss[l] /\ k \in DOMAIN listsHeld[l]
  <2>1. listsHeld[l] = ss[l]
    BY <1>6
  <2>2. ss[l] \in Seq(Nodes)
    BY <1>1, <1>2
  <2>. QED  BY <2>1, <2>2
<1>9. tt[l] = Seqs!RemoveAt(ss[l], k) /\ \A m \in Lists : m # l => tt[m] = ss[m]
  BY <1>1, <1>2, <1>7
<1>. HIDE DEF tt
<1>10. listsHeld' = [listsHeld EXCEPT ![l] = Seqs!RemoveAt(listsHeld[l], k)]
  BY <1>6, <1>8, <1>9
<1>. QED  BY <1>5, <1>8, <1>10 DEF Seqs!Leave

LEMMA PopStep ==
  ASSUME ListConstants, runs = "list", runs' = runs, NEW ss, Stands(pointers, ss), ss[Temp] = <<>>,
         NEW l \in Lists, List!Pop(l)
  PROVE  Seqs!Leave(l) /\ ListInv'
<1>1. l \in AllLists
  BY DEF AllLists
<1>2. ss[l] # <<>> /\ ss[l] \in Seq(Nodes)
  BY <1>1, EndsOf DEF List!Pop, Stands
<1>3. 1 \in 1..Len(ss[l]) /\ Len(ss[l]) \in 1..Len(ss[l])
  BY <1>2
<1>4. List!FirstOf(pointers, l) = ss[l][1] /\ List!LastOf(pointers, l) = ss[l][Len(ss[l])]
  BY <1>1, <1>2, EndsOf
<1>5. \/ pointers' = List!Left(pointers, ss[l][1])
      \/ pointers' = List!Left(pointers, ss[l][Len(ss[l])])
  BY <1>4 DEF List!Pop
<1>. QED  BY <1>3, <1>5, LeaveAt

LEMMA LeaveStep ==
  ASSUME ListConstants, runs = "list", runs' = runs, NEW ss, Stands(pointers, ss), ss[Temp] = <<>>,
         NEW n \in Nodes, List!Leave(n)
  PROVE  (UNCHANGED listsHeld \/ \E l \in Lists : Seqs!Leave(l)) /\ ListInv'
<1>1. CASE \E l \in AllLists : \E k \in 1..Len(ss[l]) : ss[l][k] = n
  <2>1. PICK l \in AllLists : \E k \in 1..Len(ss[l]) : ss[l][k] = n
    BY <1>1
  <2>2. PICK k \in 1..Len(ss[l]) : ss[l][k] = n
    BY <2>1
  <2>3. l \in Lists
    <3>1. l # Temp
      BY <2>2
    <3>. QED  BY <3>1 DEF AllLists
  <2>4. pointers' = List!Left(pointers, ss[l][k])
    BY <2>2 DEF List!Leave
  <2>. QED  BY <2>3, <2>4, LeaveAt
<1>2. CASE \A l \in AllLists : \A k \in 1..Len(ss[l]) : ss[l][k] # n
  <2>1. Stands(pointers', ss)
    BY <1>2, LeaveChain DEF List!Leave
  <2>2. listsHeld = [m \in Lists |-> ss[m]] /\ listsHeld' = [m \in Lists |-> ss[m]]
    BY <2>1, HeldAre, HeldAfter
  <2>. QED  BY <2>1, <2>2 DEF ListInv
<1>. QED  BY <1>1, <1>2

LEMMA ClearStep ==
  ASSUME ListConstants, runs = "list", runs' = runs, NEW ss, Stands(pointers, ss), ss[Temp] = <<>>,
         NEW l \in Lists, List!Clear(l)
  PROVE  Seqs!Clear(l) /\ ListInv'
<1>. DEFINE tt == [ss EXCEPT ![l] = <<>>]
<1>1. l \in AllLists /\ Temp \in AllLists /\ Lists \subseteq AllLists
  BY DEF AllLists
<1>2. ss \in [AllLists -> Seq(Nodes)]
  BY DEF Stands
<1>3. Stands(pointers', tt)
  BY <1>1, ClearList DEF List!Clear
<1>4. listsHeld = [m \in Lists |-> ss[m]] /\ listsHeld' = [m \in Lists |-> tt[m]]
  BY <1>3, HeldAre, HeldAfter
<1>5. tt[Temp] = <<>>
  BY <1>1, <1>2
<1>6. listsHeld' = [listsHeld EXCEPT ![l] = <<>>]
  BY <1>1, <1>2, <1>4
<1>. QED  BY <1>3, <1>5, <1>6 DEF Seqs!Clear, ListInv

LEMMA SpliceStep ==
  ASSUME ListConstants, runs = "list", runs' = runs, NEW ss, Stands(pointers, ss), ss[Temp] = <<>>,
         NEW l \in Lists, NEW m \in Lists, List!Splice(l, m)
  PROVE  (UNCHANGED listsHeld \/ (l # m /\ Seqs!Splice(l, m))) /\ ListInv'
<1>1. l \in AllLists /\ m \in AllLists /\ Temp \in AllLists /\ Temp # l /\ Temp # m /\ Lists \subseteq AllLists
  BY DEF AllLists, ListConstants
<1>2. ss \in [AllLists -> Seq(Nodes)]
  BY DEF Stands
<1>3. \/ Stands(pointers', ToFront(ss, l, m))
      \/ Stands(pointers', ToBack(ss, l, m))
  BY <1>1, SpliceList DEF List!Splice
<1>4. listsHeld = [x \in Lists |-> ss[x]]
  BY HeldAre
<1>5. CASE l = m
  <2>1. Stands(pointers', ss)
    BY <1>1, <1>2, <1>3, <1>5, StaysItself
  <2>2. listsHeld' = [x \in Lists |-> ss[x]]
    BY <2>1, HeldAfter
  <2>. QED  BY <1>4, <2>1, <2>2 DEF ListInv
<1>6. CASE l # m
  <2>1. \A s : LET tt == [ss EXCEPT ![m] = <<>>, ![l] = s]
               IN  Stands(pointers', tt)
                     => ListInv' /\ listsHeld' = [listsHeld EXCEPT ![m] = <<>>, ![l] = s]
    <3>1. SUFFICES ASSUME NEW s, Stands(pointers', [ss EXCEPT ![m] = <<>>, ![l] = s])
                   PROVE  ListInv' /\ listsHeld' = [listsHeld EXCEPT ![m] = <<>>, ![l] = s]
      OBVIOUS
    <3>. DEFINE tt == [ss EXCEPT ![m] = <<>>, ![l] = s]
    <3>2. listsHeld' = [x \in Lists |-> tt[x]]
      BY <3>1, HeldAfter
    <3>3. tt[Temp] = <<>>
      BY <1>1, <1>2
    <3>4. ListInv'
      BY <3>1, <3>3 DEF ListInv
    <3>5. [x \in Lists |-> tt[x]] = [listsHeld EXCEPT ![m] = <<>>, ![l] = s]
      BY <1>1, <1>2, <1>4
    <3>. QED  BY <3>2, <3>4, <3>5
  <2>2. listsHeld[l] = ss[l] /\ listsHeld[m] = ss[m]
    BY <1>4
  <2>3. CASE Stands(pointers', ToFront(ss, l, m))
    <3>1. ToFront(ss, l, m) = [ss EXCEPT ![m] = <<>>, ![l] = ss[m] \o ss[l]]
      BY <1>1, <1>2, <1>6 DEF ToFront
    <3>2. ListInv' /\ listsHeld' = [listsHeld EXCEPT ![m] = <<>>, ![l] = ss[m] \o ss[l]]
      BY <2>1, <2>3, <3>1
    <3>3. [listsHeld EXCEPT ![m] = <<>>, ![l] = IF TRUE THEN listsHeld[m] \o @ ELSE @ \o listsHeld[m]]
            = [listsHeld EXCEPT ![m] = <<>>, ![l] = ss[m] \o ss[l]]
      BY <1>4, <1>6, <2>2
    <3>. QED  BY <1>6, <3>2, <3>3 DEF Seqs!Splice
  <2>4. CASE Stands(pointers', ToBack(ss, l, m))
    <3>1. ToBack(ss, l, m) = [ss EXCEPT ![m] = <<>>, ![l] = ss[l] \o ss[m]]
      BY <1>1, <1>2, <1>6 DEF ToBack
    <3>2. ListInv' /\ listsHeld' = [listsHeld EXCEPT ![m] = <<>>, ![l] = ss[l] \o ss[m]]
      BY <2>1, <2>4, <3>1
    <3>3. [listsHeld EXCEPT ![m] = <<>>, ![l] = IF FALSE THEN listsHeld[m] \o @ ELSE @ \o listsHeld[m]]
            = [listsHeld EXCEPT ![m] = <<>>, ![l] = ss[l] \o ss[m]]
      BY <1>4, <1>6, <2>2
    <3>. QED  BY <1>6, <3>2, <3>3 DEF Seqs!Splice
  <2>. QED  BY <1>3, <2>3, <2>4
<1>. QED  BY <1>5, <1>6

LEMMA SwapStep ==
  ASSUME ListConstants, runs = "list", runs' = runs, NEW ss, Stands(pointers, ss), ss[Temp] = <<>>,
         NEW l \in Lists, NEW m \in Lists, List!Swap(l, m)
  PROVE  (UNCHANGED listsHeld \/ (l # m /\ Seqs!Swap(l, m))) /\ ListInv'
<1>. DEFINE tt == [ss EXCEPT ![l] = ss[m], ![m] = ss[l]]
<1>1. l \in AllLists /\ m \in AllLists /\ Temp \in AllLists /\ Temp # l /\ Temp # m /\ Lists \subseteq AllLists
  BY DEF AllLists, ListConstants
<1>2. ss \in [AllLists -> Seq(Nodes)]
  BY DEF Stands
<1>3. Stands(pointers', tt)
  BY SwapList DEF List!Swap
<1>4. listsHeld = [x \in Lists |-> ss[x]] /\ listsHeld' = [x \in Lists |-> tt[x]]
  BY <1>3, HeldAre, HeldAfter
<1>5. tt[Temp] = <<>>
  BY <1>1, <1>2
<1>6. ListInv'
  BY <1>3, <1>5 DEF ListInv
<1>7. listsHeld' = [listsHeld EXCEPT ![l] = listsHeld[m], ![m] = listsHeld[l]]
  BY <1>1, <1>2, <1>4
<1>8. l = m => listsHeld' = listsHeld
  BY <1>1, <1>2, <1>4
<1>. QED  BY <1>6, <1>7, <1>8 DEF Seqs!Swap

LEMMA ListStep ==
  ASSUME ListConstants, runs = "list", runs' = runs, ListInv, List!Next
  PROVE  ListInv' /\ [Seqs!Next]_listsHeld
<1>1. PICK ss : Stands(pointers, ss) /\ ss[Temp] = <<>>
  BY DEF ListInv
<1>2. ASSUME NEW l \in Lists, List!Pop(l) PROVE ListInv' /\ [Seqs!Next]_listsHeld
  BY <1>1, <1>2, PopStep DEF Seqs!Next
<1>3. ASSUME NEW l \in Lists, List!Clear(l) PROVE ListInv' /\ [Seqs!Next]_listsHeld
  BY <1>1, <1>3, ClearStep DEF Seqs!Next
<1>4. ASSUME NEW l \in Lists, NEW n \in Nodes, List!Push(l, n) PROVE ListInv' /\ [Seqs!Next]_listsHeld
  BY <1>1, <1>4, PushStep DEF Seqs!Next
<1>5. ASSUME NEW n \in Nodes, List!Leave(n) PROVE ListInv' /\ [Seqs!Next]_listsHeld
  BY <1>1, <1>5, LeaveStep DEF Seqs!Next
<1>6. ASSUME NEW l \in Lists, NEW m \in Lists, List!Splice(l, m) PROVE ListInv' /\ [Seqs!Next]_listsHeld
  BY <1>1, <1>6, SpliceStep DEF Seqs!Next
<1>7. ASSUME NEW l \in Lists, NEW m \in Lists, List!Swap(l, m) PROVE ListInv' /\ [Seqs!Next]_listsHeld
  BY <1>1, <1>7, SwapStep DEF Seqs!Next
<1>. QED  BY <1>2, <1>3, <1>4, <1>5, <1>6, <1>7 DEF List!Next

\* NodeList: a list holds the nodes its pointers join, and every operation does to the
\* sequences what NodeSeqs says, for any nodes and lists; a list spliced to or swapped
\* with itself keeps what it has.
THEOREM NodesAlwaysImplement == ASSUME ListConstants PROVE CoreSpec => NodesImplement
<1>1. CoreInit => ListInv /\ Seqs!Init
  BY InitListInv DEF CoreInit, AllInit
<1>2. ASSUME ListInv, [CoreNext]_coreVars
      PROVE  ListInv' /\ [Seqs!Next]_listsHeld
  <2>1. CASE RunsList
    BY <1>2, <2>1, ListStep DEF RunsList
  <2>2. CASE UNCHANGED <<runs, pointers>>
    <3>1. ListInv'
      BY <1>2, <2>2 DEF ListInv
    <3>2. UNCHANGED listsHeld
      BY <2>2 DEF listsHeld
    <3>. QED  BY <3>1, <3>2
  <2>3. RunsTree \/ RunsWheel \/ RunsPool \/ RunsEvent \/ RunsSnow \/ UNCHANGED coreVars
          => UNCHANGED <<runs, pointers>>
    BY DEF RunsTree, RunsWheel, RunsPool, RunsEvent, RunsSnow, restVars, coreVars
  <2>. QED  BY <1>2, <2>1, <2>2, <2>3 DEF CoreNext
<1>. QED  BY <1>1, <1>2, PTL DEF CoreSpec, NodesImplement, Seqs!Spec
=============================================================================
