--------------------------- MODULE FixedAllocator ---------------------------
(***************************************************************************)
(* The memory of an object pool (ObjectPool.h, FixedAllocator.cpp,         *)
(* MemoryChunk.cpp).  A chunk has N blocks; its free blocks form a chain   *)
(* that is kept in the blocks themselves, in their first byte, which is    *)
(* the owner's while a block is given out.  Chunks stand in one of three   *)
(* lists, by whether all, some or none of their blocks are given out.      *)
(***************************************************************************)
EXTENDS Integers, FiniteSets, SequencesExt

CONSTANTS
    Chunks,   \* bound: chunks that exist at once
    N         \* mCountBlocks

VARIABLES
    chunk,                     \* each chunk: its two counters and the blocks' first bytes
    lists,                     \* mFullList, mFreeList and mEmptyList
    mFullCount, mEmptyCount,
    owned                      \* history: chunk and block of every object given out

vars == <<chunk, lists, mFullCount, mEmptyCount, owned>>

Blocks == 0..(N - 1)

\* No block: what the last free one points at, or whatever an owner wrote.
Junk == N

Fresh == [mFirstAvBlock |-> 0, mCountAvBlocks |-> N, byte |-> [b \in Blocks |-> b + 1]]

Listed == UNION {ToSet(lists[k]) : k \in DOMAIN lists}

Init ==
    /\ chunk = [c \in Chunks |-> Fresh]
    /\ lists = [full |-> <<>>, free |-> <<>>, empty |-> <<>>]
    /\ mFullCount = 0 /\ mEmptyCount = 0 /\ owned = {}

\* MemoryChunk::allocate: the chain goes on where the block says; then the block is
\* the owner's.
Taken(h) ==
    [mFirstAvBlock |-> h.byte[h.mFirstAvBlock], mCountAvBlocks |-> h.mCountAvBlocks - 1,
     byte |-> [h.byte EXCEPT ![h.mFirstAvBlock] = Junk]]

\* Mutant of Given: the chain's head is moved before the block records it.
GivenTooLate(h, b) ==
    [mFirstAvBlock |-> b, mCountAvBlocks |-> h.mCountAvBlocks + 1,
     byte |-> [h.byte EXCEPT ![b] = b]]

\* MemoryChunk::deallocate
Given(h, b) ==
    [mFirstAvBlock |-> b, mCountAvBlocks |-> h.mCountAvBlocks + 1,
     byte |-> [h.byte EXCEPT ![b] = h.mFirstAvBlock]]

Kind(free) == CASE free = 0 -> "full" [] free = N -> "empty" [] OTHER -> "free"

\* A chunk whose kind changes leaves its list for the end of another.
Relisted(c, before, after) ==
    [k \in DOMAIN lists |->
        IF Kind(before) = Kind(after) THEN lists[k]
        ELSE IF k = Kind(after) THEN Append(lists[k], c) ELSE RemoveFirst(lists[k], c)]

\* FixedAllocator::allocate takes the first chunk with some blocks free, or the first
\* with all, or a new one.
Chosen ==
    CASE lists.free # <<>> -> {Head(lists.free)}
      [] lists.free = <<>> /\ lists.empty # <<>> -> {Head(lists.empty)}
      [] OTHER -> Chunks \ Listed

Get ==
    \E c \in Chosen :
      LET h == IF c \in Listed THEN chunk[c] ELSE Fresh
          before == h.mCountAvBlocks
      IN /\ chunk' = [chunk EXCEPT ![c] = Taken(h)]
         /\ lists' = Relisted(c, before, before - 1)
         /\ mFullCount' = IF before = 1 THEN mFullCount + 1 ELSE mFullCount
         /\ mEmptyCount' = IF before = N /\ c \in Listed THEN mEmptyCount - 1 ELSE mEmptyCount
         /\ owned' = owned \cup {<<c, h.mFirstAvBlock>>}

\* FixedAllocator::deallocate, and the gc of ObjectPool::free, which deletes the first
\* empty chunk when there are two.
Free(c, b) ==
    /\ <<c, b>> \in owned
    /\ owned' = owned \ {<<c, b>>}
    /\ chunk' = [chunk EXCEPT ![c] = Given(@, b)]
    /\ LET before == chunk[c].mCountAvBlocks
           relisted == Relisted(c, before, before + 1)
           empty == IF before + 1 = N THEN mEmptyCount + 1 ELSE mEmptyCount
       IN /\ mFullCount' = IF before = 0 THEN mFullCount - 1 ELSE mFullCount
          /\ IF empty > 1
               THEN lists' = [relisted EXCEPT !.empty = Tail(@)] /\ mEmptyCount' = empty - 1
               ELSE lists' = relisted /\ mEmptyCount' = empty

Next == Get \/ \E c \in Chunks, b \in Blocks : Free(c, b)

Spec == Init /\ [][Next]_vars

-----------------------------------------------------------------------------
\* The blocks the chain of a chunk passes, as many as the chunk says are free.
Chain(h) ==
    LET at[i \in 1..N] == IF i = 1 THEN h.mFirstAvBlock
                          ELSE IF at[i - 1] = Junk THEN Junk ELSE h.byte[at[i - 1]]
    IN [i \in 1..h.mCountAvBlocks |-> at[i]]

\* In every chunk the chain passes each block that is not given out, once, whatever
\* the owners wrote into theirs; each chunk stands once, in the list of its kind, and
\* the two counters count; no chunk with an object in it is deleted, and at most one
\* empty chunk is kept.
BlocksAgree ==
    /\ \A c \in Listed :
         /\ ToSet(Chain(chunk[c])) = {b \in Blocks : <<c, b>> \notin owned}
         /\ IsInjective(Chain(chunk[c]))
    /\ \A k \in DOMAIN lists :
         /\ ToSet(lists[k]) = {c \in Listed : Kind(chunk[c].mCountAvBlocks) = k}
         /\ IsInjective(lists[k])
    /\ mFullCount = Len(lists.full) /\ mEmptyCount = Len(lists.empty)
    /\ \A o \in owned : o[1] \in Listed
    /\ mEmptyCount <= 1
=============================================================================
