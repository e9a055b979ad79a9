-------------------------------- MODULE Tables --------------------------------
(***************************************************************************)
(* The components that keep tables: RouteMgr (the module extended), the    *)
(* generator of ids that are used again and the store of a LevelConnector. *)
(* They share nothing; a behaviour is of one of them, and the variables of *)
(* the others keep their first values.                                     *)
(***************************************************************************)
EXTENDS RouteMgr, Sequences

CONSTANTS
  MaxID,           \* of ReuseIDGen
  Names, Fields, Datas, Mid, Top, Width, Indices, MaxKeys   \* of LevelStore

\* A name is a byte, and a field some bytes; there is room for a digit on either side of the middle.
ASSUME StoreConstants ==
  /\ Names \subseteq Nat /\ Fields \subseteq Seq(Nat) \ {<<>>}
  /\ Mid \in Nat /\ Top \in Nat /\ 1 < Mid /\ Mid + 1 < Top
  /\ Width \in Nat \ {0} /\ Indices \subseteq Int /\ MaxKeys \in Nat

VARIABLES
  which,                     \* the component that runs
  mUsedIDs, cursor, loop,    \* ReuseIDGen
  db                         \* LevelStore

R == INSTANCE ReuseIDGen WITH mLastID <- cursor
L == INSTANCE LevelStore

reuseVars == <<mUsedIDs, cursor, loop>>

TablesInit == which \in {"routes", "reuse", "store"} /\ Init /\ R!Init /\ L!Init

RunsRoutes == which = "routes" /\ Next /\ UNCHANGED <<which, reuseVars, db>>
RunsReuse == which = "reuse" /\ R!Next /\ UNCHANGED <<which, vars, db>>
RunsStore == which = "store" /\ L!Next /\ UNCHANGED <<which, vars, reuseVars>>

TablesNext == RunsRoutes \/ RunsReuse \/ RunsStore

\* The loops of ReuseIDGen go on; nothing is assumed of the callers.
SearchGoesOn == which = "reuse" /\ R!Search /\ UNCHANGED <<which, vars, db>>

TablesSpec ==
  /\ TablesInit /\ [][TablesNext]_<<which, vars, reuseVars, db>>
  /\ WF_<<which, vars, reuseVars, db>>(SearchGoesOn)

\* ReuseIDGen: both searches end, except the one of free_id for the last id.
SearchEnds == R!SearchEnds

\* LevelStore: the keys of the lists keep their elements in their order, each operation
\* makes of its list what it should, and it leaves every other list as it is, but ltrim,
\* by which other lists lose first elements, and hdrop, by which any may lose elements.
ListsImplement == L!ListsImplement

\* LevelStore: a range of a list holds the elements between its two indices.
RangesAgree == L!RangesAgree
===============================================================================
