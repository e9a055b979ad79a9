--------------------------- MODULE Reacter_proofs ---------------------------
(***************************************************************************)
(* For every number of link objects, connects, listeners, links and calls  *)
(* of init(): no pointer to a link object outlives the link it was taken   *)
(* for, the events of a link are legal, a connect is answered once, and    *)
(* release() gives everything back.                                        *)
(***************************************************************************)
EXTENDS Reacter, FiniteSetTheorems, SequenceTheorems, TLAPS

-----------------------------------------------------------------------------
(* The inductive invariant.                                                *)

LinkRec == [id : 0..MaxLinks, timer : BOOLEAN, data : BOOLEAN,
            st : {"Invalid", "Opening", "Open", "Start", "End", "Close"},
            up : BOOLEAN, writable : BOOLEAN, closing : BOOLEAN,
            shut : {"no", "armed", "stuck"},
            conn : Conns \cup {NoConn}, writes : 0..MaxWrites]

\* One link object: what its state says of its handle, and the reverse.
LinkOK(x) ==
  /\ x \in LinkRec
  /\ x.id = 0 => x = Pooled
  /\ x.id # 0 => x.st # "Invalid" /\ (x.up <=> x.st # "Close")
  /\ ~x.up => /\ ~x.writable /\ x.shut = "no" /\ ~x.closing /\ x.conn = NoConn
              /\ x.writes = 0 /\ ~x.timer
  /\ x.conn # NoConn => x.st = "Opening"
  /\ x.st = "Opening" => x.writes = 0 /\ ~x.data /\ ~x.timer
  /\ x.data => x.writes < MaxWrites

\* What may be reported of one link.
Reports == {<<>>, <<"Open">>, <<"Open", "Start">>, <<"Close">>, <<"Open", "Close">>,
            <<"Open", "Start", "Close">>}

\* What has been reported of a link in state st.
EvsOf(st) ==
  CASE st = "Opening" -> {<<>>}
    [] st = "Open"    -> {<<"Open">>}
    [] st = "Start"   -> {<<"Open", "Start">>}
    [] st = "End"     -> {<<"Open">>, <<"Open", "Start">>}
    [] OTHER          -> {<<"Close">>, <<"Open", "Close">>, <<"Open", "Start", "Close">>}

Types ==
  /\ rstate \in {"Invalid", "Valid", "Closing"}
  /\ phase \in {"out", "timer", "uv", "close"}
  /\ obj \in [Objs -> LinkRec]
  /\ links \subseteq LinkIDs \X Objs
  /\ gen \in 0..MaxLinks
  /\ timers \subseteq Objs \X LinkIDs
  /\ ready \subseteq Objs \X LinkIDs
  /\ work \subseteq Objs \X LinkIDs
  /\ lsn \in [Listeners -> {"none", "listening", "closing"}]
  /\ resolving \subseteq Conns
  /\ closeq \subseteq Objs \cup Listeners
  /\ fault \in {"none", "listener", "link"}
  /\ inits \in 0..MaxInits
  /\ called \in [Conns -> -1..2]
  /\ evs \in [LinkIDs -> Reports]

\* Who refers to an object, and that only one link has it.
Refs ==
  /\ \A o \in Objs : LinkOK(obj[o]) /\ obj[o].id <= gen
  /\ \A o1, o2 \in Objs : obj[o1].id # 0 /\ obj[o1].id = obj[o2].id => o1 = o2
  /\ \A t \in timers : obj[t[1]].id = t[2] /\ obj[t[1]].timer
  /\ \A t \in ready \cup work : obj[t[1]].id = t[2] /\ ~obj[t[1]].up
  /\ \A r \in ready, w \in work : r[1] # w[1]
  /\ \A p \in links : obj[p[2]].id = p[1]
  /\ \A o \in Objs : obj[o].id # 0 => <<obj[o].id, o>> \in links
  /\ \A o \in Objs : o \in closeq => obj[o].closing
  /\ phase # "close" => closeq = {}

\* The events agree with the states.
Events ==
  /\ \A i \in LinkIDs : i > gen => evs[i] = <<>>
  /\ \A o \in Objs : obj[o].id # 0 => evs[obj[o].id] \in EvsOf(obj[o].st)
  /\ \A i \in LinkIDs : i <= gen => (\E o \in Objs : obj[o].id = i) \/ evs[i] \in EvsOf("Close")

\* A connect that has been asked for and not answered is in one place.
Connects ==
  /\ \A c \in Conns : called[c] <= 1
  /\ \A c \in resolving : called[c] = 0
  /\ \A o \in Objs : obj[o].conn # NoConn => called[obj[o].conn] = 0 /\ obj[o].conn \notin resolving
  /\ \A o1, o2 \in Objs : obj[o1].conn # NoConn /\ obj[o1].conn = obj[o2].conn => o1 = o2
  /\ \A c \in Conns : called[c] = 0 => c \in resolving \/ \E o \in Objs : obj[o].conn = c

IInv == Types /\ Refs /\ Events /\ Connects
-----------------------------------------------------------------------------
(* What the operators do to one link object.                               *)

\* y is x after a call that neither takes nor frees the object, nor ends its timer.
InUse(x, y) == LinkOK(y) /\ y.id = x.id /\ y.up = x.up /\ (x.closing => y.closing)
Kept(x, y)  == InUse(x, y) /\ (x.timer => y.timer)

\* Closing a link ends it if it was open, and changes nothing a pointer relies on.
LEMMA ClosedLink ==
  ASSUME NEW x, LinkOK(x)
  PROVE  /\ Kept(x, LinkClose(x))
         /\ LinkClose(x).conn = x.conn
         /\ LinkClose(x).st = IF x.st \in {"Open", "Start"} THEN "End" ELSE x.st
<1>1. CASE ~Valid(x)
  BY <1>1 DEF LinkClose, Kept, InUse, Valid, LinkOK, LinkRec
<1>2. CASE Valid(x)
  <2>. DEFINE y == [x EXCEPT !.st = IF x.st = "Opening" THEN x.st ELSE "End"]
  <2>1. x.up /\ x.id # 0
    BY <1>2 DEF LinkOK, Valid, LinkRec, Pooled
  <2>2. /\ y \in LinkRec /\ y.id = x.id /\ y.up = x.up /\ y.timer = x.timer
        /\ y.closing = x.closing /\ y.conn = x.conn /\ y.writes = x.writes /\ y.data = x.data
        /\ y.shut = x.shut /\ y.writable = x.writable
        /\ y.st = IF x.st \in {"Open", "Start"} THEN "End" ELSE x.st
    BY <1>2 DEF LinkOK, Valid, LinkRec
  <2>3. LinkOK(y)
    BY <1>2, <2>1, <2>2 DEF LinkOK, Valid
  <2>4. LinkClose(x) = CloseTcp(y)
    BY <1>2 DEF LinkClose
  <2>. HIDE DEF y
  <2>5. CASE y.writable /\ ~y.closing
    <3>. DEFINE z == UvShutdown(y)
    <3>1. /\ z \in LinkRec /\ z.id = y.id /\ z.up = y.up /\ z.timer = y.timer
          /\ z.closing = y.closing /\ z.conn = y.conn /\ z.writes = y.writes /\ z.data = y.data
          /\ z.st = y.st
      BY <2>2 DEF UvShutdown, LinkRec
    <3>2. LinkClose(x) = z
      BY <2>4, <2>5 DEF CloseTcp
    <3>. QED  BY <2>1, <2>2, <2>3, <3>1, <3>2 DEF Kept, InUse, LinkOK
  <2>6. CASE ~(y.writable /\ ~y.closing)
    <3>. DEFINE z == [y EXCEPT !.closing = TRUE]
    <3>1. /\ z \in LinkRec /\ z.id = y.id /\ z.up = y.up /\ z.timer = y.timer
          /\ z.closing /\ z.conn = y.conn /\ z.writes = y.writes /\ z.data = y.data
          /\ z.st = y.st /\ z.shut = y.shut
      BY <2>2 DEF LinkRec
    <3>2. LinkClose(x) = z
      BY <2>4, <2>6 DEF CloseTcp
    <3>. QED  BY <2>1, <2>2, <2>3, <3>1, <3>2 DEF Kept, InUse, LinkOK
  <2>. QED  BY <2>5, <2>6
<1>. QED  BY <1>1, <1>2

\* Flushing empties the writer; a handle that takes no write is left alone.
LEMMA FlushedLink ==
  ASSUME NEW x, LinkOK(x)
  PROVE  /\ Kept(x, LinkFlush(x))
         /\ LinkFlush(x).conn = x.conn /\ LinkFlush(x).st = x.st
<1>1. CASE ~Valid(x) \/ ~x.data
  BY <1>1 DEF LinkFlush, Kept, InUse
<1>2. CASE Valid(x) /\ x.data
  <2>. DEFINE w == IF x.writable THEN x.writes + 1 ELSE x.writes
              y == [x EXCEPT !.data = FALSE, !.writes = w]
  <2>1. x.up /\ x.id # 0 /\ x.st # "Opening"
    BY <1>2 DEF LinkOK, Valid, LinkRec, Pooled
  <2>2. w \in 0..MaxWrites
    BY <1>2, BoundsAssumption DEF LinkOK, LinkRec
  <2>3. LinkFlush(x) = y
    BY <1>2 DEF LinkFlush
  <2>. HIDE DEF w
  <2>4. /\ y \in LinkRec /\ y.id = x.id /\ y.up = x.up /\ y.timer = x.timer
        /\ y.closing = x.closing /\ y.conn = x.conn /\ ~y.data
        /\ y.shut = x.shut /\ y.writable = x.writable /\ y.st = x.st
    BY <2>2 DEF LinkOK, LinkRec
  <2>. QED  BY <2>1, <2>3, <2>4 DEF Kept, InUse, LinkOK
<1>. QED  BY <1>1, <1>2

\* What is pushed waits in the writer, with room for one more write.
LEMMA PushedLink ==
  ASSUME NEW x, LinkOK(x), x.st \in {"Open", "Start"}, NEW y \in LinkPush(x)
  PROVE  Kept(x, y) /\ y.conn = x.conn /\ y.st = x.st
<1>1. PICK z \in {x, LinkFlush(x)} : y = [z EXCEPT !.data = TRUE] /\ y.writes < MaxWrites
  BY DEF LinkPush
<1>2. Kept(x, z) /\ z.conn = x.conn /\ z.st = x.st
  BY <1>1, FlushedLink DEF Kept, InUse
<1>3. /\ y \in LinkRec /\ y.id = z.id /\ y.up = z.up /\ y.timer = z.timer /\ y.data
      /\ y.closing = z.closing /\ y.conn = z.conn /\ y.writes = z.writes
      /\ y.shut = z.shut /\ y.writable = z.writable /\ y.st = z.st
  BY <1>1, <1>2 DEF Kept, InUse, LinkOK, LinkRec
<1>4. x.id # 0
  BY DEF LinkOK, Pooled
<1>. QED  BY <1>1, <1>2, <1>3, <1>4 DEF Kept, InUse, LinkOK

\* A link that opens has its timer, and its events are those of its state.
LEMMA OpenedLink ==
  ASSUME NEW x, LinkOK(x), x.st = "Opening", x.up, x.conn = NoConn, NEW r \in LinkOnOpen(x)
  PROVE  /\ Kept(x, r.x) /\ r.x.conn = NoConn /\ r.x.timer
         /\ r.ev \in EvsOf(r.x.st)
         /\ r.ev \in {<<"Open">>, <<"Open", "Start">>}
<1>. DEFINE y == [x EXCEPT !.st = "Open", !.timer = TRUE]
            y2 == [y EXCEPT !.data = TRUE]
            y3 == [y EXCEPT !.st = "Start"]
<1>1. /\ y \in LinkRec /\ y.id = x.id /\ y.up /\ y.timer /\ y.st = "Open" /\ ~y.data
      /\ y.closing = x.closing /\ y.conn = NoConn /\ y.writes = 0
  BY DEF LinkOK, LinkRec
<1>2. x.id # 0
  BY DEF LinkOK, Pooled
<1>3. Kept(x, y)
  BY <1>1, <1>2 DEF Kept, InUse, LinkOK
<1>4. r \in {[x |-> y, ev |-> <<"Open">>], [x |-> y2, ev |-> <<"Open">>],
             [x |-> y3, ev |-> <<"Open", "Start">>], [x |-> LinkClose(y), ev |-> <<"Open">>]}
  BY DEF LinkOnOpen
<1>. HIDE DEF y
<1>5. /\ y2 \in LinkRec /\ y2.id = y.id /\ y2.up /\ y2.timer /\ y2.st = "Open"
      /\ y2.closing = y.closing /\ y2.conn = NoConn /\ y2.writes = 0
  BY <1>1 DEF LinkRec
<1>6. /\ y3 \in LinkRec /\ y3.id = y.id /\ y3.up /\ y3.timer /\ y3.st = "Start" /\ ~y3.data
      /\ y3.closing = y.closing /\ y3.conn = NoConn /\ y3.writes = 0
  BY <1>1 DEF LinkRec
<1>. HIDE DEF y2, y3
<1>7. Kept(x, y2) /\ Kept(x, y3)
  BY <1>1, <1>2, <1>5, <1>6, BoundsAssumption DEF Kept, InUse, LinkOK
<1>8. Kept(x, LinkClose(y)) /\ LinkClose(y).conn = NoConn /\ LinkClose(y).timer /\ LinkClose(y).st = "End"
  BY <1>1, <1>3, ClosedLink DEF Kept, InUse
<1>. QED  BY <1>1, <1>3, <1>4, <1>5, <1>6, <1>7, <1>8 DEF EvsOf

\* A link object is what its fields are.
LEMMA SameFields ==
  ASSUME NEW x \in LinkRec, NEW y \in LinkRec,
         x.id = y.id, x.st = y.st, x.timer = y.timer, x.data = y.data, x.up = y.up,
         x.writable = y.writable, x.shut = y.shut, x.closing = y.closing, x.conn = y.conn,
         x.writes = y.writes
  PROVE  x = y
BY DEF LinkRec

LEMMA PooledFields ==
  /\ Pooled \in LinkRec
  /\ Pooled.id = 0 /\ Pooled.st = "Invalid" /\ Pooled.timer = FALSE /\ Pooled.data = FALSE
  /\ Pooled.up = FALSE /\ Pooled.writable = FALSE /\ Pooled.shut = "no"
  /\ Pooled.closing = FALSE /\ Pooled.conn = NoConn /\ Pooled.writes = 0
BY BoundsAssumption DEF Pooled, LinkRec

\* A new link in a pooled object.
LEMMA MadeLink ==
  ASSUME gen < MaxLinks, gen \in Nat, NEW b \in BOOLEAN, NEW c \in Conns \cup {NoConn}
  PROVE  LET x == [NewLink(gen + 1) EXCEPT !.writable = b, !.conn = c] IN
         LinkOK(x) /\ x.id = gen + 1 /\ x.st = "Opening" /\ x.up /\ x.conn = c
<1>. DEFINE n == NewLink(gen + 1)
            x == [n EXCEPT !.writable = b, !.conn = c]
<1>1. gen + 1 \in 0..MaxLinks /\ gen + 1 # 0
  BY BoundsAssumption
<1>2. /\ n \in LinkRec /\ n.id = gen + 1 /\ n.st = "Opening" /\ n.up
      /\ n.writes = 0 /\ n.data = FALSE /\ n.timer = FALSE
  BY <1>1, PooledFields DEF NewLink, LinkRec
<1>. HIDE DEF n
<1>3. /\ x \in LinkRec /\ x.id = gen + 1 /\ x.st = "Opening" /\ x.up /\ x.conn = c
      /\ x.writes = 0 /\ ~x.data /\ ~x.timer
  BY <1>2 DEF LinkRec
<1>. HIDE DEF x
<1>4. LinkOK(x)
  BY <1>1, <1>3 DEF LinkOK
<1>. QED  BY <1>3, <1>4 DEF x, n

\* A link that is freed is pooled, when its handle is done.
LEMMA FreedLink ==
  ASSUME NEW x, LinkOK(x), ~x.up
  PROVE  Cleared(x) = Pooled
<1>. DEFINE y == Cleared(x)
<1>1. x \in LinkRec
  BY DEF LinkOK
<1>2. y \in LinkRec
  <2>1. 0 \in 0..MaxLinks /\ "Invalid" \in {"Invalid", "Opening", "Open", "Start", "End", "Close"}
    BY BoundsAssumption
  <2>. QED  BY <1>1, <2>1 DEF Cleared, LinkRec
<1>3. /\ y.id = 0 /\ y.st = "Invalid" /\ y.timer = FALSE /\ y.data = FALSE
      /\ y.up = x.up /\ y.writable = x.writable /\ y.shut = x.shut /\ y.closing = x.closing
      /\ y.conn = x.conn /\ y.writes = x.writes
  BY <1>1 DEF Cleared, LinkRec
<1>. HIDE DEF y
<1>4. /\ y.up = FALSE /\ y.writable = FALSE /\ y.shut = "no" /\ y.closing = FALSE
      /\ y.conn = NoConn /\ y.writes = 0
  BY <1>1, <1>3 DEF LinkOK, LinkRec
<1>5. y = Pooled
  BY <1>2, <1>3, <1>4, PooledFields, SameFields
<1>. QED  BY <1>5 DEF y

\* A handle that is done.
LEMMA DoneLink ==
  ASSUME NEW x, LinkOK(x), x.up
  PROVE  LET y == Closed(x) IN
         LinkOK(y) /\ y.id = x.id /\ ~y.up /\ ~y.timer /\ y.conn = NoConn /\ y.st = "Close" /\ ~y.closing
<1>. DEFINE y == Closed(x)
<1>1. x.id \in 0..MaxLinks /\ x.data \in BOOLEAN /\ x.id # 0
  BY DEF LinkOK, LinkRec, Pooled
<1>2. /\ y \in LinkRec /\ y.id = x.id /\ ~y.up /\ ~y.timer /\ y.conn = NoConn /\ y.st = "Close"
      /\ ~y.closing /\ y.writes = 0 /\ y.shut = "no" /\ ~y.writable
  BY <1>1, PooledFields DEF Closed, LinkRec
<1>. HIDE DEF y
<1>3. LinkOK(y)
  BY <1>1, <1>2, BoundsAssumption DEF LinkOK
<1>. QED  BY <1>2, <1>3 DEF y

-----------------------------------------------------------------------------
(* The parts of the invariant, for steps that leave them alone.            *)

TimersHeld == \A t \in timers : obj[t[1]].id = t[2] /\ obj[t[1]].timer

\* References stay good when every object keeps its user.
LEMMA RefsKept ==
  ASSUME Types, Refs, \A o \in Objs : InUse(obj[o], obj'[o]),
         UNCHANGED <<links, gen, ready, work>>, TimersHeld',
         closeq' \subseteq closeq, phase' # "close" => closeq' = {}
  PROVE  Refs'
<1>1. \A o \in Objs : LinkOK(obj'[o]) /\ obj'[o].id = obj[o].id /\ obj'[o].up = obj[o].up
                      /\ (obj[o].closing => obj'[o].closing)
  BY DEF InUse
<1>2. \A t \in ready \cup work : t[1] \in Objs
  BY DEF Types
<1>3. \A p \in links : p[2] \in Objs
  BY DEF Types
<1>. QED  BY <1>1, <1>2, <1>3 DEF Refs, TimersHeld

LEMMA TimersKept ==
  ASSUME Types, Refs, \A o \in Objs : Kept(obj[o], obj'[o]), timers' = timers
  PROVE  TimersHeld'
BY DEF TimersHeld, Types, Refs, Kept, InUse

\* Nothing is reported: a link may end, and keeps its id.
LEMMA EventsKept ==
  ASSUME Types, Refs, Events, UNCHANGED <<gen, evs>>,
         \A o \in Objs : /\ obj'[o].id = obj[o].id
                         /\ obj'[o].st = obj[o].st
                              \/ (obj[o].st \in {"Open", "Start"} /\ obj'[o].st = "End")
  PROVE  Events'
<1>1. \A o \in Objs : EvsOf(obj[o].st) \subseteq EvsOf(obj'[o].st)
  BY DEF EvsOf
<1>. QED  BY <1>1 DEF Events

LEMMA EventsTyped ==
  ASSUME Types, NEW i \in LinkIDs, NEW st, NEW s \in EvsOf(st), evs' = [evs EXCEPT ![i] = s]
  PROVE  evs' \in [LinkIDs -> Reports]
<1>1. s \in Reports
  BY DEF EvsOf, Reports
<1>. QED  BY <1>1 DEF Types

\* One link reports what belongs to its new state.
LEMMA EventsReported ==
  ASSUME Types, Refs, Events, NEW o \in Objs, obj[o].id # 0, NEW y, y.id = obj[o].id,
         obj' = [obj EXCEPT ![o] = y], gen' = gen, NEW s, s \in EvsOf(y.st),
         evs' = [evs EXCEPT ![obj[o].id] = s]
  PROVE  Events'
<1>1. obj[o].id \in LinkIDs /\ obj[o].id <= gen
  BY DEF Types, Refs, LinkRec, LinkIDs
<1>2. \A i \in LinkIDs : evs'[i] = IF i = obj[o].id THEN s ELSE evs[i]
  BY DEF Types
<1>3. \A q \in Objs : obj'[q] = IF q = o THEN y ELSE obj[q]
  BY DEF Types
<1>4. \A q \in Objs : obj'[q].id # 0 => evs'[obj'[q].id] \in EvsOf(obj'[q].st)
  <2>1. SUFFICES ASSUME NEW q \in Objs, q # o, obj[q].id # 0
                 PROVE  evs'[obj[q].id] \in EvsOf(obj[q].st)
    BY <1>1, <1>2, <1>3
  <2>2. obj[q].id # obj[o].id /\ obj[q].id \in LinkIDs
    BY <2>1 DEF Refs, Types, LinkRec, LinkIDs
  <2>. QED  BY <1>2, <2>1, <2>2 DEF Events
<1>5. \A i \in LinkIDs : i > gen => evs'[i] = <<>>
  BY <1>1, <1>2 DEF Events, Types, LinkIDs
<1>6. ASSUME NEW i \in LinkIDs, i <= gen
      PROVE  (\E q \in Objs : obj'[q].id = i) \/ evs'[i] \in EvsOf("Close")
  <2>1. CASE \E q \in Objs : obj[q].id = i
    BY <2>1, <1>3
  <2>2. CASE evs[i] \in EvsOf("Close") /\ i # obj[o].id
    BY <2>2, <1>2
  <2>. QED  BY <1>6, <1>1, <2>1, <2>2 DEF Events
<1>. QED  BY <1>4, <1>5, <1>6 DEF Events

\* A connect neither begins nor ends.
LEMMA ConnectsKept ==
  ASSUME Connects, UNCHANGED <<resolving, called>>, \A o \in Objs : obj'[o].conn = obj[o].conn
  PROVE  Connects'
BY DEF Connects

\* The common case: objects keep their users, links may end, nothing is reported.
LEMMA Touched ==
  ASSUME IInv, Types',
         \A o \in Objs : /\ Kept(obj[o], obj'[o])
                         /\ obj'[o].conn = obj[o].conn
                         /\ obj'[o].st = obj[o].st
                              \/ (obj[o].st \in {"Open", "Start"} /\ obj'[o].st = "End"),
         UNCHANGED <<links, gen, timers, ready, work, resolving, called, evs>>,
         closeq' \subseteq closeq, phase' # "close" => closeq' = {}
  PROVE  IInv'
<1>1. \A o \in Objs : InUse(obj[o], obj'[o])
  BY DEF Kept
<1>2. \A o \in Objs : obj'[o].id = obj[o].id
  BY <1>1 DEF InUse
<1>3. TimersHeld'
  BY TimersKept DEF IInv
<1>4. Refs'
  BY <1>1, <1>3, RefsKept DEF IInv
<1>5. Events'
  BY <1>2, EventsKept DEF IInv
<1>6. Connects'
  BY ConnectsKept DEF IInv
<1>. QED  BY <1>4, <1>5, <1>6 DEF IInv

\* ... with one object touched.
LEMMA OneTouched ==
  ASSUME IInv, NEW o \in Objs, NEW y, Kept(obj[o], y), y.conn = obj[o].conn,
         y.st = obj[o].st \/ (obj[o].st \in {"Open", "Start"} /\ y.st = "End"),
         obj' = [obj EXCEPT ![o] = y],
         UNCHANGED <<rstate, phase, links, gen, timers, ready, work, lsn, resolving, closeq,
                     fault, inits, called, evs>>
  PROVE  IInv'
<1>1. \A q \in Objs : obj'[q] = IF q = o THEN y ELSE obj[q]
  BY DEF IInv, Types
<1>2. \A q \in Objs : Kept(obj[q], obj[q])
  BY DEF Kept, InUse, IInv, Refs
<1>3. y \in LinkRec
  BY DEF Kept, InUse, LinkOK
<1>4. Types'
  BY <1>3 DEF IInv, Types
<1>. QED  BY <1>1, <1>2, <1>4, Touched DEF IInv, Refs

\* ... and with none.
LEMMA NoneTouched ==
  ASSUME IInv, Types',
         UNCHANGED <<obj, links, gen, timers, ready, work, resolving, called, evs>>,
         closeq' \subseteq closeq, phase' # "close" => closeq' = {}
  PROVE  IInv'
<1>1. \A q \in Objs : Kept(obj[q], obj'[q])
  BY DEF Kept, InUse, IInv, Refs
<1>. QED  BY <1>1, Touched

-----------------------------------------------------------------------------
(* The invariant is inductive: the calls.                                  *)

LEMMA InitHolds == ASSUME Init PROVE IInv
<1>1. \A o \in Objs : obj[o] = Pooled
  BY DEF Init
<1>2. \A i \in LinkIDs : evs[i] = <<>>
  BY DEF Init
<1>3. \A c \in Conns : called[c] = -1
  BY DEF Init
<1>4. LinkOK(Pooled)
  BY PooledFields, BoundsAssumption DEF LinkOK
<1>5. Types
  <2>1. evs \in [LinkIDs -> Reports]
    BY DEF Init, Reports
  <2>. QED  BY <1>1, <2>1, PooledFields, BoundsAssumption DEF Init, Types
<1>6. Refs
  BY <1>1, <1>4, PooledFields DEF Init, Refs
<1>7. Events
  BY <1>1, <1>2, PooledFields, BoundsAssumption DEF Init, Events, LinkIDs
<1>8. Connects
  BY <1>1, <1>3, PooledFields DEF Init, Connects
<1>. QED  BY <1>5, <1>6, <1>7, <1>8 DEF IInv

LEMMA PlainSteps ==
  ASSUME IInv,
         \/ InitReacter \/ UpdateBegin
         \/ \E x \in Listeners : ListenTcp(x) \/ StopListenTcp(x) \/ ListenerClosed(x)
  PROVE  IInv'
<1>1. CASE InitReacter
  <2>1. Types'
    BY <1>1, BoundsAssumption DEF InitReacter, IInv, Types
  <2>. QED  BY <1>1, <2>1, NoneTouched DEF InitReacter, IInv, Refs
<1>2. CASE UpdateBegin
  <2>1. Types'
    BY <1>2 DEF UpdateBegin, IInv, Types
  <2>. QED  BY <1>2, <2>1, NoneTouched DEF UpdateBegin, At, IInv, Refs
<1>3. ASSUME NEW x \in Listeners, ListenTcp(x)
      PROVE  IInv'
  <2>1. Types'
    BY <1>3 DEF ListenTcp, IInv, Types
  <2>. QED  BY <1>3, <2>1, NoneTouched DEF ListenTcp, IInv, Refs
<1>4. ASSUME NEW x \in Listeners, StopListenTcp(x)
      PROVE  IInv'
  <2>1. Types'
    BY <1>4 DEF StopListenTcp, StopListenReq, IInv, Types
  <2>. QED  BY <1>4, <2>1, NoneTouched DEF StopListenTcp, StopListenReq, IInv, Refs
<1>5. ASSUME NEW x \in Listeners, ListenerClosed(x)
      PROVE  IInv'
  <2>1. Types'
    BY <1>5 DEF ListenerClosed, IInv, Types
  <2>. QED  BY <1>5, <2>1, NoneTouched DEF ListenerClosed, At, IInv, Refs
<1>. QED  BY <1>1, <1>2, <1>3, <1>4, <1>5

LEMMA ConnectTcpStep ==
  ASSUME IInv, NEW c \in Conns, ConnectTcp(c)
  PROVE  IInv'
<1>1. /\ called[c] = -1
      /\ UNCHANGED <<rstate, phase, obj, links, gen, timers, ready, work, lsn, closeq, fault,
                     inits, evs>>
  BY DEF ConnectTcp
<1>2. PICK k \in {0, 1} : /\ called' = [called EXCEPT ![c] = k]
                          /\ resolving' = IF k = 0 THEN resolving \cup {c} ELSE resolving
  BY DEF ConnectTcp
<1>3. \A d \in Conns : called'[d] = IF d = c THEN k ELSE called[d]
  BY <1>2 DEF IInv, Types
<1>4. Types'
  BY <1>1, <1>2 DEF IInv, Types
<1>5. Connects'
  <2>1. \A o \in Objs : obj[o].conn # c
    BY <1>1, NoConnAssumption DEF IInv, Connects
  <2>2. \A o \in Objs : obj[o].conn # NoConn => obj[o].conn \in Conns
    BY DEF IInv, Types, LinkRec
  <2>. QED  BY <1>1, <1>2, <1>3, <2>1, <2>2 DEF IInv, Connects, Types
<1>6. Refs' /\ Events'
  <2>1. \A q \in Objs : Kept(obj[q], obj'[q])
    BY <1>1 DEF Kept, InUse, IInv, Refs
  <2>2. TimersHeld'
    BY <1>1, <2>1, TimersKept DEF IInv
  <2>3. Refs'
    BY <1>1, <2>1, <2>2, RefsKept DEF IInv, Refs, Kept
  <2>. QED  BY <1>1, <2>3, EventsKept DEF IInv
<1>. QED  BY <1>4, <1>5, <1>6 DEF IInv

\* A link is closed, or is sent to, from outside or in a callback of its own.
LEMMA CloseStep ==
  ASSUME IInv, NEW o \in Objs, obj' = [obj EXCEPT ![o] = LinkClose(@)],
         UNCHANGED <<rstate, phase, links, gen, timers, ready, work, lsn, resolving, closeq,
                     fault, inits, called, evs>>
  PROVE  IInv'
<1>1. LinkOK(obj[o])
  BY DEF IInv, Refs
<1>2. obj' = [obj EXCEPT ![o] = LinkClose(obj[o])]
  OBVIOUS
<1>. QED  BY <1>1, <1>2, ClosedLink, OneTouched

LEMMA PushStep ==
  ASSUME IInv, NEW o \in Objs, obj[o].st \in {"Open", "Start"},
         NEW y \in LinkPush(obj[o]), obj' = [obj EXCEPT ![o] = y],
         UNCHANGED <<rstate, phase, links, gen, timers, ready, work, lsn, resolving, closeq,
                     fault, inits, called, evs>>
  PROVE  IInv'
<1>1. LinkOK(obj[o])
  BY DEF IInv, Refs
<1>. QED  BY <1>1, PushedLink, OneTouched

LEMMA LinkCallSteps ==
  ASSUME IInv,
         \/ \E p \in links : CloseLink(p[1], p[2]) \/ SendMsg(p[1], p[2])
         \/ \E o \in Objs : ReadReply(o) \/ ReadFailed(o)
  PROVE  IInv'
<1>0. \A p \in links : p[2] \in Objs
  BY DEF IInv, Types
<1>1. ASSUME NEW p \in links, CloseLink(p[1], p[2])
      PROVE  IInv'
  BY <1>0, <1>1, CloseStep DEF CloseLink
<1>2. ASSUME NEW p \in links, SendMsg(p[1], p[2])
      PROVE  IInv'
  BY <1>0, <1>2, PushStep DEF SendMsg
<1>3. ASSUME NEW o \in Objs, ReadReply(o)
      PROVE  IInv'
  BY <1>3, PushStep DEF ReadReply
<1>4. ASSUME NEW o \in Objs, ReadFailed(o)
      PROVE  IInv'
  BY <1>4, CloseStep DEF ReadFailed
<1>. QED  BY <1>1, <1>2, <1>3, <1>4

LEMMA ReleaseStep == ASSUME IInv, Release PROVE IInv'
<1>1. \A o \in Objs : obj'[o] = IF \E i \in LinkIDs : <<i, o>> \in links
                                  THEN LinkClose(obj[o]) ELSE obj[o]
  BY DEF Release
<1>2. \A o \in Objs : LinkOK(obj[o])
  BY DEF IInv, Refs
<1>3. \A o \in Objs : /\ Kept(obj[o], obj'[o]) /\ obj'[o].conn = obj[o].conn
                      /\ obj'[o].st = obj[o].st
                           \/ (obj[o].st \in {"Open", "Start"} /\ obj'[o].st = "End")
  <2>1. SUFFICES ASSUME NEW o \in Objs
                 PROVE  /\ Kept(obj[o], obj'[o]) /\ obj'[o].conn = obj[o].conn
                        /\ obj'[o].st = obj[o].st
                             \/ (obj[o].st \in {"Open", "Start"} /\ obj'[o].st = "End")
    OBVIOUS
  <2>2. CASE obj'[o] = LinkClose(obj[o])
    BY <1>2, <2>2, ClosedLink
  <2>3. CASE obj'[o] = obj[o]
    BY <1>2, <2>3 DEF Kept, InUse
  <2>. QED  BY <1>1, <2>2, <2>3
<1>4. Types'
  <2>1. \A o \in Objs : obj'[o] \in LinkRec
    BY <1>3 DEF Kept, InUse, LinkOK
  <2>2. obj' \in [Objs -> LinkRec]
    BY <2>1 DEF Release
  <2>. QED  BY <2>2 DEF Release, StopListenReq, IInv, Types
<1>5. closeq' = closeq /\ phase' = phase
  BY DEF Release
<1>. QED  BY <1>3, <1>4, <1>5, Touched DEF Release, IInv, Refs

\* The loop has nothing alive, so every handle is done.
LEMMA AllDone ==
  ASSUME IInv, ReleaseEnd
  PROVE  \A o \in Objs : ~obj[o].up /\ obj'[o] = Pooled
<1>1. \A o \in Objs : ~obj[o].up /\ LinkOK(obj[o])
  BY DEF ReleaseEnd, LoopAlive, IInv, Refs
<1>2. \A o \in Objs : obj'[o] = IF \E i \in LinkIDs : <<i, o>> \in links
                                  THEN Cleared(obj[o]) ELSE obj[o]
  BY DEF ReleaseEnd, LinksReleased
<1>3. ASSUME NEW o \in Objs, obj[o].id # 0
      PROVE  \E i \in LinkIDs : <<i, o>> \in links
  <2>1. <<obj[o].id, o>> \in links
    BY <1>3 DEF IInv, Refs
  <2>. QED  BY <2>1 DEF IInv, Types
<1>4. \A o \in Objs : obj[o].id = 0 => obj[o] = Pooled
  BY <1>1 DEF LinkOK
<1>. QED  BY <1>1, <1>2, <1>3, <1>4, FreedLink

\* So every link has been reported closed.
LEMMA AllClosed ==
  ASSUME IInv, \A o \in Objs : ~obj[o].up
  PROVE  \A i \in LinkIDs : i <= gen => evs[i] \in EvsOf("Close")
<1>1. SUFFICES ASSUME NEW i \in LinkIDs, i <= gen, NEW o \in Objs, obj[o].id = i
               PROVE  evs[i] \in EvsOf("Close")
  BY DEF IInv, Events
<1>2. obj[o].id # 0
  BY <1>1 DEF LinkIDs
<1>3. obj[o].st = "Close"
  BY <1>2 DEF IInv, Refs, LinkOK
<1>. QED  BY <1>1, <1>2, <1>3 DEF IInv, Events

LEMMA ReleaseEndStep == ASSUME IInv, ReleaseEnd PROVE IInv'
<1>1. \A o \in Objs : ~obj[o].up /\ obj'[o] = Pooled
  BY AllDone
<1>2. \A i \in LinkIDs : i <= gen => evs[i] \in EvsOf("Close")
  BY <1>1, AllClosed
<1>3. LinkOK(Pooled)
  BY PooledFields, BoundsAssumption DEF LinkOK
<1>4. obj' \in [Objs -> LinkRec]
  BY <1>1, PooledFields DEF ReleaseEnd, LinksReleased
<1>5. Types'
  BY <1>4 DEF ReleaseEnd, IInv, Types
<1>6. Refs'
  BY <1>1, <1>3, PooledFields DEF ReleaseEnd, At, IInv, Refs, Types
<1>7. Events'
  BY <1>1, <1>2, PooledFields DEF ReleaseEnd, IInv, Events
<1>8. Connects'
  <2>1. \A o \in Objs : obj[o].conn = NoConn /\ obj'[o].conn = NoConn
    BY <1>1, PooledFields DEF IInv, Refs, LinkOK
  <2>. QED  BY <2>1, ConnectsKept DEF ReleaseEnd, IInv
<1>. QED  BY <1>5, <1>6, <1>7, <1>8 DEF IInv

-----------------------------------------------------------------------------
(* update() and the frames.                                                *)

LEMMA FlushLinkStep == ASSUME IInv, FlushLink PROVE IInv'
<1>1. \A o \in Objs : obj'[o] = LinkFlush(obj[o]) /\ LinkOK(obj[o])
  BY DEF FlushLink, IInv, Refs
<1>2. \A o \in Objs : /\ Kept(obj[o], obj'[o]) /\ obj'[o].conn = obj[o].conn
                      /\ obj'[o].st = obj[o].st
  BY <1>1, FlushedLink
<1>3. Types'
  <2>1. \A o \in Objs : obj'[o] \in LinkRec
    BY <1>2 DEF Kept, InUse, LinkOK
  <2>2. obj' \in [Objs -> LinkRec]
    BY <2>1 DEF FlushLink
  <2>. QED  BY <2>2 DEF FlushLink, IInv, Types
<1>. QED  BY <1>2, <1>3, Touched DEF FlushLink, At, IInv, Refs

LEMMA KeepAliveStep ==
  ASSUME IInv, NEW o \in Objs, NEW id \in LinkIDs, <<o, id>> \in timers, KeepAliveTimeout(o, id)
  PROVE  IInv'
<1>. DEFINE x == [obj[o] EXCEPT !.timer = FALSE]
            y == LinkClose(x)
<1>1. LinkOK(obj[o]) /\ obj[o].timer /\ obj[o].id = id
  BY DEF IInv, Refs
<1>2. /\ x \in LinkRec /\ x.id = obj[o].id /\ x.st = obj[o].st /\ x.data = obj[o].data
      /\ x.up = obj[o].up /\ x.conn = obj[o].conn /\ x.writes = obj[o].writes
      /\ x.closing = obj[o].closing /\ x.timer = FALSE
      /\ x.writable = obj[o].writable /\ x.shut = obj[o].shut
  BY <1>1 DEF LinkOK, LinkRec
<1>3. obj[o].up /\ obj[o].id # 0
  BY <1>1 DEF LinkOK, Pooled
<1>4. LinkOK(x)
  BY <1>1, <1>2, <1>3 DEF LinkOK
<1>5. obj' = [obj EXCEPT ![o] = y]
  BY DEF KeepAliveTimeout
<1>. HIDE DEF x
<1>6. /\ InUse(obj[o], y) /\ y.conn = obj[o].conn
      /\ y.st = obj[o].st \/ (obj[o].st \in {"Open", "Start"} /\ y.st = "End")
  BY <1>2, <1>4, ClosedLink DEF Kept, InUse
<1>. HIDE DEF y
<1>7. \A q \in Objs : obj'[q] = IF q = o THEN y ELSE obj[q]
  BY <1>5 DEF IInv, Types
<1>8. \A q \in Objs : InUse(obj[q], obj'[q])
  BY <1>6, <1>7 DEF InUse, IInv, Refs
<1>9. TimersHeld'
  <2>1. ASSUME NEW t \in timers'
        PROVE  t \in timers /\ t[1] \in Objs /\ t[1] # o
    <3>1. t \in timers /\ t # <<o, id>>
      BY DEF KeepAliveTimeout
    <3>2. t \in Objs \X LinkIDs
      BY <3>1 DEF IInv, Types
    <3>3. t[1] = o => t[2] = id
      BY <1>1, <3>1 DEF IInv, Refs
    <3>. QED  BY <3>1, <3>2, <3>3
  <2>2. \A t \in timers' : obj'[t[1]] = obj[t[1]]
    BY <1>7, <2>1
  <2>3. \A t \in timers' : obj[t[1]].id = t[2] /\ obj[t[1]].timer
    BY <2>1 DEF IInv, Refs
  <2>. QED  BY <2>2, <2>3 DEF TimersHeld
<1>10. Types'
  <2>1. y \in LinkRec
    BY <1>6 DEF InUse, LinkOK
  <2>. QED  BY <1>5, <2>1 DEF KeepAliveTimeout, IInv, Types
<1>11. Refs'
  BY <1>8, <1>9, RefsKept DEF KeepAliveTimeout, At, IInv, Refs
<1>12. Events'
  BY <1>6, <1>7, EventsKept DEF KeepAliveTimeout, InUse, IInv
<1>13. Connects'
  BY <1>6, <1>7, ConnectsKept DEF KeepAliveTimeout, IInv
<1>. QED  BY <1>10, <1>11, <1>12, <1>13 DEF IInv

LEMMA CloseBeginStep == ASSUME IInv, CloseBegin PROVE IInv'
<1>1. Types'
  BY DEF CloseBegin, IInv, Types
<1>2. Refs'
  <2>1. \A o \in Objs : o \in closeq' => obj'[o].closing
    BY KindsAssumption DEF CloseBegin
  <2>. QED  BY <2>1 DEF CloseBegin, IInv, Refs
<1>3. Events' /\ Connects'
  BY EventsKept, ConnectsKept DEF CloseBegin, IInv
<1>. QED  BY <1>1, <1>2, <1>3 DEF IInv

\* What closed a frame ago is freed: its references go with it.
LEMMA FrameEndStep == ASSUME IInv, FrameEnd PROVE IInv'
<1>. DEFINE Done(o) == \E w \in work : w[1] = o
<1>1. \A o \in Objs : obj'[o] = IF Done(o) THEN Pooled ELSE obj[o]
  <2>1. \A o \in Objs : obj'[o] = IF Done(o) THEN Cleared(obj[o]) ELSE obj[o]
    BY DEF FrameEnd
  <2>2. \A o \in Objs : Done(o) => ~obj[o].up /\ LinkOK(obj[o])
    BY DEF IInv, Refs
  <2>. QED  BY <2>1, <2>2, FreedLink
<1>2. \A o \in Objs : Done(o) => obj[o].id # 0 /\ obj[o].st = "Close" /\ ~obj[o].timer
                                 /\ obj[o].conn = NoConn /\ <<o, obj[o].id>> \in work
  <2>1. SUFFICES ASSUME NEW o \in Objs, NEW w \in work, w[1] = o
                 PROVE  obj[o].id # 0 /\ obj[o].st = "Close" /\ ~obj[o].timer
                        /\ obj[o].conn = NoConn /\ <<o, obj[o].id>> \in work
    OBVIOUS
  <2>2. w \in Objs \X LinkIDs /\ obj[o].id = w[2] /\ ~obj[o].up /\ LinkOK(obj[o])
    BY <2>1 DEF IInv, Types, Refs
  <2>3. w[2] # 0 /\ w = <<o, obj[o].id>>
    BY <2>1, <2>2 DEF LinkIDs
  <2>. QED  BY <2>2, <2>3 DEF LinkOK
<1>3. links' = {p \in links : \A w \in work : p[1] # obj[w[1]].id}
  BY DEF FrameEnd
<1>4. \A p \in links' : ~Done(p[2]) /\ p \in links /\ p[2] \in Objs
  <2>1. SUFFICES ASSUME NEW p \in links', NEW w \in work, w[1] = p[2]
                 PROVE  FALSE
    BY <1>3 DEF IInv, Types
  <2>2. obj[p[2]].id = p[1]
    BY <1>3 DEF IInv, Refs
  <2>. QED  BY <1>3, <2>1, <2>2
<1>5. \A o \in Objs : ~Done(o) /\ obj[o].id # 0 => <<obj[o].id, o>> \in links'
  <2>1. SUFFICES ASSUME NEW o \in Objs, ~Done(o), obj[o].id # 0, NEW w \in work,
                        obj[o].id = obj[w[1]].id
                 PROVE  FALSE
    BY <1>3 DEF IInv, Refs
  <2>2. w[1] \in Objs
    BY DEF IInv, Types
  <2>. QED  BY <2>1, <2>2 DEF IInv, Refs
<1>6. work' = ready /\ ready' = {} /\ timers' = timers /\ gen' = gen /\ evs' = evs
      /\ closeq' = {} /\ resolving' = resolving /\ called' = called /\ phase' = "out"
  BY DEF FrameEnd, SwapFrames
<1>7. \A o \in Objs : LinkOK(obj'[o]) /\ obj'[o].id <= gen
  <2>1. LinkOK(Pooled) /\ Pooled.id <= gen
    BY PooledFields, BoundsAssumption DEF LinkOK, IInv, Types
  <2>. QED  BY <1>1, <2>1 DEF IInv, Refs
<1>8. Types'
  <2>1. \A o \in Objs : obj'[o] \in LinkRec
    BY <1>7 DEF LinkOK
  <2>2. obj' \in [Objs -> LinkRec]
    BY <2>1 DEF FrameEnd
  <2>. QED  BY <1>3, <2>2 DEF FrameEnd, SwapFrames, IInv, Types
<1>9. Refs'
  <2>1. \A o1, o2 \in Objs : obj'[o1].id # 0 /\ obj'[o1].id = obj'[o2].id => o1 = o2
    BY <1>1, PooledFields DEF IInv, Refs
  <2>2. \A t \in timers : t[1] \in Objs /\ ~Done(t[1])
    BY <1>2 DEF IInv, Types, Refs
  <2>3. \A t \in timers' : obj'[t[1]].id = t[2] /\ obj'[t[1]].timer
    BY <1>1, <1>6, <2>2 DEF IInv, Refs
  <2>4. \A t \in ready : t[1] \in Objs /\ ~Done(t[1])
    BY DEF IInv, Types, Refs
  <2>5. \A t \in ready' \cup work' : obj'[t[1]].id = t[2] /\ ~obj'[t[1]].up
    BY <1>1, <1>6, <2>4 DEF IInv, Refs
  <2>6. \A p \in links' : obj'[p[2]].id = p[1]
    BY <1>1, <1>4 DEF IInv, Refs
  <2>7. \A o \in Objs : obj'[o].id # 0 => <<obj'[o].id, o>> \in links'
    BY <1>1, <1>5, PooledFields
  <2>. QED  BY <1>6, <1>7, <2>1, <2>3, <2>5, <2>6, <2>7 DEF Refs
<1>10. Events'
  <2>1. \A o \in Objs : obj'[o].id # 0 => evs[obj'[o].id] \in EvsOf(obj'[o].st)
    BY <1>1, PooledFields DEF IInv, Events
  <2>2. ASSUME NEW i \in LinkIDs, i <= gen
        PROVE  (\E o \in Objs : obj'[o].id = i) \/ evs[i] \in EvsOf("Close")
    <3>1. CASE evs[i] \in EvsOf("Close")
      BY <3>1
    <3>2. ASSUME NEW o \in Objs, obj[o].id = i
          PROVE  (\E q \in Objs : obj'[q].id = i) \/ evs[i] \in EvsOf("Close")
      <4>1. CASE Done(o)
        BY <1>2, <3>2, <4>1 DEF IInv, Events
      <4>2. CASE ~Done(o)
        BY <1>1, <3>2, <4>2
      <4>. QED  BY <4>1, <4>2
    <3>. QED  BY <2>2, <3>1, <3>2 DEF IInv, Events
  <2>. QED  BY <1>6, <2>1, <2>2 DEF IInv, Events
<1>11. Connects'
  <2>1. \A o \in Objs : obj'[o].conn = obj[o].conn
    BY <1>1, <1>2, PooledFields
  <2>. QED  BY <1>6, <2>1, ConnectsKept DEF IInv
<1>. QED  BY <1>8, <1>9, <1>10, <1>11 DEF IInv

-----------------------------------------------------------------------------
(* Callbacks of the loop.                                                  *)

LEMMA AppendToOne == ASSUME NEW a, NEW b PROVE Append(<<a>>, b) = <<a, b>>
<1>. DEFINE S == {a, b}
<1>1. <<a>> \in Seq(S) /\ <<a, b>> \in Seq(S) /\ b \in S
  OBVIOUS
<1>2. /\ Append(<<a>>, b) \in Seq(S) /\ Len(Append(<<a>>, b)) = 2
      /\ Append(<<a>>, b)[1] = a /\ Append(<<a>>, b)[2] = b
  BY <1>1, AppendProperties
<1>3. Len(<<a, b>>) = 2 /\ <<a, b>>[1] = a /\ <<a, b>>[2] = b
  OBVIOUS
<1>4. \A i \in 1..2 : Append(<<a>>, b)[i] = <<a, b>>[i]
  BY <1>2, <1>3
<1>. HIDE DEF S
<1>. QED  BY <1>1, <1>2, <1>3, <1>4, SeqEqual

LEMMA AppendToTwo == ASSUME NEW a, NEW b, NEW c PROVE Append(<<a, b>>, c) = <<a, b, c>>
<1>. DEFINE S == {a, b, c}
<1>1. <<a, b>> \in Seq(S) /\ <<a, b, c>> \in Seq(S) /\ c \in S
  OBVIOUS
<1>2. /\ Append(<<a, b>>, c) \in Seq(S) /\ Len(Append(<<a, b>>, c)) = 3
      /\ Append(<<a, b>>, c)[1] = a /\ Append(<<a, b>>, c)[2] = b /\ Append(<<a, b>>, c)[3] = c
  BY <1>1, AppendProperties
<1>3. Len(<<a, b, c>>) = 3 /\ <<a, b, c>>[1] = a /\ <<a, b, c>>[2] = b /\ <<a, b, c>>[3] = c
  OBVIOUS
<1>4. \A i \in 1..3 : Append(<<a, b>>, c)[i] = <<a, b, c>>[i]
  BY <1>2, <1>3
<1>. HIDE DEF S
<1>. QED  BY <1>1, <1>2, <1>3, <1>4, SeqEqual

LEMMA EventSequences ==
  /\ <<>> \o <<"Open">> = <<"Open">>
  /\ <<>> \o <<"Open", "Start">> = <<"Open", "Start">>
  /\ Append(<<"Open">>, "Start") = <<"Open", "Start">>
  /\ Append(<<>>, "Close") = <<"Close">>
  /\ Append(<<"Open">>, "Close") = <<"Open", "Close">>
  /\ Append(<<"Open", "Start">>, "Close") = <<"Open", "Start", "Close">>
BY AppendToOne, AppendToTwo

LEMMA WrittenStep == ASSUME IInv, NEW o \in Objs, Written(o) PROVE IInv'
<1>. DEFINE x == [obj[o] EXCEPT !.writes = @ - 1]
<1>1. LinkOK(obj[o]) /\ obj[o].writes > 0 /\ obj[o].up
  BY DEF IInv, Refs, Written, InUv
<1>2. obj[o].writes \in 0..MaxWrites /\ obj[o].writes - 1 \in 0..MaxWrites
  BY <1>1, BoundsAssumption DEF LinkOK, LinkRec
<1>3. /\ x \in LinkRec /\ x.id = obj[o].id /\ x.st = obj[o].st /\ x.data = obj[o].data
      /\ x.up = obj[o].up /\ x.conn = obj[o].conn /\ x.writes = obj[o].writes - 1
      /\ x.closing = obj[o].closing /\ x.timer = obj[o].timer
  BY <1>1, <1>2 DEF LinkOK, LinkRec
<1>4. obj[o].id # 0 /\ x.st # "Opening"
  BY <1>1, <1>3 DEF LinkOK, Pooled
<1>5. LinkOK(x)
  <2>1. x.writes < obj[o].writes /\ obj[o].writes \in Int /\ x.writes \in Int /\ MaxWrites \in Int
    BY <1>2, <1>3, BoundsAssumption
  <2>. QED  BY <1>1, <1>3, <1>4, <2>1 DEF LinkOK
<1>6. Kept(obj[o], x)
  BY <1>3, <1>5 DEF Kept, InUse
<1>7. PICK ok \in BOOLEAN : obj' = [obj EXCEPT ![o] = IF ok THEN x ELSE LinkClose(x)]
  BY DEF Written
<1>. HIDE DEF x
<1>. DEFINE y == IF ok THEN x ELSE LinkClose(x)
<1>8. /\ Kept(obj[o], y) /\ y.conn = obj[o].conn
      /\ y.st = obj[o].st \/ (obj[o].st \in {"Open", "Start"} /\ y.st = "End")
  BY <1>3, <1>5, <1>6, ClosedLink DEF Kept, InUse
<1>9. obj' = [obj EXCEPT ![o] = y]
  BY <1>7
<1>. HIDE DEF y
<1>. QED  BY <1>8, <1>9, OneTouched DEF Written

LEMMA ShutdownDoneStep == ASSUME IInv, NEW o \in Objs, ShutdownDone(o) PROVE IInv'
<1>. DEFINE y == [obj[o] EXCEPT !.shut = "no", !.closing = TRUE]
<1>1. LinkOK(obj[o]) /\ obj[o].up
  BY DEF IInv, Refs, ShutdownDone, InUv
<1>2. obj' = [obj EXCEPT ![o] = y]
  BY <1>1 DEF ShutdownDone, IInv, Types
<1>3. /\ y \in LinkRec /\ y.id = obj[o].id /\ y.st = obj[o].st /\ y.data = obj[o].data
      /\ y.up = obj[o].up /\ y.conn = obj[o].conn /\ y.writes = obj[o].writes
      /\ y.closing /\ y.timer = obj[o].timer
  BY <1>1 DEF LinkOK, LinkRec
<1>. HIDE DEF y
<1>4. obj[o].id # 0
  BY <1>1 DEF LinkOK, Pooled
<1>5. Kept(obj[o], y)
  BY <1>1, <1>3, <1>4 DEF Kept, InUse, LinkOK
<1>. QED  BY <1>2, <1>3, <1>5, OneTouched DEF ShutdownDone

LEMMA ReadStartStep == ASSUME IInv, NEW o \in Objs, ReadStart(o) PROVE IInv'
<1>. DEFINE y == [obj[o] EXCEPT !.st = "Start"]
<1>1. LinkOK(obj[o]) /\ obj[o].up /\ obj[o].st = "Open"
  BY DEF IInv, Refs, ReadStart, InUv, MayStart
<1>2. obj' = [obj EXCEPT ![o] = y]
  BY <1>1 DEF ReadStart, IInv, Types
<1>3. /\ y \in LinkRec /\ y.id = obj[o].id /\ y.st = "Start" /\ y.data = obj[o].data
      /\ y.up = obj[o].up /\ y.conn = obj[o].conn /\ y.writes = obj[o].writes
      /\ y.closing = obj[o].closing /\ y.timer = obj[o].timer
      /\ y.shut = obj[o].shut /\ y.writable = obj[o].writable
  BY <1>1 DEF LinkOK, LinkRec
<1>. HIDE DEF y
<1>4. obj[o].id # 0 /\ obj[o].id \in LinkIDs
  BY <1>1 DEF LinkOK, LinkRec, LinkIDs, Pooled
<1>5. Kept(obj[o], y)
  BY <1>1, <1>3, <1>4 DEF Kept, InUse, LinkOK
<1>6. \A q \in Objs : obj'[q] = IF q = o THEN y ELSE obj[q]
  BY <1>2 DEF IInv, Types
<1>7. \A q \in Objs : Kept(obj[q], obj'[q])
  BY <1>5, <1>6 DEF Kept, InUse, IInv, Refs
<1>8. /\ UNCHANGED <<rstate, phase, links, gen, timers, ready, work, lsn, resolving, closeq,
                     fault, inits, called>>
      /\ evs' = [evs EXCEPT ![obj[o].id] = Append(evs[obj[o].id], "Start")]
  BY <1>4 DEF ReadStart, IInv, Types
<1>10. Refs'
  <2>1. TimersHeld'
    BY <1>7, <1>8, TimersKept DEF IInv
  <2>. QED  BY <1>7, <1>8, <2>1, RefsKept DEF Kept, IInv, Refs
<1>11. Append(evs[obj[o].id], "Start") \in EvsOf(y.st)
  <2>1. evs[obj[o].id] \in EvsOf("Open")
    BY <1>1, <1>4 DEF IInv, Events
  <2>. QED  BY <1>3, <2>1, EventSequences DEF EvsOf
<1>12. Events'
  BY <1>2, <1>3, <1>4, <1>8, <1>11, EventsReported DEF IInv
<1>9. Types'
  <2>1. evs' \in [LinkIDs -> Reports]
    BY <1>4, <1>8, <1>11, EventsTyped DEF IInv
  <2>. QED  BY <1>2, <1>3, <1>8, <2>1 DEF IInv, Types
<1>13. Connects'
  BY <1>1, <1>3, <1>6, <1>8, ConnectsKept DEF IInv
<1>. QED  BY <1>9, <1>10, <1>12, <1>13 DEF IInv

\* The callback of a connect that only object o still had.
LEMMA ConnectsAnswered ==
  ASSUME Types, Connects, NEW o \in Objs, obj[o].conn # NoConn, Callback(obj[o].conn),
         resolving' = resolving, obj'[o].conn = NoConn,
         \A q \in Objs : q # o => obj'[q].conn = obj[q].conn
  PROVE  Connects' /\ called' \in [Conns -> -1..2]
<1>. DEFINE c == obj[o].conn
<1>1. c \in Conns /\ called[c] = 0 /\ c \notin resolving
  BY DEF Types, Connects, LinkRec
<1>2. \A d \in Conns : called'[d] = IF d = c THEN 1 ELSE called[d]
  BY <1>1 DEF Callback, Types
<1>3. called' \in [Conns -> -1..2]
  BY <1>1 DEF Callback, Types
<1>4. \A q \in Objs : obj'[q].conn # NoConn => q # o /\ obj'[q].conn = obj[q].conn /\ obj[q].conn # c
                                               /\ obj[q].conn \in Conns
  BY DEF Connects, Types, LinkRec
<1>5. \A d \in Conns : d # c /\ (\E q \in Objs : obj[q].conn = d) => \E q \in Objs : obj'[q].conn = d
  OBVIOUS
<1>. QED  BY <1>1, <1>2, <1>3, <1>4, <1>5 DEF Connects, Types

LEMMA ConnectFailedStep == ASSUME IInv, NEW o \in Objs, ConnectFailed(o) PROVE IInv'
<1>. DEFINE x == [obj[o] EXCEPT !.conn = NoConn]
            y == LinkClose(x)
<1>1. LinkOK(obj[o]) /\ obj[o].up /\ obj[o].conn # NoConn
  BY DEF IInv, Refs, ConnectFailed, InUv
<1>2. /\ x \in LinkRec /\ x.id = obj[o].id /\ x.st = obj[o].st /\ x.data = obj[o].data
      /\ x.up = obj[o].up /\ x.conn = NoConn /\ x.writes = obj[o].writes
      /\ x.closing = obj[o].closing /\ x.timer = obj[o].timer
  BY <1>1 DEF LinkOK, LinkRec
<1>3. obj[o].id # 0
  BY <1>1 DEF LinkOK, Pooled
<1>4. Kept(obj[o], x)
  BY <1>1, <1>2, <1>3 DEF Kept, InUse, LinkOK
<1>5. obj' = [obj EXCEPT ![o] = y]
  BY DEF ConnectFailed
<1>. HIDE DEF x
<1>6. /\ Kept(obj[o], y) /\ y.conn = NoConn
      /\ y.st = obj[o].st \/ (obj[o].st \in {"Open", "Start"} /\ y.st = "End")
  BY <1>2, <1>4, ClosedLink DEF Kept, InUse
<1>. HIDE DEF y
<1>7. \A q \in Objs : obj'[q] = IF q = o THEN y ELSE obj[q]
  BY <1>5 DEF IInv, Types
<1>8. \A q \in Objs : Kept(obj[q], obj'[q])
  BY <1>6, <1>7 DEF Kept, InUse, IInv, Refs
<1>9. Callback(obj[o].conn)
      /\ UNCHANGED <<rstate, phase, links, gen, timers, ready, work, lsn, resolving, closeq,
                     fault, inits, evs>>
  BY DEF ConnectFailed
<1>10. Connects' /\ called' \in [Conns -> -1..2]
  BY <1>1, <1>6, <1>7, <1>9, ConnectsAnswered DEF IInv
<1>11. Types'
  <2>1. y \in LinkRec
    BY <1>6 DEF Kept, InUse, LinkOK
  <2>. QED  BY <1>5, <1>9, <1>10, <2>1 DEF IInv, Types
<1>12. Refs'
  <2>1. TimersHeld'
    BY <1>8, <1>9, TimersKept DEF IInv
  <2>. QED  BY <1>8, <1>9, <2>1, RefsKept DEF Kept, IInv, Refs
<1>13. Events'
  BY <1>6, <1>7, <1>9, EventsKept DEF Kept, InUse, IInv
<1>. QED  BY <1>10, <1>11, <1>12, <1>13 DEF IInv

LEMMA ConnectedStep == ASSUME IInv, NEW o \in Objs, Connected(o) PROVE IInv'
<1>. DEFINE x == [obj[o] EXCEPT !.conn = NoConn]
<1>1. LinkOK(obj[o]) /\ obj[o].up /\ obj[o].conn # NoConn /\ obj[o].st = "Opening"
  BY DEF IInv, Refs, Connected, InUv, LinkOK
<1>2. /\ x \in LinkRec /\ x.id = obj[o].id /\ x.st = obj[o].st /\ x.data = obj[o].data
      /\ x.up = obj[o].up /\ x.conn = NoConn /\ x.writes = obj[o].writes
      /\ x.closing = obj[o].closing /\ x.timer = obj[o].timer
  BY <1>1 DEF LinkOK, LinkRec
<1>3. obj[o].id # 0 /\ obj[o].id \in LinkIDs
  BY <1>1 DEF LinkOK, LinkRec, LinkIDs, Pooled
<1>4. Kept(obj[o], x)
  BY <1>1, <1>2, <1>3 DEF Kept, InUse, LinkOK
<1>5. PICK r \in LinkOnOpen(x) : /\ obj' = [obj EXCEPT ![o] = r.x]
                                 /\ evs' = [evs EXCEPT ![obj[o].id] = evs[obj[o].id] \o r.ev]
  BY DEF Connected
<1>. HIDE DEF x
<1>6. /\ Kept(x, r.x) /\ r.x.conn = NoConn /\ r.x.timer
      /\ r.ev \in EvsOf(r.x.st)
      /\ r.ev \in {<<"Open">>, <<"Open", "Start">>}
  BY <1>1, <1>2, <1>4, OpenedLink DEF Kept, InUse
<1>7. Kept(obj[o], r.x) /\ r.x.id = obj[o].id
  BY <1>4, <1>6 DEF Kept, InUse
<1>8. \A q \in Objs : obj'[q] = IF q = o THEN r.x ELSE obj[q]
  BY <1>5 DEF IInv, Types
<1>9. \A q \in Objs : Kept(obj[q], obj'[q])
  BY <1>7, <1>8 DEF Kept, InUse, IInv, Refs
<1>10. /\ Callback(obj[o].conn) /\ timers' = timers \cup {<<o, obj[o].id>>}
       /\ UNCHANGED <<rstate, phase, links, gen, ready, work, lsn, resolving, closeq, fault,
                      inits>>
  BY <1>7, <1>8 DEF Connected, AddTimer
<1>11. Connects' /\ called' \in [Conns -> -1..2]
  BY <1>1, <1>6, <1>8, <1>10, ConnectsAnswered DEF IInv
<1>12. Types'
  <2>1. r.x \in LinkRec
    BY <1>7 DEF Kept, InUse, LinkOK
  <2>2. evs' \in [LinkIDs -> Reports]
    <3>1. evs[obj[o].id] = <<>>
      BY <1>1, <1>3 DEF IInv, Events, EvsOf
    <3>2. evs[obj[o].id] \o r.ev = r.ev
      BY <1>6, <3>1, EventSequences
    <3>. QED  BY <1>3, <1>5, <1>6, <3>2, EventsTyped DEF IInv
  <2>3. obj' \in [Objs -> LinkRec]
    BY <1>5, <2>1 DEF IInv, Types
  <2>. QED  BY <1>3, <1>10, <1>11, <2>2, <2>3 DEF IInv, Types
<1>13. Refs'
  <2>1. \A t \in timers : t[1] \in Objs /\ obj[t[1]].id = t[2] /\ obj[t[1]].timer
    BY DEF IInv, Types, Refs
  <2>2. \A t \in timers : obj'[t[1]].id = t[2] /\ obj'[t[1]].timer
    BY <1>9, <2>1 DEF Kept, InUse
  <2>3. TimersHeld'
    BY <1>6, <1>7, <1>8, <1>10, <2>2 DEF TimersHeld
  <2>. QED  BY <1>9, <1>10, <2>3, RefsKept DEF Kept, IInv, Refs
<1>14. Events'
  <2>1. evs[obj[o].id] = <<>>
    BY <1>1, <1>3 DEF IInv, Events, EvsOf
  <2>2. evs[obj[o].id] \o r.ev = r.ev
    BY <1>6, <2>1, EventSequences
  <2>. QED  BY <1>3, <1>5, <1>6, <1>7, <1>10, <2>2, EventsReported DEF IInv
<1>. QED  BY <1>11, <1>12, <1>13, <1>14 DEF IInv

LEMMA ResolveFailedStep == ASSUME IInv, NEW c \in Conns, ResolveFailed(c) PROVE IInv'
<1>1. /\ c \in resolving /\ resolving' = resolving \ {c} /\ called[c] = 0
      /\ UNCHANGED <<rstate, phase, obj, links, gen, timers, ready, work, lsn, closeq, fault,
                     inits, evs>>
  BY DEF ResolveFailed, IInv, Connects
<1>2. /\ called' \in [Conns -> -1..2]
      /\ \A d \in Conns : called'[d] = IF d = c THEN 1 ELSE called[d]
  BY <1>1 DEF ResolveFailed, Callback, IInv, Types
<1>3. Types'
  BY <1>1, <1>2 DEF IInv, Types
<1>4. Connects'
  <2>1. \A o \in Objs : obj[o].conn # NoConn => obj[o].conn # c /\ obj[o].conn \in Conns
    BY <1>1 DEF IInv, Connects, Types, LinkRec
  <2>. QED  BY <1>1, <1>2, <2>1 DEF IInv, Connects, Types
<1>5. \A q \in Objs : Kept(obj[q], obj'[q])
  BY <1>1 DEF Kept, InUse, IInv, Refs
<1>6. TimersHeld'
  BY <1>1, <1>5, TimersKept DEF IInv
<1>7. Refs'
  BY <1>1, <1>5, <1>6, RefsKept DEF IInv, Refs, Kept
<1>8. Events'
  BY <1>1, EventsKept DEF IInv
<1>. QED  BY <1>3, <1>4, <1>7, <1>8 DEF IInv

-----------------------------------------------------------------------------
(* New links.                                                              *)

\* A pooled object is taken: nothing refers to it yet.
LEMMA RefsAdded ==
  ASSUME Types, Refs, At("uv"), NEW o \in Objs, AddLink(o), NEW y, LinkOK(y), y.id = gen + 1,
         obj' = [obj EXCEPT ![o] = y], UNCHANGED <<phase, ready, work, closeq>>,
         timers' = timers \/ (timers' = timers \cup {<<o, gen + 1>>} /\ y.timer)
  PROVE  Refs'
<1>1. /\ obj[o].id = 0 /\ ~obj[o].up /\ ~obj[o].closing
      /\ gen \in Nat /\ gen' = gen + 1 /\ links' = links \cup {<<gen + 1, o>>}
  BY BoundsAssumption DEF AddLink, Refs, LinkOK, Pooled, Types
<1>2. \A q \in Objs : obj'[q] = IF q = o THEN y ELSE obj[q]
  BY DEF Types
<1>3. \A q \in Objs : obj[q].id \in 0..MaxLinks /\ obj[q].id <= gen /\ obj[q].id # gen + 1
  BY <1>1, BoundsAssumption DEF Refs, Types, LinkRec
<1>4. \A q \in Objs : LinkOK(obj'[q]) /\ obj'[q].id <= gen'
  BY <1>1, <1>2, <1>3 DEF Refs
<1>5. \A o1, o2 \in Objs : obj'[o1].id # 0 /\ obj'[o1].id = obj'[o2].id => o1 = o2
  BY <1>2, <1>3 DEF Refs
<1>6. \A t \in timers \cup ready \cup work : t[1] \in Objs /\ t[1] # o
  <2>1. \A t \in timers \cup ready \cup work : t \in Objs \X LinkIDs /\ obj[t[1]].id = t[2]
    BY DEF Types, Refs
  <2>2. \A t \in Objs \X LinkIDs : t[1] \in Objs /\ t[2] # 0
    BY DEF LinkIDs
  <2>. QED  BY <1>1, <2>1, <2>2
<1>7. TimersHeld'
  <2>1. \A t \in timers : obj'[t[1]].id = t[2] /\ obj'[t[1]].timer
    BY <1>2, <1>6 DEF Refs
  <2>. QED  BY <1>2, <2>1 DEF TimersHeld
<1>8. \A t \in ready' \cup work' : obj'[t[1]].id = t[2] /\ ~obj'[t[1]].up
  BY <1>2, <1>6 DEF Refs
<1>9. \A p \in links' : obj'[p[2]].id = p[1]
  <2>1. \A p \in links : p \in LinkIDs \X Objs /\ obj[p[2]].id = p[1] /\ p[1] # 0 /\ p[2] \in Objs
    BY DEF Types, Refs, LinkIDs
  <2>2. \A p \in links : obj'[p[2]].id = p[1]
    BY <1>1, <1>2, <2>1
  <2>. QED  BY <1>1, <1>2, <2>2
<1>10. \A q \in Objs : obj'[q].id # 0 => <<obj'[q].id, q>> \in links'
  BY <1>1, <1>2 DEF Refs
<1>11. closeq' = {} /\ \A r \in ready', w \in work' : r[1] # w[1]
  BY DEF Refs, At
<1>. QED  BY <1>4, <1>5, <1>7, <1>8, <1>9, <1>10, <1>11 DEF Refs, TimersHeld

LEMMA EventsAdded ==
  ASSUME Types, Refs, Events, NEW o \in Objs, AddLink(o), NEW y, y.id = gen + 1,
         obj' = [obj EXCEPT ![o] = y], NEW s \in EvsOf(y.st),
         evs' = [evs EXCEPT ![gen + 1] = s]
  PROVE  Events'
<1>1. /\ obj[o].id = 0 /\ gen \in Nat /\ gen' = gen + 1 /\ gen + 1 \in LinkIDs
  BY BoundsAssumption DEF AddLink, Types, LinkIDs
<1>2. \A q \in Objs : obj'[q] = IF q = o THEN y ELSE obj[q]
  BY DEF Types
<1>3. \A i \in LinkIDs : evs'[i] = IF i = gen + 1 THEN s ELSE evs[i]
  BY DEF Types
<1>4. \A q \in Objs : /\ obj[q].id # gen + 1
                      /\ obj[q].id # 0 => obj[q].id \in LinkIDs
  BY <1>1, BoundsAssumption DEF Refs, Types, LinkRec, LinkIDs
<1>5. \A q \in Objs : obj'[q].id # 0 => evs'[obj'[q].id] \in EvsOf(obj'[q].st)
  BY <1>1, <1>2, <1>3, <1>4 DEF Events
<1>6. \A i \in LinkIDs : i > gen' => evs'[i] = <<>>
  BY <1>1, <1>3 DEF Events, LinkIDs
<1>7. ASSUME NEW i \in LinkIDs, i <= gen'
      PROVE  (\E q \in Objs : obj'[q].id = i) \/ evs'[i] \in EvsOf("Close")
  <2>1. CASE i = gen + 1
    BY <1>2, <2>1
  <2>2. CASE i # gen + 1
    <3>1. i <= gen
      BY <1>1, <1>7, <2>2 DEF LinkIDs
    <3>2. \A q \in Objs : obj[q].id = i => q # o
      BY <1>1 DEF LinkIDs
    <3>. QED  BY <1>2, <1>3, <2>2, <3>1, <3>2 DEF Events
  <2>. QED  BY <2>1, <2>2
<1>. QED  BY <1>5, <1>6, <1>7 DEF Events

LEMMA TypesAdded ==
  ASSUME Types, NEW o \in Objs, AddLink(o), NEW y, LinkOK(y), obj' = [obj EXCEPT ![o] = y],
         UNCHANGED <<rstate, phase, ready, work, lsn, closeq, fault, inits>>,
         timers' \subseteq timers \cup {<<o, gen + 1>>}, evs' \in [LinkIDs -> Reports],
         resolving' \subseteq resolving, called' \in [Conns -> -1..2]
  PROVE  Types'
<1>1. y \in LinkRec
  BY DEF LinkOK
<1>2. gen + 1 \in LinkIDs /\ gen' \in 0..MaxLinks
  BY BoundsAssumption DEF AddLink, Types, LinkIDs
<1>. QED  BY <1>1, <1>2 DEF AddLink, Types

LEMMA ResolvedStep == ASSUME IInv, NEW c \in Conns, NEW o \in Objs, Resolved(c, o) PROVE IInv'
<1>. DEFINE y == [NewLink(gen + 1) EXCEPT !.writable = TRUE, !.conn = c]
<1>1. /\ At("uv") /\ AddLink(o) /\ c \in resolving /\ resolving' = resolving \ {c}
      /\ obj' = [obj EXCEPT ![o] = y]
      /\ UNCHANGED <<rstate, phase, timers, ready, work, lsn, closeq, fault, inits, called, evs>>
  BY DEF Resolved
<1>2. gen \in Nat /\ gen < MaxLinks /\ gen + 1 \in LinkIDs
  BY <1>1, BoundsAssumption DEF AddLink, IInv, Types, LinkIDs
<1>3. LinkOK(y) /\ y.id = gen + 1 /\ y.st = "Opening" /\ y.conn = c
  BY <1>2, MadeLink
<1>. HIDE DEF y
<1>4. \A q \in Objs : obj'[q] = IF q = o THEN y ELSE obj[q]
  BY <1>1 DEF IInv, Types
<1>5. Types'
  BY <1>1, <1>3, TypesAdded DEF IInv, Types
<1>6. Refs'
  BY <1>1, <1>3, RefsAdded DEF IInv
<1>7. Events'
  <2>1. evs[gen + 1] = <<>>
    BY <1>2 DEF IInv, Events
  <2>2. evs' = [evs EXCEPT ![gen + 1] = <<>>]
    BY <1>1, <1>2, <2>1 DEF IInv, Types
  <2>3. <<>> \in EvsOf(y.st)
    BY <1>3 DEF EvsOf
  <2>. QED  BY <1>1, <1>3, <2>2, <2>3, EventsAdded DEF IInv
<1>8. Connects'
  <2>1. called[c] = 0 /\ \A q \in Objs : obj[q].conn # c
    BY <1>1, NoConnAssumption DEF IInv, Connects
  <2>2. obj[o].conn = NoConn
    BY <1>1 DEF AddLink, IInv, Refs, LinkOK, Pooled
  <2>. QED  BY <1>1, <1>3, <1>4, <2>1, <2>2, NoConnAssumption DEF IInv, Connects
<1>. QED  BY <1>5, <1>6, <1>7, <1>8 DEF IInv

LEMMA ConnectRefusedStep ==
  ASSUME IInv, NEW c \in Conns, NEW o \in Objs, ConnectRefused(c, o)
  PROVE  IInv'
<1>1. /\ At("uv") /\ AddLink(o) /\ c \in resolving /\ resolving' = resolving \ {c}
      /\ Callback(c)
      /\ UNCHANGED <<rstate, phase, timers, ready, work, lsn, closeq, fault, inits, evs>>
  BY DEF ConnectRefused
<1>2. PICK socket \in BOOLEAN :
        obj' = [obj EXCEPT ![o] = LinkClose([NewLink(gen + 1) EXCEPT !.writable = socket])]
  BY DEF ConnectRefused
<1>. DEFINE x == [NewLink(gen + 1) EXCEPT !.writable = socket]
            z == [NewLink(gen + 1) EXCEPT !.writable = socket, !.conn = NoConn]
            y == LinkClose(x)
<1>3. gen \in Nat /\ gen < MaxLinks /\ gen + 1 \in LinkIDs
  BY <1>1, BoundsAssumption DEF AddLink, IInv, Types, LinkIDs
<1>4. x = z
  BY PooledFields DEF NewLink, Pooled
<1>5. LinkOK(x) /\ x.id = gen + 1 /\ x.st = "Opening" /\ x.conn = NoConn
  <2>1. LinkOK(z) /\ z.id = gen + 1 /\ z.st = "Opening" /\ z.conn = NoConn
    BY <1>3, MadeLink
  <2>. QED  BY <1>4, <2>1
<1>6. obj' = [obj EXCEPT ![o] = y]
  BY <1>2
<1>. HIDE DEF x, z
<1>7. LinkOK(y) /\ y.id = gen + 1 /\ y.st = "Opening" /\ y.conn = NoConn
  BY <1>5, ClosedLink DEF Kept, InUse
<1>. HIDE DEF y
<1>8. \A q \in Objs : obj'[q] = IF q = o THEN y ELSE obj[q]
  BY <1>6 DEF IInv, Types
<1>9. called[c] = 0 /\ called' \in [Conns -> -1..2]
      /\ \A d \in Conns : called'[d] = IF d = c THEN 1 ELSE called[d]
  BY <1>1 DEF Callback, IInv, Types, Connects
<1>10. Types'
  BY <1>1, <1>6, <1>7, <1>9, TypesAdded DEF IInv, Types
<1>11. Refs'
  BY <1>1, <1>6, <1>7, RefsAdded DEF IInv
<1>12. Events'
  <2>1. evs[gen + 1] = <<>>
    BY <1>3 DEF IInv, Events
  <2>2. evs' = [evs EXCEPT ![gen + 1] = <<>>]
    BY <1>1, <1>3, <2>1 DEF IInv, Types
  <2>3. <<>> \in EvsOf(y.st)
    BY <1>7 DEF EvsOf
  <2>. QED  BY <1>1, <1>6, <1>7, <2>2, <2>3, EventsAdded DEF IInv
<1>13. Connects'
  <2>1. obj[o].conn = NoConn
    BY <1>1 DEF AddLink, IInv, Refs, LinkOK, Pooled
  <2>2. \A q \in Objs : obj[q].conn # NoConn => obj[q].conn # c /\ obj[q].conn \in Conns
    BY <1>1 DEF IInv, Connects, Types, LinkRec
  <2>. QED  BY <1>1, <1>7, <1>8, <1>9, <2>1, <2>2 DEF IInv, Connects, Types
<1>. QED  BY <1>10, <1>11, <1>12, <1>13 DEF IInv

\* A link is accepted: object o holds y, of which s is reported.
LEMMA Accepted ==
  ASSUME IInv, NEW o \in Objs, At("uv"), AddLink(o), NEW y, LinkOK(y), y.id = gen + 1,
         y.conn = NoConn, obj' = [obj EXCEPT ![o] = y], NEW s \in EvsOf(y.st),
         evs' = [evs EXCEPT ![gen + 1] = s],
         timers' = timers \/ (timers' = timers \cup {<<o, gen + 1>>} /\ y.timer),
         UNCHANGED <<rstate, phase, ready, work, lsn, resolving, closeq, fault, inits, called>>
  PROVE  IInv'
<1>1. Types'
  <2>1. gen + 1 \in LinkIDs
    BY BoundsAssumption DEF AddLink, IInv, Types, LinkIDs
  <2>2. evs' \in [LinkIDs -> Reports]
    BY <2>1, EventsTyped DEF IInv
  <2>. QED  BY <2>2, TypesAdded DEF IInv, Types
<1>2. Refs'
  BY RefsAdded DEF IInv
<1>3. Events'
  BY EventsAdded DEF IInv
<1>4. Connects'
  <2>1. obj[o].conn = NoConn
    BY DEF AddLink, IInv, Refs, LinkOK, Pooled
  <2>2. \A q \in Objs : obj'[q].conn = obj[q].conn
    BY <2>1 DEF IInv, Types
  <2>. QED  BY <2>2, ConnectsKept DEF IInv
<1>. QED  BY <1>1, <1>2, <1>3, <1>4 DEF IInv

LEMMA AcceptStep ==
  ASSUME IInv, NEW l \in Listeners, NEW o \in Objs, Accept(l, o)
  PROVE  IInv'
<1>. DEFINE new == NewLink(gen + 1)
            Made(b) == [new EXCEPT !.writable = b]
<1>1. /\ At("uv") /\ AddLink(o)
      /\ UNCHANGED <<rstate, phase, ready, work, lsn, resolving, closeq, fault, inits, called>>
  BY DEF Accept
<1>2. gen \in Nat /\ gen < MaxLinks /\ gen + 1 \in LinkIDs
  BY <1>1, BoundsAssumption DEF AddLink, IInv, Types, LinkIDs
<1>3. ASSUME NEW b \in BOOLEAN
      PROVE  /\ LinkOK(Made(b)) /\ Made(b).id = gen + 1 /\ Made(b).st = "Opening"
             /\ Made(b).up /\ Made(b).conn = NoConn
  <2>. DEFINE z == [NewLink(gen + 1) EXCEPT !.writable = b, !.conn = NoConn]
  <2>1. Made(b) = z
    BY PooledFields DEF NewLink, Pooled
  <2>2. LinkOK(z) /\ z.id = gen + 1 /\ z.st = "Opening" /\ z.up /\ z.conn = NoConn
    BY <1>2, MadeLink
  <2>. QED  BY <2>1, <2>2
<1>4. evs[gen + 1] = <<>>
  BY <1>2 DEF IInv, Events
<1>5. CASE /\ \E r \in LinkOnOpen([new EXCEPT !.writable = TRUE]) :
                /\ obj' = [obj EXCEPT ![o] = r.x]
                /\ evs' = [evs EXCEPT ![gen + 1] = @ \o r.ev]
           /\ AddTimer(o)
  <2>1. PICK r \in LinkOnOpen(Made(TRUE)) :
               /\ obj' = [obj EXCEPT ![o] = r.x]
               /\ evs' = [evs EXCEPT ![gen + 1] = evs[gen + 1] \o r.ev]
    BY <1>5
  <2>. HIDE DEF Made
  <2>2. /\ Kept(Made(TRUE), r.x) /\ r.x.conn = NoConn /\ r.x.timer
        /\ r.ev \in EvsOf(r.x.st)
        /\ r.ev \in {<<"Open">>, <<"Open", "Start">>}
    BY <1>3, OpenedLink
  <2>3. LinkOK(r.x) /\ r.x.id = gen + 1
    BY <1>3, <2>2 DEF Kept, InUse
  <2>4. evs' = [evs EXCEPT ![gen + 1] = r.ev]
    BY <1>4, <2>1, <2>2, EventSequences
  <2>5. timers' = timers \cup {<<o, gen + 1>>}
    BY <1>5, <2>1, <2>3 DEF AddTimer, IInv, Types
  <2>. QED  BY <1>1, <2>1, <2>2, <2>3, <2>4, <2>5, Accepted
<1>6. CASE /\ \E accepted \in BOOLEAN :
                obj' = [obj EXCEPT ![o] = LinkClose([new EXCEPT !.writable = accepted])]
           /\ UNCHANGED <<timers, evs>>
  <2>1. PICK accepted \in BOOLEAN : obj' = [obj EXCEPT ![o] = LinkClose(Made(accepted))]
    BY <1>6
  <2>. HIDE DEF Made
  <2>. DEFINE y == LinkClose(Made(accepted))
  <2>2. LinkOK(y) /\ y.id = gen + 1 /\ y.conn = NoConn /\ y.st = "Opening"
    BY <1>3, ClosedLink DEF Kept, InUse
  <2>3. evs' = [evs EXCEPT ![gen + 1] = <<>>]
    BY <1>2, <1>4, <1>6 DEF IInv, Types
  <2>. HIDE DEF y
  <2>4. <<>> \in EvsOf(y.st)
    BY <2>2 DEF EvsOf
  <2>5. obj' = [obj EXCEPT ![o] = y]
    BY <2>1 DEF y
  <2>. QED  BY <1>1, <1>6, <2>2, <2>3, <2>4, <2>5, Accepted
<1>. QED  BY <1>5, <1>6 DEF Accept

-----------------------------------------------------------------------------
(* A handle is closed: the one step that takes references away and adds    *)
(* one.                                                                    *)

LEMMA HandleClosedStep == ASSUME IInv, NEW o \in Objs, HandleClosed(o) PROVE IInv'
<1>. DEFINE x == obj[o]
            y == Closed(obj[o])
<1>1. /\ At("close") /\ o \in closeq /\ closeq' = closeq \ {o}
      /\ UNCHANGED <<rstate, phase, links, gen, lsn, work, resolving, inits>>
  BY DEF HandleClosed
<1>2. LinkOK(x) /\ x.closing /\ x.up /\ x.id # 0 /\ x.id \in LinkIDs /\ x.st # "Close"
  BY <1>1 DEF IInv, Refs, LinkOK, LinkRec, LinkIDs, Pooled
<1>3. CASE x.shut # "no"
  <2>1. UNCHANGED <<obj, timers, ready, called, evs>> /\ fault' = "link"
    BY <1>3 DEF HandleClosed
  <2>2. Types'
    BY <1>1, <2>1 DEF IInv, Types
  <2>. QED  BY <1>1, <2>1, <2>2, NoneTouched DEF At
<1>4. CASE x.shut = "no"
  <2>1. /\ evs' = [evs EXCEPT ![x.id] = Append(evs[x.id], "Close")]
        /\ timers' = RemoveTimer(o) /\ obj' = [obj EXCEPT ![o] = y]
        /\ ready' = ready \cup {<<o, x.id>>}
        /\ IF x.conn # NoConn THEN Callback(x.conn) ELSE UNCHANGED called
        /\ fault' = fault
    BY <1>2, <1>4 DEF HandleClosed, IInv, Types
  <2>2. /\ LinkOK(y) /\ y.id = x.id /\ ~y.up /\ ~y.timer /\ y.conn = NoConn /\ y.st = "Close"
        /\ ~y.closing
    BY <1>2, DoneLink
  <2>. HIDE DEF y
  <2>3. \A q \in Objs : obj'[q] = IF q = o THEN y ELSE obj[q]
    BY <2>1 DEF IInv, Types
  <2>4. Connects' /\ called' \in [Conns -> -1..2]
    <3>1. CASE x.conn # NoConn
      BY <1>1, <2>1, <2>2, <2>3, <3>1, ConnectsAnswered DEF IInv
    <3>2. CASE x.conn = NoConn
      BY <1>1, <2>1, <2>2, <2>3, <3>2, ConnectsKept DEF IInv, Types
    <3>. QED  BY <3>1, <3>2
  <2>5. timers' \subseteq timers /\ \A t \in timers' : t[1] \in Objs /\ t[1] # o
    <3>1. \A t \in timers : t \in Objs \X LinkIDs /\ obj[t[1]].id = t[2] /\ obj[t[1]].timer
      BY DEF IInv, Types, Refs
    <3>2. \A t \in timers : t[1] = o => x.timer /\ t = <<o, x.id>>
      BY <3>1
    <3>. QED  BY <2>1, <3>1, <3>2 DEF RemoveTimer
  <2>7. Append(evs[x.id], "Close") \in EvsOf(y.st)
    <3>1. evs[x.id] \in {<<>>, <<"Open">>, <<"Open", "Start">>}
      <4>1. evs[x.id] \in EvsOf(x.st) /\ x.st \in {"Opening", "Open", "Start", "End"}
        BY <1>2 DEF IInv, Events, LinkOK, LinkRec
      <4>. QED  BY <4>1 DEF EvsOf
    <3>. QED  BY <2>2, <3>1, EventSequences DEF EvsOf
  <2>6. Types'
    <3>1. y \in LinkRec
      BY <2>2 DEF LinkOK
    <3>2. obj' \in [Objs -> LinkRec]
      BY <2>1, <3>1 DEF IInv, Types
    <3>3. evs' \in [LinkIDs -> Reports]
      BY <1>2, <2>1, <2>7, EventsTyped DEF IInv
    <3>. QED  BY <1>1, <1>2, <2>1, <2>4, <2>5, <3>2, <3>3 DEF IInv, Types
  <2>8. Events'
    BY <1>1, <1>2, <2>1, <2>2, <2>7, EventsReported DEF IInv
  <2>9. Refs'
    <3>1. \A q \in Objs : LinkOK(obj'[q]) /\ obj'[q].id = obj[q].id
      BY <2>2, <2>3 DEF IInv, Refs
    <3>2. \A t \in timers' : obj'[t[1]].id = t[2] /\ obj'[t[1]].timer
      BY <2>3, <2>5 DEF IInv, Refs
    <3>3. \A t \in ready \cup work : t[1] \in Objs /\ t[1] # o
      BY <1>2 DEF IInv, Types, Refs
    <3>4. \A t \in ready' \cup work' : obj'[t[1]].id = t[2] /\ ~obj'[t[1]].up
      BY <1>1, <2>1, <2>2, <2>3, <3>3 DEF IInv, Refs
    <3>5. \A r \in ready', w \in work' : r[1] # w[1]
      BY <1>1, <2>1, <3>3 DEF IInv, Refs
    <3>6. \A p \in links' : obj'[p[2]].id = p[1]
      BY <1>1, <3>1 DEF IInv, Refs, Types
    <3>7. \A q \in Objs : q \in closeq' => obj'[q].closing
      BY <1>1, <2>3 DEF IInv, Refs
    <3>. QED  BY <1>1, <3>1, <3>2, <3>4, <3>5, <3>6, <3>7 DEF IInv, Refs, At
  <2>. QED  BY <2>4, <2>6, <2>8, <2>9 DEF IInv
<1>. QED  BY <1>3, <1>4

-----------------------------------------------------------------------------
(* Every step keeps the invariant, and what follows from it.               *)

LEMMA NextStep == IInv /\ [Next]_vars => IInv'
<1>. SUFFICES ASSUME IInv, [Next]_vars
              PROVE  IInv'
  OBVIOUS
<1>1. CASE Calls
  BY <1>1, PlainSteps, ReleaseStep, ConnectTcpStep, LinkCallSteps DEF Calls
<1>2. CASE Loop
  BY <1>2, PlainSteps, FlushLinkStep, CloseBeginStep, FrameEndStep, ReleaseEndStep,
     HandleClosedStep DEF Loop
<1>3. CASE Peers
  <2>1. ASSUME NEW t \in timers, KeepAliveTimeout(t[1], t[2])
        PROVE  IInv'
    <3>1. t[1] \in Objs /\ t[2] \in LinkIDs /\ <<t[1], t[2]>> \in timers
      BY DEF IInv, Types
    <3>. QED  BY <2>1, <3>1, KeepAliveStep
  <2>2. ASSUME NEW c \in Conns, ResolveFailed(c)
        PROVE  IInv'
    BY <2>2, ResolveFailedStep
  <2>3. ASSUME NEW c \in Conns, NEW o \in Objs, Resolved(c, o) \/ ConnectRefused(c, o)
        PROVE  IInv'
    BY <2>3, ResolvedStep, ConnectRefusedStep
  <2>4. ASSUME NEW l \in Listeners, NEW o \in Objs, Accept(l, o)
        PROVE  IInv'
    BY <2>4, AcceptStep
  <2>5. ASSUME NEW o \in Objs, ReadReply(o) \/ ReadFailed(o)
        PROVE  IInv'
    BY <2>5, LinkCallSteps
  <2>6. ASSUME NEW o \in Objs, \/ Connected(o) \/ ConnectFailed(o) \/ ReadStart(o)
                               \/ Written(o) \/ ShutdownDone(o)
        PROVE  IInv'
    BY <2>6, ConnectedStep, ConnectFailedStep, ReadStartStep, WrittenStep, ShutdownDoneStep
  <2>. QED  BY <1>3, <2>1, <2>2, <2>3, <2>4, <2>5, <2>6 DEF Peers
<1>4. CASE UNCHANGED vars
  BY <1>4 DEF vars, IInv, Types, Refs, Events, Connects
<1>. QED  BY <1>1, <1>2, <1>3, <1>4 DEF Next

LEMMA AlwaysIInv == Spec => []IInv
<1>1. Init => IInv
  BY InitHolds
<1>. QED  BY <1>1, NextStep, PTL DEF Spec

\* The variables keep their types.
THEOREM TypeCorrect == Spec => []TypeOK
<1>1. Reports \subseteq Seq({"Open", "Start", "Close"})
  BY SMT DEF Reports
<1>2. IInv => TypeOK
  <2>. SUFFICES ASSUME IInv PROVE TypeOK
    OBVIOUS
  <2>1. evs \in [LinkIDs -> Seq({"Open", "Start", "Close"})]
    BY <1>1 DEF IInv, Types
  <2>. QED  BY <2>1 DEF IInv, Types, TypeOK, LinkRec
<1>. QED  BY <1>2, AlwaysIInv, PTL

\* No timer, next-frame callback or entry of the link table outlives the link it
\* was made for, and an object in the pool is idle, however often it was used.
THEOREM NeverDangling == Spec => []NoDangling
<1>1. IInv => NoDangling
  BY DEF IInv, Refs, NoDangling, LinkOK
<1>. QED  BY <1>1, AlwaysIInv, PTL

\* on_link_open, on_link_start and on_link_close come in a legal order, each at
\* most once for one link, in every order of the loop's callbacks.
THEOREM EventsAlwaysLegal == Spec => []EventLegal
<1>1. IInv => EventLegal
  BY DEF IInv, Types, Reports, EventLegal
<1>. QED  BY <1>1, AlwaysIInv, PTL

\* connect_tcp calls back once, and an open connect is in exactly one place that
\* will call back.
THEOREM AlwaysAnsweredOnce == Spec => []ConnectAnsweredOnce
<1>1. ASSUME IInv, NEW c \in Conns
      PROVE  LET holders == {o \in Objs : obj[o].conn = c} IN
             /\ called[c] <= 1
             /\ called[c] = 0 => (c \in resolving) # (Cardinality(holders) = 1)
             /\ called[c] # 0 => c \notin resolving /\ holders = {}
  <2>. DEFINE holders == {o \in Objs : obj[o].conn = c}
  <2>1. c # NoConn
    BY NoConnAssumption
  <2>2. called[c] # 0 => c \notin resolving /\ holders = {}
    BY <1>1, <2>1 DEF IInv, Connects
  <2>3. CASE c \in resolving
    <3>1. holders = {}
      BY <1>1, <2>1, <2>3 DEF IInv, Connects
    <3>. QED  BY <1>1, <2>2, <2>3, <3>1, FS_EmptySet DEF IInv, Connects
  <2>4. CASE c \notin resolving /\ called[c] = 0
    <3>1. PICK o \in Objs : obj[o].conn = c
      BY <1>1, <2>4 DEF IInv, Connects
    <3>2. holders = {o}
      BY <1>1, <2>1, <3>1 DEF IInv, Connects
    <3>. QED  BY <1>1, <2>4, <3>2, FS_Singleton DEF IInv, Connects
  <2>5. CASE c \notin resolving /\ called[c] # 0
    BY <1>1, <2>2, <2>5 DEF IInv, Connects
  <2>. QED  BY <2>3, <2>4, <2>5
<1>2. IInv => ConnectAnsweredOnce
  BY <1>1 DEF ConnectAnsweredOnce
<1>. QED  BY <1>2, AlwaysIInv, PTL

\* Only the end of release() makes the reacter invalid again.
LEMMA OnlyReleaseEnds ==
  ASSUME Next, rstate = "Closing", rstate' = "Invalid"
  PROVE  ReleaseEnd
BY DEF Next, Calls, Loop, Peers, InitReacter, Release, ListenTcp, StopListenTcp, ConnectTcp,
       CloseLink, SendMsg, Running, UpdateBegin, FlushLink, CloseBegin, FrameEnd, HandleClosed,
       ListenerClosed, KeepAliveTimeout, ResolveFailed, Resolved, ConnectRefused, Accept,
       Connected, ConnectFailed, ReadStart, ReadReply, ReadFailed, Written, ShutdownDone

\* release() returns only when every link was reported closed, every connect was
\* answered and every object is back in the pool.
THEOREM ReleaseIsComplete == Spec => ReleaseComplete
<1>. DEFINE Complete == rstate = "Closing" /\ rstate' = "Invalid" =>
              /\ \A id \in 1..gen : evs[id] # <<>> /\ Last(evs[id]) = "Close"
              /\ \A c \in Conns : called[c] # 0
              /\ \A o \in Objs : obj'[o] = Pooled
<1>1. ASSUME NEW s \in EvsOf("Close")
      PROVE  s # <<>> /\ Last(s) = "Close"
  <2>1. s \in {<<"Close">>, <<"Open", "Close">>, <<"Open", "Start", "Close">>}
    BY DEF EvsOf
  <2>2. CASE s = <<"Close">>
    <3>1. Len(s) = 1 /\ s[1] = "Close"
      BY <2>2
    <3>. QED  BY <2>2, <3>1 DEF Last
  <2>3. CASE s = <<"Open", "Close">>
    <3>1. Len(s) = 2 /\ s[2] = "Close"
      BY <2>3
    <3>. QED  BY <2>3, <3>1 DEF Last
  <2>4. CASE s = <<"Open", "Start", "Close">>
    <3>1. Len(s) = 3 /\ s[3] = "Close"
      BY <2>4
    <3>. QED  BY <2>4, <3>1 DEF Last
  <2>. QED  BY <2>1, <2>2, <2>3, <2>4
<1>2. IInv /\ [Next]_vars => [Complete]_vars
  <2>. SUFFICES ASSUME IInv, Next, rstate = "Closing", rstate' = "Invalid"
                PROVE  Complete
    BY DEF vars
  <2>1. ReleaseEnd
    BY OnlyReleaseEnds
  <2>2. \A o \in Objs : ~obj[o].up /\ obj'[o] = Pooled
    BY <2>1, AllDone
  <2>3. \A id \in 1..gen : id \in LinkIDs /\ id <= gen
    BY BoundsAssumption DEF IInv, Types, LinkIDs
  <2>4. \A id \in 1..gen : evs[id] \in EvsOf("Close")
    BY <2>2, <2>3, AllClosed
  <2>5. resolving = {} /\ \A o \in Objs : obj[o].conn = NoConn
    BY <2>1, <2>2 DEF ReleaseEnd, LoopAlive, IInv, Refs, LinkOK
  <2>6. \A c \in Conns : called[c] # 0
    BY <2>5, NoConnAssumption DEF IInv, Connects
  <2>. QED  BY <1>1, <2>2, <2>4, <2>6
<1>. QED  BY <1>2, AlwaysIInv, PTL DEF Spec, ReleaseComplete
=============================================================================
