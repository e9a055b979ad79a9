------------------------------- MODULE RouteMgr -------------------------------
(***************************************************************************)
(* RouteMgr: which link leads to a user and to a server.  Six hash maps    *)
(* hold the same facts: by route, by link, and by the two prefixes of a    *)
(* route.  A route packs a server's type, id and index into one integer;   *)
(* remove_route unpacks it to find the entries of the prefix maps.         *)
(*                                                                         *)
(* A map from a key to a link is a total function here, with NoLink (0)    *)
(* for an absent key; a map from a link to a set has {} for an absent one. *)
(* Every find of the code answers the same for an absent and an empty key. *)
(***************************************************************************)
EXTENDS Integers

CONSTANTS
  Links,        \* LinkIDs; LinkMgr gives out positive ones
  Users,        \* UserIDs
  ServerTypes,  \* the values of ServerType, which is signed
  IDSpan,       \* number of ServerIDs: 2^32 in the code
  IndexSpan     \* number of ServerIndexes: 2^16 in the code

NoLink == 0     \* what a find returns when it finds nothing

ASSUME LinksAssumption == NoLink \notin Links
ASSUME ServerTypesAssumption == ServerTypes \subseteq Int
ASSUME SpanAssumption == IDSpan \in Nat \ {0} /\ IndexSpan \in Nat \ {0}

ServerIDs     == 0..(IDSpan - 1)
ServerIndexes == 0..(IndexSpan - 1)

\* serverType << 32 | serverID, and that << 16 | serverIndex
TypeIDOf(type, server)         == type * IDSpan + server
RouteIDOf(type, server, index) == TypeIDOf(type, server) * IndexSpan + index

\* routeID >> 16, and routeID >> 48; the shift of a negative number rounds down.
TypePartUnsigned(route) ==      \* mutant of TypePart: the sign is lost
  (route \div (IDSpan * IndexSpan)) % 65536
TypeIDPart(route) == route \div IndexSpan
TypePart(route)   == route \div (IDSpan * IndexSpan)

TypeIDs == {TypeIDOf(t, s) : t \in ServerTypes, s \in ServerIDs}
Routes  == {RouteIDOf(t, s, i) : t \in ServerTypes, s \in ServerIDs, i \in ServerIndexes}

VARIABLES
  routeLinks,     \* mRouteLinks
  routes,         \* mRoutes
  userLinks,      \* mUserLinks
  users,          \* mUsers
  serverTypes,    \* mServerTypes
  serverTypeIDs   \* mServerTypeIDs

vars == <<routeLinks, routes, userLinks, users, serverTypes, serverTypeIDs>>

LinkOrNone == Links \cup {NoLink}

TypeOK ==
  /\ routeLinks \in [Links -> SUBSET Routes]
  /\ routes \in [Routes -> LinkOrNone]
  /\ userLinks \in [Links -> SUBSET Users]
  /\ users \in [Users -> LinkOrNone]
  /\ serverTypes \in [ServerTypes -> [Routes -> LinkOrNone]]
  /\ serverTypeIDs \in [TypeIDs -> [Routes -> LinkOrNone]]

NoRoutes == [r \in Routes |-> NoLink]

Init ==
  /\ routeLinks = [l \in Links |-> {}]
  /\ routes = NoRoutes
  /\ userLinks = [l \in Links |-> {}]
  /\ users = [u \in Users |-> NoLink]
  /\ serverTypes = [t \in ServerTypes |-> NoRoutes]
  /\ serverTypeIDs = [s \in TypeIDs |-> NoRoutes]

-----------------------------------------------------------------------------
\* add_route_by_user; a user that has a route keeps it (ErrorLinkRouteExist).
AddRouteByUser(u, l) ==
  /\ users[u] = NoLink
  /\ userLinks' = [userLinks EXCEPT ![l] = @ \cup {u}]
  /\ users' = [users EXCEPT ![u] = l]
  /\ UNCHANGED <<routeLinks, routes, serverTypes, serverTypeIDs>>

\* mRouteLinks[linkID].insert
RouteInserted(l, t, s, i) == [routeLinks EXCEPT ![l] = @ \cup {RouteIDOf(t, s, i)}]

\* add_route_by_server; a server that has a route keeps it.
AddRouteByServer(t, s, i, l) ==
  LET r == RouteIDOf(t, s, i) IN
  /\ routes[r] = NoLink
  /\ routeLinks' = RouteInserted(l, t, s, i)
  /\ routes' = [routes EXCEPT ![r] = l]
  /\ serverTypes' = [serverTypes EXCEPT ![t] = [@ EXCEPT ![r] = l]]
  /\ serverTypeIDs' = [serverTypeIDs EXCEPT ![TypeIDOf(t, s)] = [@ EXCEPT ![r] = l]]
  /\ UNCHANGED <<userLinks, users>>

\* Mutant of EraseFromTypeIDs: the type-and-id map is not cleaned.
EraseNothing(R) == serverTypeIDs

\* remove_route's erasures, for a set R of routes: each one is unpacked, so that
\* only the entry under its own type and its own type and id is erased.
EraseFromTypes(R) ==
  [t \in ServerTypes |-> [r \in Routes |->
     IF r \in R /\ TypePart(r) = t THEN NoLink ELSE serverTypes[t][r]]]

EraseFromTypeIDs(R) ==
  [s \in TypeIDs |-> [r \in Routes |->
     IF r \in R /\ TypeIDPart(r) = s THEN NoLink ELSE serverTypeIDs[s][r]]]

RemoveRoute(l) ==
  /\ routes' = [r \in Routes |-> IF r \in routeLinks[l] THEN NoLink ELSE routes[r]]
  /\ serverTypes' = EraseFromTypes(routeLinks[l])
  /\ serverTypeIDs' = EraseFromTypeIDs(routeLinks[l])
  /\ routeLinks' = [routeLinks EXCEPT ![l] = {}]
  /\ users' = [u \in Users |-> IF u \in userLinks[l] THEN NoLink ELSE users[u]]
  /\ userLinks' = [userLinks EXCEPT ![l] = {}]

Clear ==
  /\ routeLinks' = [l \in Links |-> {}]
  /\ routes' = NoRoutes
  /\ userLinks' = [l \in Links |-> {}]
  /\ users' = [u \in Users |-> NoLink]
  /\ serverTypes' = [t \in ServerTypes |-> NoRoutes]
  /\ serverTypeIDs' = [s \in TypeIDs |-> NoRoutes]

Next ==
  \/ \E u \in Users, l \in Links : AddRouteByUser(u, l)
  \/ \E t \in ServerTypes, s \in ServerIDs, i \in ServerIndexes, l \in Links :
       AddRouteByServer(t, s, i, l)
  \/ \E l \in Links : RemoveRoute(l)
  \/ Clear

Spec == Init /\ [][Next]_vars

-----------------------------------------------------------------------------
(* The finds.                                                              *)

FindRouteByServer(t, s, i) == routes[RouteIDOf(t, s, i)]

\* The routes with a prefix: those of find_server_type_routes(t) and of
\* find_server_type_id_routes(t, s).
TypeRoutes(t)      == {r \in Routes : serverTypes[t][r] # NoLink}
TypeIDRoutes(t, s) == {r \in Routes : serverTypeIDs[TypeIDOf(t, s)][r] # NoLink}

-----------------------------------------------------------------------------
(* What holds.                                                             *)

\* Packing loses nothing: a route stands for one server, whatever the sign of its
\* type, and the two prefixes remove_route computes are those add_route used.
RoutesAreServers ==
  \A t \in ServerTypes, s \in ServerIDs, i \in ServerIndexes :
    /\ TypeIDPart(RouteIDOf(t, s, i)) = TypeIDOf(t, s)
    /\ TypePart(RouteIDOf(t, s, i)) = t

\* The sets by link are the inverse of the map by route and of the map by user.
LinksAgree ==
  \A l \in Links : /\ \A r \in Routes : r \in routeLinks[l] <=> routes[r] = l
                   /\ \A u \in Users : u \in userLinks[l] <=> users[u] = l

\* A prefix map holds exactly the routes with its prefix, each with its link.
PrefixesAgree ==
  \A r \in Routes :
    /\ \A t \in ServerTypes :
         serverTypes[t][r] = IF TypePart(r) = t THEN routes[r] ELSE NoLink
    /\ \A s \in TypeIDs :
         serverTypeIDs[s][r] = IF TypeIDPart(r) = s THEN routes[r] ELSE NoLink

\* The six maps tell one story.
MapsAgree == LinksAgree /\ PrefixesAgree

\* What a caller sees: a listing by type, or by type and id, names exactly the
\* servers that a find by server finds, with the same link.
FindsAgree ==
  \A t \in ServerTypes, s \in ServerIDs, i \in ServerIndexes :
    LET r == RouteIDOf(t, s, i)
        l == FindRouteByServer(t, s, i)
    IN  /\ l # NoLink <=> r \in TypeRoutes(t)
        /\ l # NoLink <=> r \in TypeIDRoutes(t, s)
        /\ l # NoLink => serverTypes[t][r] = l /\ serverTypeIDs[TypeIDOf(t, s)][r] = l

\* A route or a user is never taken over by another link: it changes its link only
\* by losing it together with everything else that led to that link.
NeverTakenOver ==
  [][/\ \A r \in Routes : routes[r] # NoLink /\ routes'[r] # routes[r] =>
          \A q \in Routes : routes'[q] # routes[r]
     /\ \A u \in Users : users[u] # NoLink /\ users'[u] # users[u] =>
          \A v \in Users : users'[v] # users[u]]_vars
=============================================================================
