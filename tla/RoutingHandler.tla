--------------------------- MODULE RoutingHandler ---------------------------
(***************************************************************************)
(* HttpServerRequestRoutingHandler: a hash map of full paths, and a tree   *)
(* of path fragments for the patterns with wildcards.  A path is the       *)
(* sequence of its fragments; a node of the tree is the path to it.        *)
(***************************************************************************)
EXTENDS Naturals, Sequences, FiniteSets

CONSTANTS Methods,    \* includes GET and POST, which have slots of their own
          Fragments,  \* of paths and patterns
          Patterns,   \* paths given to route() and removeRoute()
          Paths,      \* paths of requests
          Handlers,
          MaxRoutes   \* bound: methods and patterns with a handler at one time

NoHandler == "none"
Wildcards == {"*", "**"}

HasWildcard(path) == \E i \in DOMAIN path : path[i] \in Wildcards

(* "**" is for the end of a pattern only. *)
ASSUME RoutingAssumption ==
    /\ MaxRoutes \in Nat
    /\ Wildcards \subseteq Fragments
    /\ Patterns \subseteq Seq(Fragments) /\ Paths \subseteq Seq(Fragments)
    /\ \A p \in Patterns : \A i \in DOMAIN p : p[i] = "**" => i = Len(p)
    /\ NoHandler \notin Handlers

VARIABLES fullPathRoutingMap,    \* full path -> handler map
          wildcardRoutingTree,   \* node -> handler map
          routed,  \* history: handlers given for a method and pattern since it was removed
          latest   \* history: the last one of them

routingVars == <<fullPathRoutingMap, wildcardRoutingTree, routed, latest>>

(* A handler map: slots for GET and POST, and a hash map that holds every  *)
(* method, these two as well.                                              *)
MethodSlots == {"GET", "POST"} \cap Methods
EmptyMap == [slot |-> [m \in MethodSlots |-> NoHandler], handlers |-> [m \in Methods |-> NoHandler]]

GetHandler(map, m) == IF m \in MethodSlots THEN map.slot[m] ELSE map.handlers[m]

(* set(): emplace() leaves an entry the hash map already has. *)
SetHandler(map, m, h) ==
    [slot |-> [s \in MethodSlots |-> IF s = m THEN h ELSE map.slot[s]],
     handlers |-> [map.handlers EXCEPT ![m] = IF @ = NoHandler THEN h ELSE @]]

RemoveHandler(map, m) ==
    [slot |-> [s \in MethodSlots |-> IF s = m THEN NoHandler ELSE map.slot[s]],
     handlers |-> [map.handlers EXCEPT ![m] = NoHandler]]

Put(f, x, y) == [z \in DOMAIN f \cup {x} |-> IF z = x THEN y ELSE f[z]]
MapAt(f, x) == IF x \in DOMAIN f THEN f[x] ELSE EmptyMap

RoutingInit ==
    /\ fullPathRoutingMap = [p \in {} |-> EmptyMap]
    /\ wildcardRoutingTree = [n \in {<<>>} |-> EmptyMap]
    /\ routed = [m \in Methods |-> [p \in Patterns |-> {}]]
    /\ latest = [m \in Methods |-> [p \in Patterns |-> NoHandler]]

-----------------------------------------------------------------------------
(* findOrCreateForModify(): the nodes on the way are created too. *)
WithNodes(path) ==
    LET way == {SubSeq(path, 1, i) : i \in 0 .. Len(path)}
    IN  [n \in DOMAIN wildcardRoutingTree \cup way |-> MapAt(wildcardRoutingTree, n)]

Remember(m, p, h) ==
    /\ routed' = [routed EXCEPT ![m][p] = @ \cup {h}]
    /\ latest' = [latest EXCEPT ![m][p] = h]

route(m, p, h) ==
    /\ \/ /\ ~HasWildcard(p)
          /\ fullPathRoutingMap' =
               Put(fullPathRoutingMap, p, SetHandler(MapAt(fullPathRoutingMap, p), m, h))
          /\ UNCHANGED wildcardRoutingTree
       \/ /\ HasWildcard(p)
          /\ wildcardRoutingTree' =
               [WithNodes(p) EXCEPT ![p] = SetHandler(@, m, h)]
          /\ UNCHANGED fullPathRoutingMap
    /\ Remember(m, p, h)

(* The maps and the nodes stay, empty or not. *)
removeRoute(m, p) ==
    /\ fullPathRoutingMap' =
         [q \in DOMAIN fullPathRoutingMap |->
            IF q = p THEN RemoveHandler(fullPathRoutingMap[q], m) ELSE fullPathRoutingMap[q]]
    /\ wildcardRoutingTree' =
         [n \in DOMAIN wildcardRoutingTree |->
            IF n = p THEN RemoveHandler(wildcardRoutingTree[n], m) ELSE wildcardRoutingTree[n]]
    /\ routed' = [routed EXCEPT ![m][p] = {}]
    /\ latest' = [latest EXCEPT ![m][p] = NoHandler]

-----------------------------------------------------------------------------
NoNode == <<"no node">>

HasChild(n, fragment) == Append(n, fragment) \in DOMAIN wildcardRoutingTree

\* A slip: "*" also ends the search.
StarEndsSearch(n, fragment) ==
    LET child == IF HasChild(n, fragment) THEN fragment ELSE "*"
    IN  [node |-> IF HasChild(n, child) THEN Append(n, child) ELSE NoNode,
         found |-> ~HasChild(n, fragment)]

(* One turn of the loop of findForRoute(): the fragment itself, or "**",   *)
(* which ends the search, or "*".                                          *)
FindChild(n, fragment) ==
    CASE HasChild(n, fragment) -> [node |-> Append(n, fragment), found |-> FALSE]
      [] ~HasChild(n, fragment) /\ HasChild(n, "**") -> [node |-> Append(n, "**"), found |-> TRUE]
      [] ~HasChild(n, fragment) /\ ~HasChild(n, "**") /\ HasChild(n, "*") ->
           [node |-> Append(n, "*"), found |-> FALSE]
      [] OTHER -> [node |-> NoNode, found |-> TRUE]

FindForRoute(path) ==
    LET after[i \in 0 .. Len(path)] ==
          IF i = 0 THEN [node |-> <<>>, found |-> FALSE]
          ELSE IF after[i - 1].found THEN after[i - 1]
          ELSE FindChild(after[i - 1].node, path[i])
    IN  after[Len(path)].node

\* A slip: the tree is asked before the full paths.
TreeFirst(m, path) ==
    LET node == FindForRoute(path)
    IN  IF node \in DOMAIN wildcardRoutingTree /\ HasWildcard(node)
          THEN GetHandler(wildcardRoutingTree[node], m)
          ELSE GetHandler(MapAt(fullPathRoutingMap, path), m)

getRoute(m, path) ==
    LET node == FindForRoute(path)
    IN  IF path \in DOMAIN fullPathRoutingMap THEN GetHandler(fullPathRoutingMap[path], m)
        ELSE IF node = NoNode THEN NoHandler
        ELSE GetHandler(wildcardRoutingTree[node], m)

\* A slip: the fast path only looks into the hash map.
FastPathReadsMap(m, path, query) ==
    LET map == fullPathRoutingMap[path]
    IN  IF ~query /\ path \in DOMAIN fullPathRoutingMap /\ map.handlers[m] # NoHandler
          THEN map.handlers[m] ELSE getRoute(m, path)

(* handle(): the fast path needs a url without a query, and looks into the *)
(* hash map when a slot is empty.  NoHandler is the next handler.               *)
Handle(m, path, query) ==
    LET map  == fullPathRoutingMap[path]
        fast == IF m \in MethodSlots /\ map.slot[m] # NoHandler THEN map.slot[m] ELSE map.handlers[m]
    IN  IF ~query /\ path \in DOMAIN fullPathRoutingMap /\ fast # NoHandler
          THEN fast ELSE getRoute(m, path)

Routes == {r \in Methods \X Patterns : routed[r[1]][r[2]] # {}}

RoutingNext == \E m \in Methods, p \in Patterns :
          \/ removeRoute(m, p)
          \/ /\ Cardinality(Routes \cup {<<m, p>>}) <= MaxRoutes
             /\ \E h \in Handlers : route(m, p, h)

RoutingSpec == RoutingInit /\ [][RoutingNext]_routingVars

-----------------------------------------------------------------------------
(* The documented rules: "*" matches a single path fragment, "**" at the   *)
(* end of a pattern matches one or more.                                   *)
Matches(pattern, path) ==
    LET tail == pattern # <<>> /\ pattern[Len(pattern)] = "**"
    IN  /\ IF tail THEN Len(path) >= Len(pattern) ELSE Len(path) = Len(pattern)
        /\ \A i \in DOMAIN pattern : pattern[i] \in Wildcards \/ pattern[i] = path[i]

(* A request is only given to a handler that was routed to its method and  *)
(* to a pattern that matches its path, and not removed since.              *)
OnlyMatchingHandlers ==
    \A m \in Methods, path \in Paths :
      LET h == Handle(m, path, FALSE)
      IN  h = NoHandler \/ \E p \in Patterns : h \in routed[m][p] /\ Matches(p, path)

(* A route of the full path wins over every wildcard. *)
FullPathWins ==
    \A m \in Methods, path \in Paths \cap Patterns :
      routed[m][path] = {} \/ getRoute(m, path) \in routed[m][path]

(* The fast path of handle() and getRoute(), which a query string leads    *)
(* to, give the same answer.                                               *)
FastPathAgrees ==
    \A m \in Methods, path \in DOMAIN fullPathRoutingMap \cap Paths :
      Handle(m, path, FALSE) = Handle(m, path, TRUE)

(* However routes came and went, by the fast path or by getRoute(), a      *)
(* request reaches the handler it should: one of a pattern that matches,   *)
(* that of the full path before any wildcard's, and the same both ways.    *)
RightHandler == OnlyMatchingHandlers /\ FullPathWins /\ FastPathAgrees

-----------------------------------------------------------------------------
(* Why RightHandler holds *)

HandlerMap == [slot : [MethodSlots -> Handlers \cup {NoHandler}],
               handlers : [Methods -> Handlers \cup {NoHandler}]]

Given(path) == [m \in Methods |-> IF path \in Patterns THEN routed[m][path] ELSE {}]

(* A handler map has, in the slot and in the hash map alike, a handler for *)
(* the methods whose routes were given and not removed: one of those.      *)
MapSound(map, given) ==
    /\ map \in HandlerMap
    /\ \A m \in Methods : IF given[m] = {} THEN map.handlers[m] = NoHandler
                                           ELSE map.handlers[m] \in given[m]
    /\ \A m \in MethodSlots : IF given[m] = {} THEN map.slot[m] = NoHandler
                                               ELSE map.slot[m] \in given[m]

FullPathsSound ==
    \A p \in DOMAIN fullPathRoutingMap :
      p \in Patterns /\ ~HasWildcard(p) /\ MapSound(fullPathRoutingMap[p], Given(p))

(* The nodes are sequences, every one with those on the way to it.         *)
TreeSound ==
    /\ DOMAIN wildcardRoutingTree \subseteq Seq(Fragments)
    /\ <<>> \in DOMAIN wildcardRoutingTree
    /\ \A n \in DOMAIN wildcardRoutingTree : \A i \in 0 .. Len(n) :
         SubSeq(n, 1, i) \in DOMAIN wildcardRoutingTree
    /\ \A n \in DOMAIN wildcardRoutingTree :
         MapSound(wildcardRoutingTree[n],
                  IF HasWildcard(n) THEN Given(n) ELSE [m \in Methods |-> {}])

(* Every route has its place, according to its wildcards.                  *)
RoutesPlaced ==
    /\ routed \in [Methods -> [Patterns -> SUBSET Handlers]]
    /\ \A m \in Methods, p \in Patterns : routed[m][p] # {} =>
         p \in IF HasWildcard(p) THEN DOMAIN wildcardRoutingTree ELSE DOMAIN fullPathRoutingMap

RoutingInv == FullPathsSound /\ TreeSound /\ RoutesPlaced

-----------------------------------------------------------------------------
(* Statements of the repository that the code does not keep *)

(* The rules of route(): a request that a routed pattern matches is given  *)
(* to a handler.                                                           *)
MatchingRouteFound ==
    \A m \in Methods, path \in Paths :
      (\E p \in Patterns : routed[m][p] # {} /\ Matches(p, path)) => getRoute(m, path) # NoHandler

(* route() will "Associate handler with given method and path": the last   *)
(* handler associated is the one found.                                    *)
LatestRouteWins ==
    \A m \in Methods, path \in Paths \cap Patterns :
      latest[m][path] # NoHandler => getRoute(m, path) = latest[m][path]
=============================================================================
