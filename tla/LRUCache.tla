------------------------------ MODULE LRUCache ------------------------------
(***************************************************************************)
(* include/CPVFramework/Utility/LRUCache.hpp: a std::list of (key, value)  *)
(* nodes, most recently used first, and a std::map from each key to the    *)
(* list node that holds it.  Nodes have identities, so that an iterator    *)
(* kept in the map after its node was freed would be visible.              *)
(***************************************************************************)
EXTENDS Naturals, Sequences, FiniteSets, SequencesExt

CONSTANTS Keys, Values,
          Nodes,      \* addresses the list allocates its nodes from
          MaxSize     \* maxSize_

ASSUME MaxSizeAssumption == MaxSize \in Nat
ASSUME NodesAssumption == IsFiniteSet(Nodes) /\ Cardinality(Nodes) > MaxSize

VARIABLES list,   \* list_: the addresses of its nodes, front first
          cell,   \* what each address holds (garbage once freed)
          map,    \* map_: key -> address
          hit     \* the value the last operation returned, or NoValue

lruVars == <<list, cell, map, hit>>

NoValue == [none |-> TRUE]

Cells == [key : Keys, value : Values]

\* A slip: a key keeps its place when it is used again.
HitKeepsPlace(k) ==
    /\ hit' = IF k \in DOMAIN map THEN cell[map[k]].value ELSE NoValue
    /\ UNCHANGED <<list, cell, map>>

(* list_.erase(it) *)
EraseNode(s, n) == RemoveFirst(s, n)

(* map_.erase(key) *)
EraseKey(m, k) == [j \in DOMAIN m \ {k} |-> m[j]]

(* The map has grown past the limit. *)
Over(m) == Cardinality(DOMAIN m) > MaxSize

LRUInit == /\ list = <<>>
        /\ cell \in [Nodes -> Cells]
        /\ map = [k \in {} |-> k]
        /\ hit = NoValue

(* set: drop the node the key had, push a new one to the front, and evict  *)
(* the back of the list when the map has grown past its limit.             *)
Set(k, v) ==
    LET kept == IF k \in DOMAIN map THEN EraseNode(list, map[k]) ELSE list
        free == Nodes \ {kept[i] : i \in DOMAIN kept}
    IN  \E n \in free :
          LET grown  == <<n>> \o kept
              mapped == [j \in DOMAIN map \cup {k} |-> IF j = k THEN n ELSE map[j]]
              back   == grown[Len(grown)]
          IN  /\ cell' = [cell EXCEPT ![n] = [key |-> k, value |-> v]]
              /\ map'  = IF Over(mapped) THEN EraseKey(mapped, cell'[back].key) ELSE mapped
              /\ list' = IF Over(mapped) THEN SubSeq(grown, 1, Len(grown) - 1) ELSE grown
              /\ hit'  = NoValue

(* get: splice the node to the front, and answer what it holds *)
Get(k) ==
    IF k \in DOMAIN map
      THEN /\ list' = <<map[k]>> \o EraseNode(list, map[k])
           /\ hit'  = cell[map[k]].value
           /\ UNCHANGED <<cell, map>>
      ELSE hit' = NoValue /\ UNCHANGED <<list, cell, map>>

Erase(k) ==
    IF k \in DOMAIN map
      THEN /\ list' = EraseNode(list, map[k])
           /\ map'  = EraseKey(map, k)
           /\ hit' = NoValue
           /\ UNCHANGED cell
      ELSE hit' = NoValue /\ UNCHANGED <<list, cell, map>>

Clear == /\ list' = <<>>
         /\ map' = [k \in {} |-> k]
         /\ hit' = NoValue
         /\ UNCHANGED cell

LRUNext == \/ \E k \in Keys : (\E v \in Values : Set(k, v)) \/ Get(k) \/ Erase(k)
        \/ Clear

LRUSpec == LRUInit /\ [][LRUNext]_lruVars

-----------------------------------------------------------------------------
(* Every variable has its type, and the cache never holds more than        *)
(* maxSize_ entries once set() has returned.                               *)
LRUTypeOK == /\ list \in Seq(Nodes) /\ Len(list) <= MaxSize
          /\ cell \in [Nodes -> Cells]
          /\ DOMAIN map \subseteq Keys
          /\ \A k \in DOMAIN map : map[k] \in Nodes
          /\ hit \in Values \cup {NoValue}

(* Why it does what it promises: the list and the map hold the same keys,  *)
(* each once, and every iterator in the map is the node with its key.      *)
Linked(l, c, m) ==
    /\ \A i \in DOMAIN l : c[l[i]].key \in DOMAIN m /\ m[c[l[i]].key] = l[i]
    /\ \A k \in DOMAIN m : \E i \in DOMAIN l : l[i] = m[k] /\ c[l[i]].key = k
    /\ \A i, j \in DOMAIN l : l[i] = l[j] => i = j
    /\ IsFiniteSet(DOMAIN m) /\ Cardinality(DOMAIN m) = Len(l)
LRUInv == LRUTypeOK /\ Linked(list, cell, map)

-----------------------------------------------------------------------------
(* What the class comment promises: up to MaxSize values, the least        *)
(* recently used one leaving first.                                        *)
Abstract == INSTANCE LRUCacheSpec WITH
    recent <- [i \in DOMAIN list |-> cell[list[i]].key],
    value  <- [k \in DOMAIN map |-> cell[map[k]].value],
    hit    <- hit

(* Every operation of the list-and-map implementation is the corresponding *)
(* operation of the abstract recency queue, with the same answer.          *)
ImplementsLRU == Abstract!Spec
=============================================================================
