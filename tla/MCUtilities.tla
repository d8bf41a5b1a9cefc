---------------------------- MODULE MCUtilities ----------------------------
(***************************************************************************)
(* The utilities have no state in common and never call each other, so one *)
(* run takes each of them through its own operations: `part` says which.   *)
(* There are four objects and a free list of three; an unaligned buffer    *)
(* and blocks of several alignments; time stamps of three bits in fields   *)
(* of one bit each and two clock ids; three keys in a cache of two, with   *)
(* one spare address; sizes up to 9 and integers of eight bits.            *)
(***************************************************************************)
EXTENDS Reusable, StackAllocator, TimeUUID, LRUCache, MCContainer, StringBuilder,
        MCRoutingHandler

VARIABLE part

SmallRequests == {[bytes |-> 1, alignment |-> 1], [bytes |-> 2, alignment |-> 2],
                  [bytes |-> 3, alignment |-> 1], [bytes |-> 4, alignment |-> 4]}
SomeViews == {<<"a">>, <<"b", "a">>}
BuilderCharacters == {DecimalDigits[d] : d \in 1 .. 10} \cup {"-", "a", "b", "?"}
EdgeIntegers == {-128, 0, 10}

(* Addresses start out with the same garbage, which no operation reads.    *)
Init ==
    /\ part \in {"reusable", "storage", "uuid", "lru", "container", "builder", "routing"}
    /\ ReusableInit /\ StorageInit
    /\ TimeUUIDInit /\ (part # "uuid" => now = 1)
    /\ LRUInit /\ cell = [n \in Nodes |-> CHOOSE c \in Cells : TRUE]
    /\ ContainerInit /\ BuilderInit /\ RoutingInit

memoryVars == <<reusableVars, storageVars, builderVars>>
serviceVars == <<lruVars, containerVars, routingVars>>

Next ==
    /\ UNCHANGED part
    /\ \/ part = "reusable" /\ ReusableNext
          /\ UNCHANGED <<storageVars, builderVars, uuidVars, serviceVars>>
       \/ part = "storage" /\ StorageNext
          /\ UNCHANGED <<reusableVars, builderVars, uuidVars, serviceVars>>
       \/ part = "builder" /\ BuilderNext
          /\ UNCHANGED <<reusableVars, storageVars, uuidVars, serviceVars>>
       \/ part = "uuid" /\ TimeUUIDNext
          /\ UNCHANGED <<memoryVars, serviceVars>>
       \/ part = "lru" /\ LRUNext
          /\ UNCHANGED <<memoryVars, uuidVars, containerVars, routingVars>>
       \/ part = "container" /\ ContainerNext
          /\ UNCHANGED <<memoryVars, uuidVars, lruVars, routingVars>>
       \/ part = "routing" /\ RoutingNext
          /\ UNCHANGED <<memoryVars, uuidVars, lruVars, containerVars>>

Spec == Init /\ [][Next]_<<part, memoryVars, uuidVars, serviceVars>>
=============================================================================
