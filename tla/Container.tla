----------------------------- MODULE Container -----------------------------
(***************************************************************************)
(* Container, the dependency injection container of one core, with its     *)
(* descriptors, factories, storages and ServicePatcher:                    *)
(* include/CPVFramework/Container/*.hpp and src/Container/*.cpp.           *)
(* Instances are numbered as they are made.                                *)
(***************************************************************************)
EXTENDS Integers, Sequences, SequencesExt, FiniteSets

CONSTANTS Services,        \* the service types
          Implementations, \* what may be registered: [service, lifetime, deps]
          Instances,       \* services that may be registered with an instance
          Patches,         \* how functions passed to patch() behave when moved: "keeps", "loses"
          Storages,        \* the service storages, the built-in one is one of them
          MaxDescriptors, MaxInstances, MaxClears  \* bounds

Lifetimes == {"Transient", "Persistent", "StoragePersistent"}

(* Services that depend on others come after these: the code recurses      *)
(* without end otherwise.                                                  *)
Ranks == [Services -> 0 .. Cardinality(Services)]
Respects(rank) ==
    \A i \in Implementations : \A k \in DOMAIN i.deps : rank[i.deps[k].service] < rank[i.service]

ASSUME ContainerAssumption ==
    /\ MaxDescriptors \in Nat /\ MaxInstances \in Nat /\ MaxClears \in Nat
    /\ Instances \subseteq Services /\ Patches \subseteq {"keeps", "loses"}
    /\ IsFiniteSet(Services)
    /\ Implementations \subseteq [service : Services, lifetime : Lifetimes,
                                  deps : Seq([service : Services, many : BOOLEAN])]
    /\ \E rank \in Ranks : Respects(rank)

VARIABLES
    descriptorsMap,  \* service -> its ServiceDescriptorCollection, 0: none yet
    collection,      \* the collections: sequences of descriptors
    descriptor,      \* the descriptors: [service, lifetime, factory]
    instance,        \* of each descriptor instance_, 0: none
    storage,         \* storage -> descriptor -> instance, 0: none
    calls,           \* the calls that are under way, each made by the one before
    asked,           \* the last get() or getMany(): [service, many, place]
    result,          \* and what it has returned
    cleared,         \* history: storage -> how often it was cleared
    product,         \* history: of each instance who made it, where, from what parts
    registered       \* history: how many instances there were at the last registration

registryVars == <<descriptorsMap, collection, descriptor, registered>>
keptVars == <<instance, storage, product>>
containerVars == <<registryVars, keptVars, calls, asked, result, cleared>>

NoResult == [is |-> "none", list |-> <<>>]
NothingAsked == [service |-> "none", many |-> TRUE, place |-> "nowhere"]
NoCalls == calls = <<>>

ContainerInit ==
    /\ descriptorsMap = [s \in Services |-> 0] /\ collection = <<>>
    /\ descriptor = <<>> /\ instance = <<>> /\ registered = 0
    /\ storage = [x \in Storages |-> <<>>] /\ cleared = [x \in Storages |-> 0]
    /\ product = <<>> /\ calls = <<>> /\ result = NoResult
    /\ asked = NothingAsked

-----------------------------------------------------------------------------
(* Registration *)

Missing(S) == SetToSeq({s \in S : descriptorsMap[s] = 0})

(* getOrCreateEmptyDescriptors() of a set of services *)
WithCollections(S) ==
    [s \in Services |-> IF s \in S /\ descriptorsMap[s] = 0
                        THEN Len(collection) + (CHOOSE i \in DOMAIN Missing(S) : Missing(S)[i] = s)
                        ELSE descriptorsMap[s]]

(* addDescriptor(), with the collections a factory refers to *)
AddDescriptor(service, others, lifetime, factory) ==
    LET map == WithCollections({service} \cup others)
        all == collection \o [i \in DOMAIN Missing({service} \cup others) |-> <<>>]
    IN  /\ NoCalls /\ Len(descriptor) < MaxDescriptors
        /\ descriptorsMap' = map
        /\ collection' = [all EXCEPT ![map[service]] = Append(@, Len(descriptor) + 1)]
        /\ descriptor' = Append(descriptor, [service |-> service, lifetime |-> lifetime, factory |-> factory])
        /\ storage' = [x \in Storages |-> Append(storage[x], 0)]
        /\ registered' = Len(product) /\ asked' = NothingAsked /\ result' = NoResult
        /\ UNCHANGED <<calls, cleared>>

(* add() with an implementation type.  The factory keeps the collections   *)
(* of its dependencies, whether or not anything is in them yet.            *)
AddImplementation(i) ==
    LET others == {i.deps[k].service : k \in DOMAIN i.deps}
        map == WithCollections({i.service} \cup others)
        kept == [k \in DOMAIN i.deps |-> [service |-> i.deps[k].service, many |-> i.deps[k].many,
                                           from |-> map[i.deps[k].service]]]
    IN  /\ AddDescriptor(i.service, others, i.lifetime, [kind |-> "injection", deps |-> kept])
        /\ instance' = Append(instance, 0) /\ UNCHANGED product

(* add() with an instance *)
AddInstance(s) ==
    /\ AddDescriptor(s, {}, "Persistent", [kind |-> "exception"])
    /\ Len(product) < MaxInstances
    /\ product' = Append(product, [by |-> Len(descriptor) + 1, place |-> "nowhere", age |-> 0, parts |-> <<>>])
    /\ instance' = Append(instance, Len(product) + 1)

\* A slip: the patched descriptors go to a collection of their own.
PatchesCopy(s, func) ==
    LET old == collection[descriptorsMap[s]]
        new == [i \in DOMAIN old |-> Len(descriptor) + i]
    IN  /\ NoCalls /\ descriptorsMap[s] # 0 /\ Len(descriptor) + Len(old) <= MaxDescriptors
        /\ descriptorsMap' = [descriptorsMap EXCEPT ![s] = Len(collection) + 1]
        /\ collection' = Append(collection, new)
        /\ descriptor' = descriptor \o [i \in DOMAIN old |-> [descriptor[old[i]] EXCEPT !.factory =
                            [kind |-> "patch", original |-> old[i], func |-> TRUE]]]
        /\ instance' = instance \o [i \in DOMAIN old |-> 0]
        /\ storage' = [x \in Storages |-> storage[x] \o [i \in DOMAIN old |-> 0]]
        /\ registered' = Len(product) /\ asked' = NothingAsked /\ result' = NoResult
        /\ UNCHANGED <<product, calls, cleared>>

(* ServicePatcher::patch(): every descriptor is replaced in place.  func   *)
(* is moved into the first factory, what is left of it into the others.    *)
Patch(s, func) ==
    LET old == collection[descriptorsMap[s]]
        new == [i \in DOMAIN old |-> Len(descriptor) + i]
    IN  /\ NoCalls /\ descriptorsMap[s] # 0 /\ Len(descriptor) + Len(old) <= MaxDescriptors
        /\ collection' = [collection EXCEPT ![descriptorsMap[s]] = new]
        /\ descriptor' = descriptor \o [i \in DOMAIN old |-> [descriptor[old[i]] EXCEPT !.factory =
                            [kind |-> "patch", original |-> old[i], func |-> i = 1 \/ func = "keeps"]]]
        /\ instance' = instance \o [i \in DOMAIN old |-> 0]
        /\ storage' = [x \in Storages |-> storage[x] \o [i \in DOMAIN old |-> 0]]
        /\ registered' = Len(product) /\ asked' = NothingAsked /\ result' = NoResult
        /\ UNCHANGED <<descriptorsMap, product, calls, cleared>>

-----------------------------------------------------------------------------
(* Resolution.  What a get() or getMany() of the program calls in turn is  *)
(* done step by step; nothing else runs until it has returned or thrown.   *)
(* A call is of the factory of a descriptor, or of getMany() itself (by =  *)
(* 0).  It has `deps` left to resolve and resolves the one at `at`; it has *)
(* `found` a list of descriptors for each one, and as `parts` the          *)
(* instances that the first of these have given it.                        *)

Running == calls[Len(calls)]
Place == asked.place

\* Slips: an instance is not found again, or is found for all descriptors of its service.
NeverKept(d) == 0
KeptByService(d) ==
    LET others == {e \in DOMAIN descriptor : descriptor[e].service = descriptor[d].service
                                               /\ storage[Place][e] # 0}
    IN  CASE descriptor[d].lifetime = "Persistent" -> instance[d]
          [] descriptor[d].lifetime = "StoragePersistent" ->
               IF others = {} THEN 0 ELSE storage[Place][CHOOSE e \in others : TRUE]
          [] OTHER -> 0

(* The instance that a descriptor has at hand, 0 if none                   *)
Kept(d) == CASE descriptor[d].lifetime = "Persistent" -> instance[d]
             [] descriptor[d].lifetime = "StoragePersistent" -> storage[Place][d]
             [] OTHER -> 0

(* The new instance n is kept as the lifetime says.                        *)
Keep(d, n) ==
    /\ instance' = IF descriptor[d].lifetime = "Persistent" THEN [instance EXCEPT ![d] = n] ELSE instance
    /\ storage' = IF descriptor[d].lifetime = "StoragePersistent"
                  THEN [storage EXCEPT ![Place][d] = n] ELSE storage

(* An exception leaves all calls; what was made and kept until then stays. *)
Throw ==
    /\ calls' = <<>> /\ result' = [is |-> "failed", list |-> <<>>]
    /\ UNCHANGED <<registryVars, keptVars, asked, cleared>>

Continue(next) ==
    /\ calls' = next
    /\ UNCHANGED <<registryVars, keptVars, asked, result, cleared>>

Listed(c) == IF c = 0 THEN <<>> ELSE collection[c]

(* get(): "not registered", "registered multiple times"                    *)
Refused(c, many) == ~many /\ Len(Listed(c)) # 1

(* The call f has a next descriptor, which gives it the instance n.        *)
Pending(f) == f.at \in DOMAIN f.found /\ Len(f.parts[f.at]) < Len(f.found[f.at])
Wanted(f) == f.found[f.at][Len(f.parts[f.at]) + 1]
Got(f, n) == [f EXCEPT !.parts[f.at] = Append(@, n)]

(* It goes on with the list ds for its dependency k.                       *)
Resolving(f, k, ds) == [f EXCEPT !.deps = @ \ {k}, !.at = k, !.found[k] = ds]

CallOf(d, deps, found) ==
    [by |-> d, deps |-> deps, at |-> 1, found |-> found, parts |-> [k \in DOMAIN found |-> <<>>]]

FactoryCall(d) ==
    LET f == descriptor[d].factory
    IN  IF f.kind = "patch" THEN CallOf(d, {}, <<<<f.original>>>>)
        ELSE CallOf(d, DOMAIN f.deps, [k \in DOMAIN f.deps |-> <<>>])

(* get() and getMany(), from the built-in or another storage               *)
GetService(s, many, x) ==
    /\ NoCalls /\ (Len(product) < MaxInstances \/ Listed(descriptorsMap[s]) = <<>>)
    /\ asked' = [service |-> s, many |-> many, place |-> x]
    /\ IF Refused(descriptorsMap[s], many)
       THEN result' = [is |-> "failed", list |-> <<>>] /\ UNCHANGED calls
       ELSE calls' = <<CallOf(0, {}, <<Listed(descriptorsMap[s])>>)>> /\ result' = NoResult
    /\ UNCHANGED <<registryVars, keptVars, cleared>>

(* ServiceDescriptor::getInstance(), which calls the factory if it has to  *)
GetInstance ==
    LET d == Wanted(Running)
    IN  /\ ~NoCalls /\ Pending(Running)
        /\ IF Kept(d) # 0 THEN Continue([calls EXCEPT ![Len(calls)] = Got(@, Kept(d))])
           ELSE IF descriptor[d].factory.kind = "exception" THEN Throw
           ELSE Continue(Append(calls, FactoryCall(d)))

(* ServiceDependencyInjectionFactory: the dependencies are arguments of a  *)
(* constructor, which C++ evaluates in any order.                          *)
GetDependency(k) ==
    LET dep == descriptor[Running.by].factory.deps[k]
    IN  IF Refused(dep.from, dep.many) THEN Throw
        ELSE Continue([calls EXCEPT ![Len(calls)] = Resolving(@, k, Listed(dep.from))])

(* The factory has all that it needs.                                      *)
MakeInstance ==
    LET d == Running.by
        f == descriptor[d].factory
        n == Len(product) + 1
        caller == Len(calls) - 1
    IN  IF f.kind = "patch" /\ ~f.func THEN Throw
        ELSE /\ product' = Append(product, [by |-> d, place |-> Place, age |-> cleared[Place],
                                            parts |-> Running.parts])
             /\ Keep(d, n)
             /\ calls' = [SubSeq(calls, 1, caller) EXCEPT ![caller] = Got(@, n)]
             /\ UNCHANGED <<registryVars, asked, result, cleared>>

CallFactory ==
    /\ ~NoCalls /\ ~Pending(Running) /\ Running.by # 0
    /\ IF Running.deps # {} THEN \E k \in Running.deps : GetDependency(k) ELSE MakeInstance

Return ==
    /\ ~NoCalls /\ ~Pending(Running) /\ Running.by = 0
    /\ calls' = <<>> /\ result' = [is |-> "returned", list |-> Running.parts[1]]
    /\ UNCHANGED <<registryVars, keptVars, asked, cleared>>

(* ServiceStorage::clear() *)
ClearStorage(x) ==
    /\ NoCalls /\ cleared[x] < MaxClears /\ cleared' = [cleared EXCEPT ![x] = @ + 1]
    /\ storage' = [storage EXCEPT ![x] = [d \in DOMAIN @ |-> 0]]
    /\ asked' = NothingAsked /\ result' = NoResult
    /\ UNCHANGED <<registryVars, instance, product, calls>>

-----------------------------------------------------------------------------
ContainerNext ==
        \/ \E i \in Implementations : AddImplementation(i)
        \/ \E s \in Instances : AddInstance(s)
        \/ \E s \in Services, func \in Patches : Patch(s, func)
        \/ \E s \in Services, many \in BOOLEAN, x \in Storages : GetService(s, many, x)
        \/ GetInstance \/ CallFactory \/ Return
        \/ \E x \in Storages : ClearStorage(x)

ContainerSpec == ContainerInit /\ [][ContainerNext]_containerVars

-----------------------------------------------------------------------------
MadeBy(n) == descriptor[product[n].by]

DescriptorsOf(s) == Listed(descriptorsMap[s])

(* ServiceLifetime: a persistent service has one instance for a container  *)
(* and a storage persistent one has one for a storage between two clear(), *)
(* however they are reached: directly, as a part of others, or patched.    *)
OneInstance ==
    \A m, n \in DOMAIN product : product[m].by = product[n].by /\ m # n =>
      /\ MadeBy(n).lifetime # "Persistent"
      /\ MadeBy(n).lifetime = "StoragePersistent" =>
           product[m].place # product[n].place \/ product[m].age # product[n].age

(* getMany() returns one instance of each descriptor, in order.            *)
ManyInOrder ==
    result.is = "returned" =>
      LET from == DescriptorsOf(asked.service)
      IN  /\ Len(result.list) = Len(from)
          /\ \A k \in DOMAIN result.list : product[result.list[k]].by = from[k]

(* "replace inplace to keep dependency injection factory work": an         *)
(* instance is injected what its dependencies are when it is made, even if *)
(* they were registered or patched after it.                               *)
PartsCurrent ==
    \A n \in registered + 1 .. Len(product) : MadeBy(n).factory.kind = "injection" =>
      \A k \in DOMAIN product[n].parts :
        [i \in DOMAIN product[n].parts[k] |-> product[product[n].parts[k][i]].by]
          = DescriptorsOf(MadeBy(n).factory.deps[k].service)

(* However services were registered, patched and asked for, and storages   *)
(* cleared, an instance is the right one: of its lifetime, in its place,   *)
(* with the parts that were current.                                       *)
InstancesRight == OneInstance /\ ManyInOrder /\ PartsCurrent

-----------------------------------------------------------------------------
(* Why InstancesRight holds *)

Rank == CHOOSE rank \in Ranks : Respects(rank)

(* The descriptor e comes before d: calls go from d to e, never back.      *)
Before(e, d) ==
    \/ Rank[descriptor[e].service] < Rank[descriptor[d].service]
    \/ descriptor[e].service = descriptor[d].service /\ e < d

Factories == [kind : {"injection"}, deps : Seq([service : Services, many : BOOLEAN, from : Nat])]
             \cup [kind : {"exception"}] \cup [kind : {"patch"}, original : Nat, func : BOOLEAN]

IsOf(d, s) == d \in DOMAIN descriptor /\ descriptor[d].service = s

(* A factory refers to what comes before it, in the collections of now.    *)
FactorySound(d) ==
    LET f == descriptor[d].factory
    IN  /\ f.kind = "injection" => \A k \in DOMAIN f.deps :
             /\ f.deps[k].from = descriptorsMap[f.deps[k].service] /\ f.deps[k].from # 0
             /\ Rank[f.deps[k].service] < Rank[descriptor[d].service]
        /\ f.kind = "patch" => IsOf(f.original, descriptor[d].service) /\ f.original < d

RegistrySound ==
    /\ collection \in Seq(Seq(Nat))
    /\ descriptor \in Seq([service : Services, lifetime : Lifetimes, factory : Factories])
    /\ descriptorsMap \in [Services -> 0 .. Len(collection)]
    /\ \A s, t \in Services : descriptorsMap[s] = descriptorsMap[t] /\ descriptorsMap[s] # 0 => s = t
    /\ \A s \in Services : \A k \in DOMAIN DescriptorsOf(s) : IsOf(DescriptorsOf(s)[k], s)
    /\ \A d \in DOMAIN descriptor : FactorySound(d)

(* What is kept was made by the descriptor it is kept for.                 *)
KeptFor(list) ==
    /\ list \in Seq(0 .. Len(product)) /\ Len(list) = Len(descriptor)
    /\ \A d \in DOMAIN list : list[d] # 0 => product[list[d]].by = d

(* And what was made is kept, as long as its lifetime says.                *)
ProductKept(n) ==
    LET d == product[n].by
        x == product[n].place
    IN  /\ d \in DOMAIN descriptor
        /\ descriptor[d].lifetime = "Persistent" => instance[d] = n
        /\ x \in Storages => product[n].age <= cleared[x]
        /\ x \in Storages /\ descriptor[d].lifetime = "StoragePersistent" /\ product[n].age = cleared[x]
             => storage[x][d] = n

KeptSound ==
    /\ product \in Seq([by : Nat, place : Storages \cup {"nowhere"}, age : Nat,
                        parts : Seq(Seq(1 .. Len(product)))])
    /\ cleared \in [Storages -> Nat] /\ registered \in 0 .. Len(product)
    /\ KeptFor(instance)
    /\ DOMAIN storage = Storages /\ \A x \in Storages : KeptFor(storage[x])
    /\ \A n \in DOMAIN product : ProductKept(n)

Calls == [by : Nat, deps : SUBSET Nat, at : Nat, found : Seq(Seq(Nat)), parts : Seq(Seq(Nat))]

(* The instances that a call has are of the descriptors that it has found; *)
(* only where it is are there descriptors without an instance.             *)
Filled(made, f) ==
    /\ Len(f.parts) = Len(f.found)
    /\ \A k \in DOMAIN f.found :
         /\ IF k = f.at THEN Len(f.parts[k]) <= Len(f.found[k]) ELSE Len(f.parts[k]) = Len(f.found[k])
         /\ \A i \in DOMAIN f.parts[k] :
              f.parts[k][i] \in DOMAIN made /\ made[f.parts[k][i]].by = f.found[k][i]

RootSound(f) == f.by = 0 /\ f.deps = {} /\ f.found = <<Listed(descriptorsMap[asked.service])>>

(* A factory runs only while its descriptor has no instance.               *)
CallSound(f) ==
    LET factory == descriptor[f.by].factory
    IN  /\ f.by \in DOMAIN descriptor /\ Kept(f.by) = 0 /\ factory.kind # "exception"
        /\ factory.kind = "injection" =>
             /\ Len(f.found) = Len(factory.deps) /\ f.deps \subseteq DOMAIN factory.deps
             /\ \A k \in DOMAIN factory.deps :
                  f.found[k] = IF k \in f.deps THEN <<>> ELSE collection[factory.deps[k].from]
        /\ factory.kind = "patch" => f.deps = {} /\ f.found = <<<<factory.original>>>>

CallsSound ==
    /\ calls \in Seq(Calls)
    /\ ~NoCalls => asked \in [service : Services, many : BOOLEAN, place : Storages] /\ result = NoResult
    /\ \A j \in DOMAIN calls : Filled(product, calls[j])
    /\ \A j \in DOMAIN calls : \A f \in {calls[j]} :
         IF j = 1 THEN RootSound(f)
         ELSE CallSound(f) /\ Pending(calls[j - 1]) /\ Wanted(calls[j - 1]) = f.by
    /\ \A i, j \in 2 .. Len(calls) : i < j => Before(calls[j].by, calls[i].by)

ContainerInv == RegistrySound /\ KeptSound /\ CallsSound /\ InstancesRight

-----------------------------------------------------------------------------
(* patch(): "Patch registered services by given a wrapper function".       *)
(* getMany() of services without dependencies does not fail.               *)
PatchedUsable == asked.many => result.is # "failed"
=============================================================================
