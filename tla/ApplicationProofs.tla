------------------------- MODULE ApplicationProofs -------------------------
(***************************************************************************)
(* data.state works as a lock and the cores stay in step, for any number   *)
(* of fibers, cores and modules, and wherever modules throw.  What the     *)
(* container of a core gives is the right instance, however services are   *)
(* registered, patched and asked for.                                      *)
(***************************************************************************)
EXTENDS Application, Container, Induction, FiniteSetTheorems

-----------------------------------------------------------------------------
(* The phases *)

(* Everything a chain is made of *)
Names == {"ShardStart", "CreateModules",
    "StartInitialize", "RegisterBasicServices", "BeforeCallCustomInitializeFunctions",
    "CallingCustomIntializeFunctions", "AfterCustomInitializeFunctionsCalled",
    "RegisterHeadServices", "RegisterServices", "RegisterTailServices",
    "PatchServices", "AfterServicesRegistered", "AfterInitialized",
    "BeforeStart", "Starting", "AfterStarted",
    "BeforeTemporaryStop", "TemporaryStopping", "AfterTemporaryStopped",
    "BeforeStop", "Stopping", "AfterStopped",
    "ensureInitialized", "startImpl", "stopTemporaryImpl", "stopImpl", "destroy", "waitExit"}

LEMMA ChainTypes ==
    /\ Initialize \in Seq(Names) /\ Len(Initialize) = 13
    /\ Starts \in Seq(Names) /\ Len(Starts) = 3
    /\ StopsTemporarily \in Seq(Names) /\ Len(StopsTemporarily) = 3
    /\ Stops \in Seq(Names) /\ Len(Stops) = 3
    /\ <<"destroy">> \in Seq(Names)
<1>1. Initialize \in Seq(Names) /\ Len(Initialize) = 13
  BY DEF Initialize, Names
<1>2. Starts \in Seq(Names) /\ Len(Starts) = 3
  BY DEF Starts, Names
<1>3. StopsTemporarily \in Seq(Names) /\ Len(StopsTemporarily) = 3
  BY DEF StopsTemporarily, Names
<1>4. Stops \in Seq(Names) /\ Len(Stops) = 3 /\ <<"destroy">> \in Seq(Names)
  BY DEF Stops, Names
<1> QED BY <1>1, <1>2, <1>3, <1>4

LEMMA StopsChain ==
    LET chain == Stops \o <<"destroy">>
    IN  /\ Len(chain) = 4 /\ chain[1] = "BeforeStop" /\ chain[2] = "Stopping"
        /\ chain[3] = "AfterStopped" /\ chain[4] = "destroy"
<1>1. Stops \in Seq(Names) /\ <<"destroy">> \in Seq(Names)
  BY ChainTypes
<1>2. Len(Stops) = 3 /\ Len(<<"destroy">>) = 1
  BY ChainTypes
<1>3. /\ Len(Stops \o <<"destroy">>) = 4
      /\ \A i \in 1 .. 4 : (Stops \o <<"destroy">>)[i] =
           IF i <= 3 THEN Stops[i] ELSE <<"destroy">>[i - 3]
  <2> DEFINE tail == <<"destroy">>
  <2>1. tail \in Seq(Names) /\ Len(tail) = 1
    BY <1>1, <1>2
  <2> HIDE DEF tail
  <2>2. Len(Stops \o tail) = 4 /\ \A i \in 1 .. 4 : (Stops \o tail)[i] =
           IF i <= 3 THEN Stops[i] ELSE tail[i - 3]
    BY <1>1, <1>2, <2>1, ConcatProperties, SMTT(30)
  <2> QED BY <2>2 DEF tail
<1> QED BY <1>3 DEF Stops

LEMMA FollowsCases ==
    ASSUME NEW p, NEW q
    PROVE  Follows(p, q) <=>
        \/ p = "ShardStart" /\ q = "CreateModules"
        \/ p = "CreateModules" /\ q = "StartInitialize"
        \/ p = "StartInitialize" /\ q = "RegisterBasicServices"
        \/ p = "RegisterBasicServices" /\ q = "BeforeCallCustomInitializeFunctions"
        \/ p = "BeforeCallCustomInitializeFunctions" /\ q = "CallingCustomIntializeFunctions"
        \/ p = "CallingCustomIntializeFunctions" /\ q = "AfterCustomInitializeFunctionsCalled"
        \/ p = "AfterCustomInitializeFunctionsCalled" /\ q = "RegisterHeadServices"
        \/ p = "RegisterHeadServices" /\ q = "RegisterServices"
        \/ p = "RegisterServices" /\ q = "RegisterTailServices"
        \/ p = "RegisterTailServices" /\ q = "PatchServices"
        \/ p = "PatchServices" /\ q = "AfterServicesRegistered"
        \/ p = "AfterServicesRegistered" /\ q = "AfterInitialized"
        \/ p = "BeforeStart" /\ q = "Starting"
        \/ p = "Starting" /\ q = "AfterStarted"
        \/ p = "BeforeTemporaryStop" /\ q = "TemporaryStopping"
        \/ p = "TemporaryStopping" /\ q = "AfterTemporaryStopped"
        \/ p = "BeforeStop" /\ q = "Stopping"
        \/ p = "Stopping" /\ q = "AfterStopped"
        \/ p = "AfterStopped" /\ q = "destroy"
<1>1. (\E i \in 1 .. Len(Initialize) - 1 : Initialize[i] = p /\ Initialize[i + 1] = q) <=>
        \/ p = "ShardStart" /\ q = "CreateModules"
        \/ p = "CreateModules" /\ q = "StartInitialize"
        \/ p = "StartInitialize" /\ q = "RegisterBasicServices"
        \/ p = "RegisterBasicServices" /\ q = "BeforeCallCustomInitializeFunctions"
        \/ p = "BeforeCallCustomInitializeFunctions" /\ q = "CallingCustomIntializeFunctions"
        \/ p = "CallingCustomIntializeFunctions" /\ q = "AfterCustomInitializeFunctionsCalled"
        \/ p = "AfterCustomInitializeFunctionsCalled" /\ q = "RegisterHeadServices"
        \/ p = "RegisterHeadServices" /\ q = "RegisterServices"
        \/ p = "RegisterServices" /\ q = "RegisterTailServices"
        \/ p = "RegisterTailServices" /\ q = "PatchServices"
        \/ p = "PatchServices" /\ q = "AfterServicesRegistered"
        \/ p = "AfterServicesRegistered" /\ q = "AfterInitialized"
  BY DEF Initialize
<1>2. (\E i \in 1 .. Len(Starts) - 1 : Starts[i] = p /\ Starts[i + 1] = q) <=>
        \/ p = "BeforeStart" /\ q = "Starting"
        \/ p = "Starting" /\ q = "AfterStarted"
  BY DEF Starts
<1>3. (\E i \in 1 .. Len(StopsTemporarily) - 1 : StopsTemporarily[i] = p /\ StopsTemporarily[i + 1] = q) <=>
        \/ p = "BeforeTemporaryStop" /\ q = "TemporaryStopping"
        \/ p = "TemporaryStopping" /\ q = "AfterTemporaryStopped"
  BY DEF StopsTemporarily
<1>5. (\E i \in 1 .. Len(Stops \o <<"destroy">>) - 1 :
           (Stops \o <<"destroy">>)[i] = p /\ (Stops \o <<"destroy">>)[i + 1] = q) <=>
        \/ p = "BeforeStop" /\ q = "Stopping"
        \/ p = "Stopping" /\ q = "AfterStopped"
        \/ p = "AfterStopped" /\ q = "destroy"
  <2> DEFINE chain == Stops \o <<"destroy">>
  <2>1. /\ Len(chain) = 4 /\ chain[1] = "BeforeStop" /\ chain[2] = "Stopping"
        /\ chain[3] = "AfterStopped" /\ chain[4] = "destroy"
    BY StopsChain
  <2> HIDE DEF chain
  <2>2. (\E i \in 1 .. Len(chain) - 1 : chain[i] = p /\ chain[i + 1] = q) <=>
          \/ p = "BeforeStop" /\ q = "Stopping"
          \/ p = "Stopping" /\ q = "AfterStopped"
          \/ p = "AfterStopped" /\ q = "destroy"
    BY <2>1
  <2> QED BY <2>2 DEF chain
<1> QED BY <1>1, <1>2, <1>3, <1>5, Zenon DEF Follows

LEMMA PhasesAre ==
    /\ ToSet(Initialize) = {"ShardStart", "CreateModules",
         "StartInitialize", "RegisterBasicServices", "BeforeCallCustomInitializeFunctions",
         "CallingCustomIntializeFunctions", "AfterCustomInitializeFunctionsCalled",
         "RegisterHeadServices", "RegisterServices", "RegisterTailServices",
         "PatchServices", "AfterServicesRegistered", "AfterInitialized"}
    /\ ToSet(Starts) = {"BeforeStart", "Starting", "AfterStarted"}
    /\ ToSet(StopsTemporarily) = {"BeforeTemporaryStop", "TemporaryStopping", "AfterTemporaryStopped"}
    /\ ToSet(Stops) = {"BeforeStop", "Stopping", "AfterStopped"}
BY DEF ToSet, Initialize, Starts, StopsTemporarily, Stops

LEMMA ToSetConcat ==
    ASSUME NEW S, NEW a \in Seq(S), NEW b \in Seq(S)
    PROVE  ToSet(a \o b) = ToSet(a) \cup ToSet(b)
<1>1. /\ a \o b \in Seq(S) /\ Len(a \o b) = Len(a) + Len(b)
      /\ \A i \in 1 .. Len(a) + Len(b) :
           (a \o b)[i] = IF i <= Len(a) THEN a[i] ELSE b[i - Len(a)]
  BY ConcatProperties
<1>2. Len(a) \in Nat /\ Len(b) \in Nat /\ DOMAIN a = 1 .. Len(a) /\ DOMAIN b = 1 .. Len(b)
      /\ DOMAIN (a \o b) = 1 .. Len(a) + Len(b)
  BY <1>1, LenProperties
<1>3. \A i \in DOMAIN a : i \in DOMAIN (a \o b) /\ (a \o b)[i] = a[i]
  BY <1>1, <1>2
<1>4. \A i \in DOMAIN b : Len(a) + i \in DOMAIN (a \o b) /\ (a \o b)[Len(a) + i] = b[i]
  BY <1>1, <1>2
<1>5. \A i \in DOMAIN (a \o b) : \/ i \in DOMAIN a /\ (a \o b)[i] = a[i]
                                 \/ i - Len(a) \in DOMAIN b /\ (a \o b)[i] = b[i - Len(a)]
  BY <1>1, <1>2
<1>6. ToSet(a \o b) \subseteq ToSet(a) \cup ToSet(b)
  <2> SUFFICES ASSUME NEW i \in DOMAIN (a \o b) PROVE (a \o b)[i] \in ToSet(a) \cup ToSet(b)
    BY DEF ToSet
  <2> QED BY <1>5 DEF ToSet
<1>7. ToSet(a) \subseteq ToSet(a \o b)
  <2> SUFFICES ASSUME NEW i \in DOMAIN a PROVE a[i] \in ToSet(a \o b)
    BY DEF ToSet
  <2> QED BY <1>3 DEF ToSet
<1>8. ToSet(b) \subseteq ToSet(a \o b)
  <2> SUFFICES ASSUME NEW i \in DOMAIN b PROVE b[i] \in ToSet(a \o b)
    BY DEF ToSet
  <2> QED BY <1>4 DEF ToSet
<1> QED BY <1>6, <1>7, <1>8

(* The sets of phases, spelled out *)
LEMMA ApplicationStates ==
    ApplicationState = {
      "StartInitialize", "RegisterBasicServices", "BeforeCallCustomInitializeFunctions",
      "CallingCustomIntializeFunctions", "AfterCustomInitializeFunctionsCalled",
      "RegisterHeadServices", "RegisterServices", "RegisterTailServices",
      "PatchServices", "AfterServicesRegistered", "AfterInitialized",
      "BeforeStart", "Starting", "AfterStarted",
      "BeforeTemporaryStop", "TemporaryStopping", "AfterTemporaryStopped",
      "BeforeStop", "Stopping", "AfterStopped"}
<1> DEFINE two == Initialize \o Starts
           three == two \o StopsTemporarily
<1>1. two \in Seq(Names) /\ ToSet(two) = ToSet(Initialize) \cup ToSet(Starts)
  BY ChainTypes, ToSetConcat, ConcatProperties
<1>2. three \in Seq(Names) /\ ToSet(three) = ToSet(two) \cup ToSet(StopsTemporarily)
  <2> HIDE DEF two
  <2> QED BY <1>1, ChainTypes, ToSetConcat, ConcatProperties
<1>3. ToSet(three \o Stops) = ToSet(three) \cup ToSet(Stops)
  <2> HIDE DEF three
  <2> QED BY <1>2, ChainTypes, ToSetConcat
<1>4. ToSet(Initialize \o Starts \o StopsTemporarily \o Stops)
        = ToSet(Initialize) \cup ToSet(Starts) \cup ToSet(StopsTemporarily) \cup ToSet(Stops)
  BY <1>1, <1>2, <1>3
<1> QED BY <1>4, PhasesAre DEF ApplicationState, NotHandled

LEMMA FirstPhases ==
    /\ ToSet(SubSeq(Initialize, 1, 6)) = {"ShardStart", "CreateModules",
         "StartInitialize", "RegisterBasicServices", "BeforeCallCustomInitializeFunctions",
         "CallingCustomIntializeFunctions"}
    /\ BeforeServer = ToSet(Initialize) \ {"AfterInitialized"}
<1>1. ASSUME NEW n \in 1 .. 13
      PROVE  ToSet(SubSeq(Initialize, 1, n)) = {Initialize[i] : i \in 1 .. n}
  <2>1. Initialize \in Seq(Names) /\ Len(Initialize) = 13
    BY ChainTypes
  <2>2. /\ SubSeq(Initialize, 1, n) \in Seq(Names) /\ Len(SubSeq(Initialize, 1, n)) = n
        /\ \A i \in 1 .. n : SubSeq(Initialize, 1, n)[i] = Initialize[i]
    <3>1. \A i \in 1 .. 13 : Initialize[i] \in Names
      BY DEF Initialize, Names
    <3> QED BY <3>1, SubSeqProperties
  <2>3. DOMAIN SubSeq(Initialize, 1, n) = 1 .. n
    BY <2>2, LenProperties
  <2> QED BY <2>2, <2>3 DEF ToSet
<1>2. {Initialize[i] : i \in 1 .. 6} = {"ShardStart", "CreateModules",
         "StartInitialize", "RegisterBasicServices", "BeforeCallCustomInitializeFunctions",
         "CallingCustomIntializeFunctions"}
  BY DEF Initialize
<1>3. {Initialize[i] : i \in 1 .. 12} = ToSet(Initialize) \ {"AfterInitialized"}
  BY PhasesAre DEF Initialize
<1> QED BY <1>1, <1>2, <1>3 DEF BeforeServer

LEMMA NamesAre == Names = Phases \cup Links /\ "none" \notin Names
BY ApplicationStates DEF Names, Phases, Links, NotHandled

-----------------------------------------------------------------------------
(* Types *)

CallType == [op : AllOperations \cup {"idle"}, todo : Seq(Names), phase : Phases \cup {"none"},
             at : [Shards -> Nat], threw : SUBSET Shards]

Types ==
    /\ state \in ApplicationState /\ shardData \in BOOLEAN /\ exiting \in BOOLEAN
    /\ factories \in 0 .. MaxModules /\ modules \in [Shards -> 0 .. MaxModules]
    /\ server \in [Shards -> {"none", "constructed", "running", "startedTwice", "stopped"}]
    /\ call \in [Callers -> CallType]

LEMMA IdleType == Idle \in CallType
BY DEF Idle, CallType

LEMMA LinkChains == \A op \in AllOperations :
    /\ Chain(op) \in Seq(Names)
    /\ \A i \in DOMAIN Chain(op) : Chain(op)[i] \notin Phases \cup {"destroy"}
<1> SUFFICES ASSUME NEW op \in AllOperations
             PROVE  /\ Chain(op) \in Seq(Names)
                    /\ \A i \in DOMAIN Chain(op) : Chain(op)[i] \notin Phases \cup {"destroy"}
  OBVIOUS
<1> USE ApplicationStates DEF Chain, Names, Phases, NotHandled
<1>1. CASE op = "start"
  BY <1>1
<1>2. CASE op = "stopTemporary"
  BY <1>2
<1>3. CASE op = "stop"
  BY <1>3
<1>4. CASE op = "runForever"
  BY <1>4
<1> QED BY <1>1, <1>2, <1>3, <1>4 DEF AllOperations

LEMMA GuardedChains == \A link \in Guarded :
    /\ PhasesOf(link) \in Seq(Names) /\ PhasesOf(link) # <<>>
    /\ PhasesOf(link) \in {Starts, StopsTemporarily, Stops \o <<"destroy">>}
    /\ Head(PhasesOf(link)) \in {"BeforeStart", "BeforeTemporaryStop", "BeforeStop"}
<1>1. Starts # <<>> /\ Head(Starts) = "BeforeStart"
  BY DEF Starts
<1>2. StopsTemporarily # <<>> /\ Head(StopsTemporarily) = "BeforeTemporaryStop"
  BY DEF StopsTemporarily
<1>3. LET chain == Stops \o <<"destroy">>
      IN  chain \in Seq(Names) /\ chain # <<>> /\ Head(chain) = "BeforeStop"
  <2> DEFINE chain == Stops \o <<"destroy">>
  <2>1. chain \in Seq(Names) /\ Len(chain) = 4 /\ chain[1] = "BeforeStop"
    BY StopsChain, ChainTypes, ConcatProperties
  <2> HIDE DEF chain
  <2>2. chain # <<>> /\ Head(chain) = "BeforeStop"
    BY <2>1
  <2> QED BY <2>1, <2>2 DEF chain
<1> QED BY <1>1, <1>2, <1>3, ChainTypes DEF PhasesOf, Guarded

-----------------------------------------------------------------------------
(* Chains *)

(* One phase or link in front of the others *)
LEMMA PathElements ==
    ASSUME NEW S, NEW p \in S, NEW t \in Seq(S)
    PROVE  /\ <<p>> \o t \in Seq(S) /\ Len(<<p>> \o t) = Len(t) + 1
           /\ (<<p>> \o t)[1] = p
           /\ \A i \in 1 .. Len(t) : (<<p>> \o t)[i + 1] = t[i]
           /\ \A i \in 2 .. Len(t) + 1 : (<<p>> \o t)[i] = t[i - 1]
<1> DEFINE one == <<p>>
<1>1. one \in Seq(S) /\ Len(one) = 1 /\ one[1] = p
  OBVIOUS
<1> HIDE DEF one
<1>2. /\ one \o t \in Seq(S) /\ Len(one \o t) = 1 + Len(t)
      /\ \A i \in 1 .. 1 + Len(t) : (one \o t)[i] = IF i <= 1 THEN one[i] ELSE t[i - 1]
  <2>1. /\ one \o t \in Seq(S) /\ Len(one \o t) = Len(one) + Len(t)
        /\ \A i \in 1 .. Len(one) + Len(t) :
             (one \o t)[i] = IF i <= Len(one) THEN one[i] ELSE t[i - Len(one)]
    BY <1>1, ConcatProperties
  <2> QED BY <1>1, <2>1
<1>3. Len(t) \in Nat
  BY LenProperties
<1> QED BY <1>1, <1>2, <1>3 DEF one

PathNames == Names \cup {"none"}

LEMMA MovingFacts ==
    /\ Moving \subseteq Phases /\ Phases \subseteq Names
    /\ \A p, q : Follows(p, q) => p \in Moving /\ q \in Phases \cup {"destroy"}
    /\ "none" \notin Phases /\ Resting \cap Moving = {}
    /\ Links \cap Phases = {}
<1>1. \A p, q : Follows(p, q) => p \in Moving /\ q \in Phases \cup {"destroy"}
  BY FollowsCases, ApplicationStates DEF Moving, Phases, Resting, NotHandled
<1> QED BY <1>1, NamesAre, ApplicationStates DEF Moving, Phases, NotHandled, Links

(* A chain with nothing left but links *)
LEMMA QuietChain ==
    ASSUME NEW p \in PathNames \ Moving, NEW t \in Seq(Names),
           \A i \in DOMAIN t : t[i] \notin Phases \cup {"destroy"}
    PROVE  WellChained(<<p>> \o t)
<1> DEFINE path == <<p>> \o t
<1>1. /\ DOMAIN path = 1 .. Len(t) + 1 /\ path[1] = p /\ Len(t) \in Nat
      /\ \A i \in 2 .. Len(t) + 1 : path[i] = t[i - 1]
  <2>1. t \in Seq(PathNames)
    BY DEF PathNames
  <2>2. /\ path \in Seq(PathNames) /\ Len(path) = Len(t) + 1 /\ path[1] = p
        /\ \A i \in 2 .. Len(t) + 1 : path[i] = t[i - 1]
    BY <2>1, PathElements
  <2> QED BY <2>2, LenProperties
<1> HIDE DEF path
<1>2. \A i \in 2 .. Len(t) + 1 : i - 1 \in DOMAIN t
  BY <1>1
<1>3. \A i \in 2 .. Len(t) + 1 : path[i] \notin Phases \cup {"destroy"}
  BY <1>1, <1>2
<1>4. \A i \in DOMAIN path : path[i] \notin Moving
  BY <1>1, <1>3, MovingFacts
<1>5. \A i, j \in DOMAIN path : i < j => path[j] \notin Phases \cup {"destroy"}
  BY <1>1, <1>3
<1>6. WellChained(path)
  BY <1>4, <1>5 DEF WellChained
<1> QED BY <1>6 DEF path

(* A chain that has gone one link further *)
LEMMA ChainTail ==
    ASSUME NEW p \in PathNames, NEW t \in Seq(Names), WellChained(<<p>> \o t)
    PROVE  WellChained(t)
<1> DEFINE path == <<p>> \o t
<1>1. t \in Seq(PathNames)
  BY DEF PathNames
<1>2. /\ path \in Seq(PathNames) /\ Len(path) = Len(t) + 1
      /\ \A i \in 1 .. Len(t) : path[i + 1] = t[i]
  BY <1>1, PathElements
<1>3. DOMAIN path = 1 .. Len(t) + 1 /\ Len(t) \in Nat /\ DOMAIN t = 1 .. Len(t)
  BY <1>2, LenProperties
<1>4. WellChained(path)
  OBVIOUS
<1> HIDE DEF path
<1>5. ASSUME NEW i \in DOMAIN t, t[i] \in Moving
      PROVE  i < Len(t) /\ Follows(t[i], t[i + 1])
  <2>1. i + 1 \in DOMAIN path /\ path[i + 1] = t[i]
    BY <1>2, <1>3
  <2>2. i + 1 < Len(path) /\ Follows(path[i + 1], path[i + 1 + 1])
    BY <1>4, <1>5, <2>1 DEF WellChained
  <2>3. i < Len(t) /\ i + 1 \in 1 .. Len(t)
    BY <1>2, <1>3, <2>2
  <2>4. path[i + 1 + 1] = t[i + 1]
    BY <1>2, <2>3
  <2> QED BY <2>1, <2>2, <2>3, <2>4
<1>6. ASSUME NEW i \in DOMAIN t, NEW j \in DOMAIN t, i < j, t[i] \notin Moving
      PROVE  t[j] \notin Phases \cup {"destroy"}
  <2>1. /\ i + 1 \in DOMAIN path /\ path[i + 1] = t[i]
        /\ j + 1 \in DOMAIN path /\ path[j + 1] = t[j] /\ i + 1 < j + 1
    BY <1>2, <1>3, <1>6
  <2> QED BY <1>4, <1>6, <2>1 DEF WellChained
<1> QED BY <1>5, <1>6 DEF WellChained

(* The phase of a call and the links behind it *)
LEMMA ChainHead ==
    ASSUME NEW p \in PathNames, NEW t \in Seq(Names), WellChained(<<p>> \o t)
    PROVE  /\ p \in Moving => t # <<>> /\ Follows(p, Head(t))
           /\ p \notin Moving => \A i \in DOMAIN t : t[i] \notin Phases \cup {"destroy"}
<1> DEFINE path == <<p>> \o t
<1>1. t \in Seq(PathNames)
  BY DEF PathNames
<1>2. /\ path \in Seq(PathNames) /\ Len(path) = Len(t) + 1 /\ path[1] = p
      /\ \A i \in 1 .. Len(t) : path[i + 1] = t[i]
  BY <1>1, PathElements
<1>3. DOMAIN path = 1 .. Len(t) + 1 /\ Len(t) \in Nat /\ DOMAIN t = 1 .. Len(t)
  BY <1>2, LenProperties
<1>4. WellChained(path)
  OBVIOUS
<1> HIDE DEF path
<1>5. CASE p \in Moving
  <2>0. 1 \in DOMAIN path /\ path[1] \in Moving
    BY <1>2, <1>3, <1>5
  <2>1. 1 < Len(path) /\ Follows(path[1], path[1 + 1])
    BY <1>4, <2>0 DEF WellChained
  <2>2. 1 \in 1 .. Len(t) /\ t # <<>>
    BY <1>2, <1>3, <2>1
  <2>3. path[1 + 1] = t[1] /\ Head(t) = t[1]
    BY <1>2, <2>2
  <2> QED BY <1>2, <1>5, <2>1, <2>2, <2>3
<1>6. CASE p \notin Moving
  <2> SUFFICES ASSUME NEW i \in DOMAIN t PROVE t[i] \notin Phases \cup {"destroy"}
    BY <1>6
  <2>1. 1 \in DOMAIN path /\ i + 1 \in DOMAIN path /\ 1 < i + 1 /\ path[i + 1] = t[i]
    BY <1>2, <1>3
  <2> QED BY <1>2, <1>4, <1>6, <2>1 DEF WellChained
<1> QED BY <1>5, <1>6

(* The phases of an operation in front of the links that come after it *)
LEMMA EnteredPath ==
    ASSUME NEW chain \in Seq(Names), chain # <<>>,
           \A i \in 1 .. Len(chain) - 1 : chain[i] \in Moving /\ Follows(chain[i], chain[i + 1]),
           chain[Len(chain)] \notin Moving,
           NEW rest \in Seq(Names),
           \A i \in DOMAIN rest : rest[i] \notin Phases \cup {"destroy"}
    PROVE  /\ Head(chain) \in Names /\ Tail(chain) \o rest \in Seq(Names)
           /\ WellChained(<<Head(chain)>> \o (Tail(chain) \o rest))
<1> DEFINE n == Len(chain)
           tail == Tail(chain)
           path == <<chain[1]>> \o (tail \o rest)
<1>1. n \in Nat \ {0} /\ Head(chain) = chain[1] /\ DOMAIN chain = 1 .. n
      /\ Len(rest) \in Nat /\ DOMAIN rest = 1 .. Len(rest)
  BY EmptySeq, LenProperties
<1>2. /\ tail \in Seq(Names) /\ Len(tail) = n - 1 /\ chain[1] \in Names
      /\ \A i \in 1 .. n - 1 : tail[i] = chain[i + 1]
  BY <1>1, HeadTailProperties
<1>3. /\ tail \o rest \in Seq(Names) /\ Len(tail \o rest) = (n - 1) + Len(rest)
      /\ \A i \in 1 .. (n - 1) + Len(rest) :
           (tail \o rest)[i] = IF i <= n - 1 THEN tail[i] ELSE rest[i - (n - 1)]
  <2> HIDE DEF tail, n
  <2>1. /\ tail \o rest \in Seq(Names) /\ Len(tail \o rest) = Len(tail) + Len(rest)
        /\ \A i \in 1 .. Len(tail) + Len(rest) :
             (tail \o rest)[i] = IF i <= Len(tail) THEN tail[i] ELSE rest[i - Len(tail)]
    <3>1. tail \in Seq(Names)
      BY <1>2
    <3> QED BY <3>1, ConcatProperties, ZenonT(30)
  <2> QED BY <1>2, <2>1
<1>4. /\ path \in Seq(Names) /\ Len(path) = n + Len(rest) /\ path[1] = chain[1]
      /\ \A i \in 2 .. n + Len(rest) : path[i] = (tail \o rest)[i - 1]
  <2> DEFINE t == tail \o rest
  <2>1. t \in Seq(Names) /\ Len(t) = (n - 1) + Len(rest) /\ n \in Nat /\ Len(rest) \in Nat
    BY <1>1, <1>3
  <2> HIDE DEF t, n
  <2>2. /\ <<chain[1]>> \o t \in Seq(Names) /\ Len(<<chain[1]>> \o t) = Len(t) + 1
        /\ (<<chain[1]>> \o t)[1] = chain[1]
        /\ \A i \in 2 .. Len(t) + 1 : (<<chain[1]>> \o t)[i] = t[i - 1]
    BY <1>2, <2>1, PathElements
  <2>3. Len(t) + 1 = n + Len(rest)
    BY <2>1
  <2> QED BY <2>2, <2>3 DEF t
<1>5. DOMAIN path = 1 .. n + Len(rest)
  BY <1>4, LenProperties
<1> HIDE DEF path, tail, n
<1>6. \A i \in 1 .. n : path[i] = chain[i]
  <2> SUFFICES ASSUME NEW i \in 1 .. n, i # 1 PROVE path[i] = chain[i]
    BY <1>4
  <2>1. i \in 2 .. n + Len(rest) /\ i - 1 \in 1 .. n - 1 /\ i - 1 \in 1 .. (n - 1) + Len(rest)
    BY <1>1
  <2>2. path[i] = (tail \o rest)[i - 1] /\ (tail \o rest)[i - 1] = tail[i - 1]
    BY <1>3, <1>4, <2>1
  <2>3. tail[i - 1] = chain[(i - 1) + 1] /\ (i - 1) + 1 = i
    BY <1>2, <2>1
  <2> QED BY <2>2, <2>3
<1>7. \A i \in DOMAIN path : i > n => path[i] \notin Phases \cup {"destroy"}
  <2> SUFFICES ASSUME NEW i \in DOMAIN path, i > n PROVE path[i] \notin Phases \cup {"destroy"}
    OBVIOUS
  <2>1. i \in 2 .. n + Len(rest) /\ i - 1 \in 1 .. (n - 1) + Len(rest) /\ ~(i - 1 <= n - 1)
        /\ (i - 1) - (n - 1) \in DOMAIN rest
    BY <1>1, <1>5
  <2>2. path[i] = rest[(i - 1) - (n - 1)]
    BY <1>3, <1>4, <2>1
  <2> QED BY <2>1, <2>2
<1>8. \A i \in 1 .. n - 1 : path[i] \in Moving /\ Follows(path[i], path[i + 1])
  <2> SUFFICES ASSUME NEW i \in 1 .. n - 1
               PROVE  path[i] \in Moving /\ Follows(path[i], path[i + 1])
    OBVIOUS
  <2>1. i \in 1 .. n /\ i + 1 \in 1 .. n
    BY <1>1
  <2> QED BY <1>6, <2>1 DEF n
<1>9. path[n] \notin Moving
  BY <1>1, <1>6 DEF n
<1>10. ASSUME NEW i \in DOMAIN path, path[i] \in Moving
       PROVE  i < Len(path) /\ Follows(path[i], path[i + 1])
  <2>1. i \in 1 .. n - 1
    BY <1>1, <1>5, <1>7, <1>9, <1>10, MovingFacts
  <2> QED BY <1>1, <1>4, <1>8, <2>1
<1>11. ASSUME NEW i \in DOMAIN path, NEW j \in DOMAIN path, i < j, path[i] \notin Moving
       PROVE  path[j] \notin Phases \cup {"destroy"}
  <2>1. ~(i \in 1 .. n - 1)
    BY <1>8, <1>11
  <2>2. j > n
    BY <1>1, <1>5, <1>11, <2>1
  <2> QED BY <1>7, <2>2
<1>12. WellChained(path)
  BY <1>10, <1>11 DEF WellChained
<1> QED BY <1>1, <1>2, <1>3, <1>12 DEF path, tail

LEMMA EnteredChain ==
    ASSUME NEW chain \in {Initialize, Starts, StopsTemporarily, Stops \o <<"destroy">>},
           NEW rest \in Seq(Names),
           \A i \in DOMAIN rest : rest[i] \notin Phases \cup {"destroy"}
    PROVE  /\ Head(chain) \in Names /\ Tail(chain) \o rest \in Seq(Names)
           /\ WellChained(<<Head(chain)>> \o (Tail(chain) \o rest))
<1>1. \A i \in 1 .. Len(chain) - 1 : chain[i] \in Moving /\ Follows(chain[i], chain[i + 1])
  BY MovingFacts, Zenon DEF Follows
<1>2. chain \in Seq(Names) /\ chain # <<>> /\ chain[Len(chain)] \notin Moving
  <2>1. chain = Initialize \/ chain = Starts \/ chain = StopsTemporarily \/ chain = Stops \o <<"destroy">>
    OBVIOUS
  <2>2. CASE chain = Initialize
    BY <2>2, ChainTypes DEF Initialize, Moving, Resting
  <2>3. CASE chain = Starts
    BY <2>3, ChainTypes DEF Starts, Moving, Resting
  <2>4. CASE chain = StopsTemporarily
    BY <2>4, ChainTypes DEF StopsTemporarily, Moving, Resting
  <2>5. CASE chain = Stops \o <<"destroy">>
    <3>1. chain \in Seq(Names) /\ Len(chain) = 4 /\ chain[4] = "destroy"
      BY <2>5, StopsChain, ChainTypes, ConcatProperties
    <3>2. "destroy" \notin Moving
      BY ApplicationStates DEF Moving, Phases, NotHandled
    <3>3. chain # <<>>
      BY <2>5, GuardedChains DEF Guarded, PhasesOf
    <3>4. chain[Len(chain)] = "destroy"
      BY <3>1, Zenon
    <3> QED BY <3>1, <3>2, <3>3, <3>4
  <2> QED BY <2>1, <2>2, <2>3, <2>4, <2>5
<1> QED BY <1>1, <1>2, EnteredPath

LEMMA NextLink ==
    ASSUME NEW t \in Seq(Names), t # <<>>
    PROVE  /\ Head(t) \in Names /\ Tail(t) \in Seq(Names)
           /\ <<Head(t)>> \o Tail(t) = t
           /\ Head(<<Head(t)>>) = Head(t) /\ Tail(<<Head(t)>>) \o Tail(t) = Tail(t)
<1>1. /\ Head(t) \in Names /\ Tail(t) \in Seq(Names) /\ Len(Tail(t)) = Len(t) - 1
      /\ \A i \in 1 .. Len(Tail(t)) : Tail(t)[i] = t[i + 1]
  BY HeadTailProperties
<1>2. Len(t) \in Nat \ {0} /\ Head(t) = t[1]
  BY EmptySeq
<1>3. <<Head(t)>> \o Tail(t) = t
  <2> DEFINE h == Head(t)
             r == Tail(t)
  <2>1. h \in Names /\ r \in Seq(Names) /\ Len(r) = Len(t) - 1 /\ h = t[1]
        /\ \A i \in 1 .. Len(r) : r[i] = t[i + 1]
    BY <1>1, <1>2
  <2> HIDE DEF h, r
  <2>2. /\ <<h>> \o r \in Seq(Names) /\ Len(<<h>> \o r) = Len(r) + 1
        /\ (<<h>> \o r)[1] = h
        /\ \A i \in 2 .. Len(r) + 1 : (<<h>> \o r)[i] = r[i - 1]
    BY <2>1, PathElements
  <2>3. Len(<<h>> \o r) = Len(t)
    BY <1>2, <2>1, <2>2
  <2>4. ASSUME NEW i \in 1 .. Len(<<h>> \o r) PROVE (<<h>> \o r)[i] = t[i]
    <3>1. CASE i = 1
      BY <3>1, <2>1, <2>2
    <3>2. CASE i # 1
      <4>1. i \in 2 .. Len(r) + 1 /\ i - 1 \in 1 .. Len(r)
        BY <1>2, <2>1, <2>3, <3>2
      <4>2. (<<h>> \o r)[i] = r[i - 1] /\ r[i - 1] = t[(i - 1) + 1] /\ (i - 1) + 1 = i
        BY <2>1, <2>2, <4>1
      <4> QED BY <4>2
    <3> QED BY <3>1, <3>2
  <2>5. <<h>> \o r = t
    <3> DEFINE u == <<h>> \o r
    <3>1. u \in Seq(Names) /\ Len(u) = Len(t) /\ \A i \in 1 .. Len(u) : u[i] = t[i]
      BY <2>2, <2>3, <2>4
    <3> HIDE DEF u
    <3>2. u = t
      BY <3>1, SeqEqual
    <3> QED BY <3>2 DEF u
  <2> QED BY <2>5 DEF h, r
<1>4. Head(<<Head(t)>>) = Head(t) /\ Tail(<<Head(t)>>) = <<>>
  BY <1>1
<1> QED BY <1>1, <1>3, <1>4, ConcatEmptySeq

(* Behind a link that is no phase there are only links.                    *)
LEMMA LinksBehind ==
    ASSUME NEW p \in PathNames, NEW t \in Seq(Names), t # <<>>, WellChained(<<p>> \o t)
    PROVE  /\ WellChained(<<Head(t)>> \o Tail(t))
           /\ Head(t) \notin Phases =>
                \A i \in DOMAIN Tail(t) : Tail(t)[i] \notin Phases \cup {"destroy"}
           /\ Head(t) \in Phases \cup {"destroy"} <=> p \in Moving
           /\ p \in Moving => Follows(p, Head(t))
<1>1. Head(t) \in Names /\ Tail(t) \in Seq(Names) /\ <<Head(t)>> \o Tail(t) = t
  BY NextLink
<1>2. WellChained(<<Head(t)>> \o Tail(t))
  BY <1>1, ChainTail
<1>3. Head(t) \in PathNames
  BY <1>1 DEF PathNames
<1>4. Head(t) \notin Moving =>
        \A i \in DOMAIN Tail(t) : Tail(t)[i] \notin Phases \cup {"destroy"}
  BY <1>1, <1>2, <1>3, ChainHead
<1>5. p \in Moving => Follows(p, Head(t))
  BY ChainHead
<1>6. p \notin Moving => Head(t) \notin Phases \cup {"destroy"}
  <2>1. p \notin Moving => \A i \in DOMAIN t : t[i] \notin Phases \cup {"destroy"}
    BY ChainHead
  <2>2. 1 \in DOMAIN t /\ Head(t) = t[1]
    BY EmptySeq
  <2> QED BY <2>1, <2>2
<1> QED BY <1>2, <1>4, <1>5, <1>6, MovingFacts

-----------------------------------------------------------------------------
(* The calls *)

Path(k) == <<k.phase>> \o k.todo

StateOf(phase) == IF phase \in NotHandled THEN "StartInitialize" ELSE phase

LEMMA CallFields ==
    ASSUME NEW k \in CallType
    PROVE  /\ k.phase \in PathNames /\ k.phase \in Phases \cup {"none"}
           /\ k.todo \in Seq(Names) /\ k.at \in [Shards -> Nat] /\ k.threw \subseteq Shards
           /\ k.op \in AllOperations \cup {"idle"}
BY MovingFacts DEF CallType, PathNames

LEMMA IdlePath == WellChained(Path(Idle)) /\ Idle.phase = "none" /\ "none" \notin Moving
<1>1. Idle.phase = "none" /\ Idle.todo = <<>>
  BY DEF Idle
<1>2. "none" \in PathNames \ Moving /\ <<>> \in Seq(Names)
  BY MovingFacts DEF PathNames
<1>3. \A i \in DOMAIN <<>> : <<>>[i] \notin Phases \cup {"destroy"}
  OBVIOUS
<1> QED BY <1>1, <1>2, <1>3, QuietChain DEF Path

(* A step that changes the call of c alone *)
LEMMA OneCall ==
    ASSUME call \in [Callers -> CallType], NEW c \in Callers, NEW k \in CallType,
           call' = [call EXCEPT ![c] = k]
    PROVE  /\ call' \in [Callers -> CallType] /\ call'[c] = k
           /\ \A d \in Callers : d # c => call'[d] = call[d]
OBVIOUS

(* The lock is kept when the state is only changed by its holder, and only *)
(* taken when nobody holds it.                                             *)
LEMMA DriverKept ==
    ASSUME Types, DriverInv, NEW c \in Callers, NEW k \in CallType,
           call' = [call EXCEPT ![c] = k],
           WellChained(Path(k)),
           k.phase \in Moving => shardData' /\ state' = StateOf(k.phase),
           \/ call[c].phase \in Moving
           \/ \A d \in Callers : call[d].phase \notin Moving
           \/ k.phase \notin Moving /\ UNCHANGED <<state, shardData>>
    PROVE  DriverInv'
<1>1. /\ call' \in [Callers -> CallType] /\ call'[c] = k
      /\ \A d \in Callers : d # c => call'[d] = call[d]
  BY OneCall DEF Types
<1>2. /\ \A d \in Callers : WellChained(<<call[d].phase>> \o call[d].todo)
      /\ \A d \in Callers : call[d].phase \in Moving => shardData /\ state = StateOf(call[d].phase)
      /\ \A d, e \in Callers : call[d].phase \in Moving /\ call[e].phase \in Moving => d = e
  BY DEF DriverInv, StateOf
<1>3. \A d \in Callers : WellChained(<<call'[d].phase>> \o call'[d].todo)
  BY <1>1, <1>2 DEF Path
<1>4. ASSUME NEW d \in Callers, call'[d].phase \in Moving
      PROVE  shardData' /\ state' = StateOf(call'[d].phase)
  <2>1. CASE d = c
    BY <1>1, <2>1, <1>4
  <2>2. CASE d # c
    <3>1. call[d].phase \in Moving /\ UNCHANGED <<state, shardData>>
      BY <1>1, <1>2, <1>4, <2>2
    <3> QED BY <1>1, <1>2, <2>2, <3>1
  <2> QED BY <2>1, <2>2
<1>5. ASSUME NEW d \in Callers, NEW e \in Callers, call'[d].phase \in Moving, call'[e].phase \in Moving
      PROVE  d = e
  BY <1>1, <1>2, <1>5
<1> QED BY <1>3, <1>4, <1>5 DEF DriverInv, StateOf

-----------------------------------------------------------------------------
(* The inductive invariant *)

(* No loop over the modules of a core runs past them.                      *)
Bounded == \A c \in Callers, s \in Shards :
    call[c].phase # "none" => call[c].at[s] <= Beyond(c, s)

AppInv == Types /\ Bounded /\ DriverInv /\ StepInv

LEMMA WorkingPhases ==
    /\ NotHandled \subseteq Moving
    /\ {"CallingCustomIntializeFunctions", "AfterServicesRegistered", "Starting", "Stopping", "BeforeStop"}
         \subseteq Moving \ NotHandled
BY ApplicationStates DEF Moving, Phases, NotHandled, Resting

LEMMA InitInv == Init => AppInv
<1> SUFFICES ASSUME Init PROVE AppInv
  OBVIOUS
<1>1. Types
  <2>1. call \in [Callers -> CallType]
    BY IdleType DEF Init
  <2>2. state \in ApplicationState
    BY ApplicationStates DEF Init
  <2>3. factories \in 0 .. MaxModules /\ modules \in [Shards -> 0 .. MaxModules]
    BY ApplicationAssumption DEF Init
  <2> QED BY <2>1, <2>2, <2>3 DEF Types, Init
<1>2. \A c \in Callers : call[c].phase = "none" /\ call[c] = Idle
  BY DEF Init, Idle
<1>3. Bounded
  BY <1>2 DEF Bounded
<1>4. DriverInv
  <2>1. \A c \in Callers : WellChained(<<call[c].phase>> \o call[c].todo) /\ call[c].phase \notin Moving
    BY <1>2, IdlePath DEF Path
  <2> QED BY <2>1 DEF DriverInv
<1>5. StepInv
  <2>1. state = "StartInitialize" /\ \A s \in Shards : server[s] = "none" /\ modules[s] = 0 /\ factories = 0
    BY DEF Init
  <2>2. \A c \in Callers : call[c].phase = "none"
    BY <1>2
  <2> QED BY <2>1, <2>2, FirstPhases, PhasesAre
          DEF StepInv, CoreInv, ModulesAgree, Up, ServerUp
<1> QED BY <1>1, <1>3, <1>4, <1>5 DEF AppInv

(* A core goes on: the call is in the same phase as before.                *)
LEMMA AtMoves ==
    ASSUME Types, DriverInv, NEW c \in Callers, NEW s \in Shards, Advance(c, s),
           UNCHANGED <<state, shardData>>
    PROVE  /\ call' \in [Callers -> CallType] /\ DriverInv'
           /\ \A d \in Callers : call'[d].phase = call[d].phase
           /\ \A d \in Callers, r \in Shards :
                call'[d].at[r] = IF d = c /\ r = s THEN call[c].at[s] + 1 ELSE call[d].at[r]
<1> DEFINE k == [call[c] EXCEPT !.at = [call[c].at EXCEPT ![s] = call[c].at[s] + 1]]
<1>1. call' = [call EXCEPT ![c] = k]
  BY DEF Advance
<1>2. call[c] \in CallType
  BY DEF Types
<1>3. /\ k \in CallType /\ k.phase = call[c].phase /\ k.todo = call[c].todo
      /\ \A r \in Shards : k.at[r] = IF r = s THEN call[c].at[s] + 1 ELSE call[c].at[r]
  <2> DEFINE a == [call[c].at EXCEPT ![s] = call[c].at[s] + 1]
  <2>1. call[c].at \in [Shards -> Nat]
    BY <1>2, CallFields
  <2>2. a \in [Shards -> Nat]
        /\ \A r \in Shards : a[r] = IF r = s THEN call[c].at[s] + 1 ELSE call[c].at[r]
    BY <2>1
  <2> HIDE DEF a
  <2>3. /\ [call[c] EXCEPT !.at = a] \in CallType
        /\ [call[c] EXCEPT !.at = a].phase = call[c].phase
        /\ [call[c] EXCEPT !.at = a].todo = call[c].todo
        /\ [call[c] EXCEPT !.at = a].at = a
    BY <1>2, <2>2 DEF CallType
  <2> QED BY <2>2, <2>3 DEF a
<1> HIDE DEF k
<1>4. WellChained(Path(k)) /\ (k.phase \in Moving => shardData' /\ state' = StateOf(k.phase))
  BY <1>3 DEF DriverInv, Path, StateOf
<1>5. DriverInv'
  BY <1>1, <1>3, <1>4, DriverKept
<1>6. /\ call' \in [Callers -> CallType] /\ call'[c] = k
      /\ \A d \in Callers : d # c => call'[d] = call[d]
  BY <1>1, <1>3, OneCall DEF Types
<1> QED BY <1>3, <1>5, <1>6

LEMMA ThrowMoves ==
    ASSUME Types, DriverInv, NEW c \in Callers, NEW s \in Shards,
           call' = [call EXCEPT ![c].threw = @ \cup {s}],
           UNCHANGED <<state, shardData>>
    PROVE  /\ call' \in [Callers -> CallType] /\ DriverInv'
           /\ \A d \in Callers : call'[d].phase = call[d].phase /\ call'[d].at = call[d].at
<1> DEFINE k == [call[c] EXCEPT !.threw = call[c].threw \cup {s}]
<1>1. call' = [call EXCEPT ![c] = k]
  OBVIOUS
<1>2. call[c] \in CallType
  BY DEF Types
<1>3. k \in CallType /\ k.phase = call[c].phase /\ k.todo = call[c].todo /\ k.at = call[c].at
  BY <1>2 DEF CallType
<1> HIDE DEF k
<1>4. WellChained(Path(k)) /\ (k.phase \in Moving => shardData' /\ state' = StateOf(k.phase))
  BY <1>3 DEF DriverInv, Path, StateOf
<1>5. DriverInv'
  BY <1>1, <1>3, <1>4, DriverKept
<1>6. /\ call' \in [Callers -> CallType] /\ call'[c] = k
      /\ \A d \in Callers : d # c => call'[d] = call[d]
  BY <1>1, <1>3, OneCall DEF Types
<1> QED BY <1>3, <1>5, <1>6

LEMMA BoundedKept ==
    ASSUME Types, Bounded, NEW c \in Callers, NEW s \in Shards, Busy(c, s),
           modules' \in [Shards -> Nat], \A r \in Shards : modules[r] <= modules'[r],
           \A d \in Callers : call'[d].phase = call[d].phase,
           \A d \in Callers, r \in Shards :
             call'[d].at[r] = (IF d = c /\ r = s THEN call[c].at[s] + 1 ELSE call[d].at[r])
    PROVE  Bounded'
<1> SUFFICES ASSUME NEW d \in Callers, NEW r \in Shards, call'[d].phase # "none"
             PROVE  call'[d].at[r] <= Beyond(d, r)'
  BY DEF Bounded
<1>1. call[d].at[r] \in Nat /\ modules[r] \in Nat /\ modules'[r] \in Nat /\ call[c].at[s] \in Nat
  BY CallFields, ApplicationAssumption DEF Types
<1>2. Beyond(d, r) \in Nat /\ Beyond(d, r)' \in Nat /\ Beyond(d, r) <= Beyond(d, r)'
  BY <1>1 DEF Beyond
<1>3. call[d].at[r] <= Beyond(d, r)
  BY DEF Bounded
<1>4. CASE d = c /\ r = s
  BY <1>1, <1>2, <1>4 DEF Busy
<1>5. CASE ~(d = c /\ r = s)
  BY <1>1, <1>2, <1>3, <1>5
<1> QED BY <1>4, <1>5

(* What the invariant says when c is in a phase of an operation            *)
LEMMA Holder ==
    ASSUME DriverInv, NEW c \in Callers, call[c].phase \in Moving
    PROVE  /\ shardData /\ state = StateOf(call[c].phase)
           /\ \A d \in Callers : d # c => call[d].phase \notin Moving
BY DEF DriverInv, StateOf

LEMMA CreateStep ==
    ASSUME AppInv, NEW c \in Callers, NEW s \in Shards, CreateOnShard(c, s)
    PROVE  AppInv'
<1>1. /\ Types /\ Bounded /\ DriverInv /\ StepInv
      /\ Busy(c, s) /\ call[c].phase \in NotHandled /\ Advance(c, s)
      /\ UNCHANGED <<state, shardData, factories, server, exiting>>
      /\ modules' = IF call[c].phase = "CreateModules" THEN [modules EXCEPT ![s] = factories] ELSE modules
  BY DEF AppInv, CreateOnShard
<1>2. /\ call' \in [Callers -> CallType] /\ DriverInv'
      /\ \A d \in Callers : call'[d].phase = call[d].phase
      /\ \A d \in Callers, r \in Shards :
           call'[d].at[r] = IF d = c /\ r = s THEN call[c].at[s] + 1 ELSE call[d].at[r]
  BY <1>1, AtMoves
<1>3. modules' \in [Shards -> 0 .. MaxModules]
  BY <1>1 DEF Types
<1>4. Types'
  BY <1>1, <1>2, <1>3 DEF Types
<1>5. \A r \in Shards : modules[r] <= modules'[r] /\ modules'[r] <= factories /\ modules[r] \in Nat
                         /\ modules'[r] \in Nat
  BY <1>1, <1>3, ApplicationAssumption DEF Types, StepInv
<1>6. Bounded'
  BY <1>1, <1>2, <1>3, <1>5, ApplicationAssumption, BoundedKept
<1>7. call[c].phase \in Moving /\ state = "StartInitialize"
  BY <1>1, WorkingPhases, Holder DEF StateOf
<1>8. StepInv'
  <2>1. CoreInv'
    <3> SUFFICES ASSUME NEW d \in Callers
                 PROVE  call'[d].phase \notin {"CallingCustomIntializeFunctions",
                          "AfterServicesRegistered", "Starting", "Stopping"}
      BY Zenon DEF CoreInv
    <3>1. CASE d = c
      BY <1>1, <1>2, <3>1 DEF NotHandled
    <3>2. CASE d # c
      BY <1>1, <1>2, <1>7, <3>2, Holder, WorkingPhases
    <3> QED BY <3>1, <3>2
  <2>2. state' = "StartInitialize"
    BY <1>1, <1>7
  <2>3. /\ state' \notin ApplicationState \ ToSet(SubSeq(Initialize, 1, 6))
        /\ state' \in BeforeServer /\ state' \notin ServerUp /\ state' # "AfterStopped"
    BY <2>2, FirstPhases, PhasesAre DEF ServerUp
  <2>4. \A r \in Shards : server'[r] \in Up => modules'[r] >= ServerModule
    BY <1>1, <1>5, ApplicationAssumption DEF StepInv, HasServer
  <2> QED BY <1>1, <1>5, <2>1, <2>3, <2>4 DEF StepInv, ModulesAgree, HasServer
<1> QED BY <1>2, <1>4, <1>6, <1>8 DEF AppInv

LEMMA StepKept ==
    ASSUME StepInv, CoreInv', UNCHANGED <<state, factories, modules, server>>
    PROVE  StepInv'
BY DEF StepInv, ModulesAgree, HasServer

LEMMA ThrowKeeps ==
    ASSUME AppInv, NEW c \in Callers, NEW s \in Shards,
           call' = [call EXCEPT ![c].threw = @ \cup {s}],
           UNCHANGED <<state, shardData, factories, modules, server, exiting>>
    PROVE  AppInv'
<1>1. Types /\ Bounded /\ DriverInv /\ StepInv
  BY DEF AppInv
<1>2. /\ call' \in [Callers -> CallType] /\ DriverInv'
      /\ \A d \in Callers : call'[d].phase = call[d].phase /\ call'[d].at = call[d].at
  BY <1>1, ThrowMoves
<1>3. Types'
  BY <1>1, <1>2 DEF Types
<1>4. Bounded'
  BY <1>1, <1>2 DEF Bounded, Beyond
<1>5. StepInv'
  <2>1. CoreInv'
    BY <1>1, <1>2 DEF StepInv, CoreInv, HasServer
  <2> QED BY <1>1, <2>1, StepKept
<1> QED BY <1>2, <1>3, <1>4, <1>5 DEF AppInv

LEMMA CustomStep ==
    ASSUME AppInv, NEW c \in Callers, NEW s \in Shards, CustomInitialize(c, s)
    PROVE  AppInv'
<1>1. /\ Types /\ Bounded /\ DriverInv /\ StepInv
      /\ Busy(c, s) /\ call[c].phase = "CallingCustomIntializeFunctions"
      /\ UNCHANGED <<state, shardData, factories, modules, server, exiting>>
  BY DEF AppInv, CustomInitialize
<1>2. CASE factories # modules[s]
  BY <1>1, <1>2, ThrowKeeps DEF CustomInitialize
<1>3. CASE factories = modules[s]
  <2>1. Advance(c, s)
    BY <1>3 DEF CustomInitialize
  <2>2. /\ call' \in [Callers -> CallType] /\ DriverInv'
        /\ \A d \in Callers : call'[d].phase = call[d].phase
        /\ \A d \in Callers, r \in Shards :
             call'[d].at[r] = IF d = c /\ r = s THEN call[c].at[s] + 1 ELSE call[d].at[r]
    BY <1>1, <2>1, AtMoves
  <2>3. Types'
    BY <1>1, <2>2 DEF Types
  <2>4. modules' \in [Shards -> Nat] /\ \A r \in Shards : modules[r] <= modules'[r]
    BY <1>1, ApplicationAssumption DEF Types
  <2>5. Bounded'
    BY <1>1, <2>2, <2>4, BoundedKept
  <2>6. CoreInv'
    <3> SUFFICES ASSUME NEW d \in Callers, NEW r \in Shards
                 PROVE  /\ call'[d].phase = "CallingCustomIntializeFunctions" /\ call'[d].at[r] > 0
                             => modules'[r] = factories'
                        /\ modules'[r] >= ServerModule /\ call'[d].at[r] > ServerModule =>
                             /\ call'[d].phase = "AfterServicesRegistered" => server'[r] # "none"
                             /\ call'[d].phase = "Starting" => server'[r] \in Up
                             /\ call'[d].phase = "Stopping" => server'[r] = "stopped"
      BY DEF CoreInv, HasServer
    <3>1. CASE d = c /\ r = s
      BY <1>1, <1>3, <2>2, <3>1
    <3>2. CASE ~(d = c /\ r = s)
      BY <1>1, <2>2, <3>2 DEF StepInv, CoreInv, HasServer
    <3> QED BY <3>1, <3>2
  <2>7. StepInv'
    BY <1>1, <2>6, StepKept
  <2> QED BY <2>2, <2>3, <2>5, <2>7 DEF AppInv
<1> QED BY <1>2, <1>3

LEMMA ReachStep ==
    ASSUME AppInv, NEW c \in Callers, NEW s \in Shards, Reach(c, s)
    PROVE  AppInv'
<1>1. /\ Types /\ Bounded /\ DriverInv /\ StepInv
      /\ Busy(c, s) /\ call[c].phase # "CallingCustomIntializeFunctions" /\ call[c].at[s] = 0
      /\ Advance(c, s)
      /\ UNCHANGED <<state, shardData, factories, modules, server, exiting>>
  BY DEF AppInv, Reach
<1>2. /\ call' \in [Callers -> CallType] /\ DriverInv'
      /\ \A d \in Callers : call'[d].phase = call[d].phase
      /\ \A d \in Callers, r \in Shards :
           call'[d].at[r] = IF d = c /\ r = s THEN call[c].at[s] + 1 ELSE call[d].at[r]
  BY <1>1, AtMoves
<1>3. Types'
  BY <1>1, <1>2 DEF Types
<1>4. modules' \in [Shards -> Nat] /\ \A r \in Shards : modules[r] <= modules'[r]
  BY <1>1, ApplicationAssumption DEF Types
<1>5. Bounded'
  BY <1>1, <1>2, <1>4, BoundedKept
<1>6. CoreInv'
  <2> SUFFICES ASSUME NEW d \in Callers, NEW r \in Shards
               PROVE  /\ call'[d].phase = "CallingCustomIntializeFunctions" /\ call'[d].at[r] > 0
                           => modules'[r] = factories'
                      /\ modules'[r] >= ServerModule /\ call'[d].at[r] > ServerModule =>
                           /\ call'[d].phase = "AfterServicesRegistered" => server'[r] # "none"
                           /\ call'[d].phase = "Starting" => server'[r] \in Up
                           /\ call'[d].phase = "Stopping" => server'[r] = "stopped"
    BY DEF CoreInv, HasServer
  <2>1. CASE d = c /\ r = s
    <3>1. call'[d].at[r] = 1 /\ ~(call'[d].at[r] > ServerModule)
      BY <1>1, <1>2, <2>1, ApplicationAssumption
    <3> QED BY <1>1, <1>2, <2>1, <3>1
  <2>2. CASE ~(d = c /\ r = s)
    BY <1>1, <1>2, <2>2 DEF StepInv, CoreInv, HasServer
  <2> QED BY <2>1, <2>2
<1>7. StepInv'
  BY <1>1, <1>6, StepKept
<1> QED BY <1>2, <1>3, <1>5, <1>7 DEF AppInv

LEMMA HandleStep ==
    ASSUME AppInv, NEW c \in Callers, NEW s \in Shards, HandleDone(c, s)
    PROVE  AppInv'
<1> DEFINE phase == call[c].phase
<1>1. /\ Types /\ Bounded /\ DriverInv /\ StepInv
      /\ Busy(c, s) /\ phase \in ApplicationState \ {"CallingCustomIntializeFunctions"}
      /\ call[c].at[s] > 0
      /\ server' = IF call[c].at[s] = ServerModule
                   THEN [server EXCEPT ![s] = ServerHandles(s, phase)] ELSE server
      /\ Advance(c, s)
      /\ UNCHANGED <<state, shardData, factories, modules, exiting>>
  BY DEF AppInv, HandleDone
<1>2. /\ call' \in [Callers -> CallType] /\ DriverInv'
      /\ \A d \in Callers : call'[d].phase = call[d].phase
      /\ \A d \in Callers, r \in Shards :
           call'[d].at[r] = IF d = c /\ r = s THEN call[c].at[s] + 1 ELSE call[d].at[r]
  BY <1>1, AtMoves
<1>3. /\ call[c].at[s] \in Nat /\ modules[s] \in Nat /\ ServerModule \in Nat \ {0}
      /\ call[c].at[s] <= modules[s]
  <2>1. call[c].at[s] \in Nat /\ modules[s] \in Nat /\ ServerModule \in Nat \ {0}
    BY <1>1, CallFields, ApplicationAssumption DEF Types
  <2>2. Beyond(c, s) = modules[s] + 1
    BY <1>1 DEF Beyond, ApplicationState
  <2> QED BY <1>1, <2>1, <2>2 DEF Busy
<1>4. /\ server' \in [Shards -> {"none", "constructed", "running", "startedTwice", "stopped"}]
      /\ \A r \in Shards : r # s \/ call[c].at[s] # ServerModule => server'[r] = server[r]
      /\ call[c].at[s] = ServerModule => server'[s] = ServerHandles(s, phase)
  <2>1. ServerHandles(s, phase) \in {"none", "constructed", "running", "startedTwice", "stopped"}
    BY <1>1 DEF ServerHandles, Types
  <2> QED BY <1>1, <2>1 DEF Types
<1>5. Types'
  BY <1>1, <1>2, <1>4 DEF Types
<1>6. modules' \in [Shards -> Nat] /\ \A r \in Shards : modules[r] <= modules'[r]
  BY <1>1, ApplicationAssumption DEF Types
<1>7. Bounded'
  BY <1>1, <1>2, <1>6, BoundedKept
<1>8. \/ server'[s] = server[s]
      \/ /\ modules[s] >= ServerModule
         /\ \/ phase = "AfterServicesRegistered" /\ server'[s] = "constructed"
            \/ phase = "Starting" /\ server'[s] \in Up
            \/ phase = "Stopping" /\ server'[s] = "stopped"
  <2>1. CASE call[c].at[s] # ServerModule
    BY <1>4, <2>1
  <2>2. CASE call[c].at[s] = ServerModule
    BY <1>3, <1>4, <2>2 DEF ServerHandles, Up
  <2> QED BY <2>1, <2>2
<1>9. ASSUME call[c].at[s] = ServerModule
      PROVE  /\ phase = "AfterServicesRegistered" => server'[s] # "none"
             /\ phase = "Starting" => server'[s] \in Up
             /\ phase = "Stopping" => server'[s] = "stopped"
  BY <1>4, <1>9 DEF ServerHandles, Up
<1>10. phase \in {"AfterServicesRegistered", "Starting", "Stopping"} =>
        /\ state = phase
        /\ \A d \in Callers : d # c => call[d].phase \notin Moving
  BY <1>1, WorkingPhases, Holder DEF StateOf
<1>11. CoreInv'
  <2> SUFFICES ASSUME NEW d \in Callers, NEW r \in Shards
               PROVE  /\ call'[d].phase = "CallingCustomIntializeFunctions" /\ call'[d].at[r] > 0
                           => modules'[r] = factories'
                      /\ modules'[r] >= ServerModule /\ call'[d].at[r] > ServerModule =>
                           /\ call'[d].phase = "AfterServicesRegistered" => server'[r] # "none"
                           /\ call'[d].phase = "Starting" => server'[r] \in Up
                           /\ call'[d].phase = "Stopping" => server'[r] = "stopped"
    BY DEF CoreInv, HasServer
  <2>0. /\ call[d].phase = "CallingCustomIntializeFunctions" /\ call[d].at[r] > 0
             => modules[r] = factories
        /\ modules[r] >= ServerModule /\ call[d].at[r] > ServerModule =>
             /\ call[d].phase = "AfterServicesRegistered" => server[r] # "none"
             /\ call[d].phase = "Starting" => server[r] \in Up
             /\ call[d].phase = "Stopping" => server[r] = "stopped"
    BY <1>1 DEF StepInv, CoreInv, HasServer
  <2>1. CASE d = c /\ r = s
    <3>1. CASE call[c].at[s] = ServerModule
      BY <1>1, <1>2, <1>9, <2>1, <3>1
    <3>2. CASE call[c].at[s] # ServerModule
      <4>0. call'[c].at[s] = call[c].at[s] + 1
        BY <1>2
      <4>1. server'[s] = server[s] /\ (call'[c].at[s] > ServerModule => call[c].at[s] > ServerModule)
        BY <1>3, <1>4, <3>2, <4>0
      <4> QED BY <1>1, <1>2, <2>0, <2>1, <4>1
    <3> QED BY <3>1, <3>2
  <2>2. CASE r # s
    BY <1>1, <1>2, <1>4, <2>0, <2>2
  <2>3. CASE d # c /\ r = s
    <3>1. CASE server'[s] = server[s]
      BY <1>1, <1>2, <2>0, <2>3, <3>1
    <3>2. CASE server'[s] # server[s]
      <4>1. call[d].phase \notin Moving
        BY <1>8, <1>10, <2>3, <3>2
      <4> QED BY <1>2, <4>1, WorkingPhases
    <3> QED BY <3>1, <3>2
  <2> QED BY <2>1, <2>2, <2>3
<1>12. StepInv'
  <2>1. ModulesAgree'
    BY <1>1 DEF StepInv, ModulesAgree
  <2> SUFFICES ASSUME NEW r \in Shards
               PROVE  /\ modules'[r] <= factories'
                      /\ server'[r] \in Up => modules'[r] >= ServerModule
                      /\ modules'[r] >= ServerModule /\ state' \notin BeforeServer => server'[r] # "none"
                      /\ modules'[r] >= ServerModule /\ state' \in ServerUp => server'[r] \in Up
                      /\ state' = "AfterStopped" => server'[r] \notin Up
    BY <1>11, <2>1 DEF StepInv, HasServer
  <2>2. /\ modules[r] <= factories
        /\ server[r] \in Up => modules[r] >= ServerModule
        /\ modules[r] >= ServerModule /\ state \notin BeforeServer => server[r] # "none"
        /\ modules[r] >= ServerModule /\ state \in ServerUp => server[r] \in Up
        /\ state = "AfterStopped" => server[r] \notin Up
    BY <1>1 DEF StepInv, HasServer
  <2>3. CASE server'[r] = server[r]
    BY <1>1, <2>2, <2>3
  <2>4. CASE server'[r] # server[r]
    <3>1. r = s
      BY <1>4, <2>4
    <3>2. \A p \in {"AfterServicesRegistered", "Starting", "Stopping"} : p \notin ServerUp /\ p # "AfterStopped"
      BY PhasesAre DEF ServerUp
    <3>3. state \notin ServerUp /\ state # "AfterStopped" /\ modules[s] >= ServerModule /\ server'[s] # "none"
      BY <1>8, <1>10, <2>4, <3>1, <3>2 DEF Up
    <3> QED BY <1>1, <2>2, <3>1, <3>3
  <2> QED BY <2>3, <2>4
<1> QED BY <1>2, <1>5, <1>7, <1>12 DEF AppInv

LEMMA ShardKeeps ==
    ASSUME AppInv, NEW c \in Callers, NEW s \in Shards, ShardStep(c, s)
    PROVE  AppInv'
<1>1. Throws(c, s) => AppInv'
  BY ThrowKeeps DEF Throws
<1> QED BY <1>1, CreateStep, CustomStep, ReachStep, HandleStep DEF ShardStep

-----------------------------------------------------------------------------
(* The steps of a chain *)

(* A step of the chain of c: the call becomes k.                           *)
LEMMA ChainKeeps ==
    ASSUME AppInv, NEW c \in Callers, NEW k \in CallType,
           call' = [call EXCEPT ![c] = k],
           WellChained(Path(k)),
           k.phase \in Moving => shardData' /\ state' = StateOf(k.phase),
           \/ call[c].phase \in Moving
           \/ \A d \in Callers : call[d].phase \notin Moving
           \/ k.phase \notin Moving /\ UNCHANGED <<state, shardData>>,
           \/ \A s \in Shards : k.at[s] = 0
           \/ k.phase = "none"
           \/ k.phase = call[c].phase /\ k.at = call[c].at,
           state' \in ApplicationState, shardData' \in BOOLEAN,
           UNCHANGED <<factories, modules, server, exiting>>
    PROVE  /\ Types' /\ Bounded' /\ DriverInv' /\ CoreInv'
           /\ UNCHANGED state => AppInv'
<1>1. Types /\ Bounded /\ DriverInv /\ StepInv
  BY DEF AppInv
<1>2. DriverInv'
  BY <1>1, DriverKept
<1>3. /\ call' \in [Callers -> CallType] /\ call'[c] = k
      /\ \A d \in Callers : d # c => call'[d] = call[d]
  BY <1>1, OneCall DEF Types
<1>4. Types'
  BY <1>1, <1>3 DEF Types
<1>5. Bounded'
  <2> SUFFICES ASSUME NEW d \in Callers, NEW s \in Shards, call'[d].phase # "none"
               PROVE  call'[d].at[s] <= Beyond(d, s)'
    BY DEF Bounded
  <2>1. CASE call'[d].phase = call[d].phase /\ call'[d].at = call[d].at
    BY <1>1, <2>1 DEF Bounded, Beyond
  <2>2. CASE call'[d].at[s] = 0
    <3>1. modules[s] \in Nat
      BY <1>1, ApplicationAssumption DEF Types
    <3> QED BY <2>2, <3>1 DEF Beyond
  <2> QED BY <1>3, <2>1, <2>2
<1>6. CoreInv'
  <2> SUFFICES ASSUME NEW d \in Callers, NEW s \in Shards
               PROVE  /\ call'[d].phase = "CallingCustomIntializeFunctions" /\ call'[d].at[s] > 0
                           => modules'[s] = factories'
                      /\ modules'[s] >= ServerModule /\ call'[d].at[s] > ServerModule =>
                           /\ call'[d].phase = "AfterServicesRegistered" => server'[s] # "none"
                           /\ call'[d].phase = "Starting" => server'[s] \in Up
                           /\ call'[d].phase = "Stopping" => server'[s] = "stopped"
    BY DEF CoreInv, HasServer
  <2>1. CASE call'[d].phase = call[d].phase /\ call'[d].at = call[d].at
    BY <1>1, <2>1 DEF StepInv, CoreInv, HasServer
  <2>2. CASE call'[d].at[s] = 0
    <3>1. ~(call'[d].at[s] > 0) /\ ~(call'[d].at[s] > ServerModule)
      BY <2>2, ApplicationAssumption
    <3> QED BY <3>1
  <2>3. CASE call'[d].phase = "none"
    BY <2>3
  <2> QED BY <1>3, <2>1, <2>2, <2>3
<1>7. UNCHANGED state => StepInv'
  BY <1>1, <1>6, StepKept
<1> QED BY <1>2, <1>4, <1>5, <1>6, <1>7 DEF AppInv

(* The call is over, with or without an exception.                         *)
LEMMA FailKeeps ==
    ASSUME AppInv, NEW c \in Callers, Fail(c),
           UNCHANGED <<state, shardData, factories, modules, server, exiting>>
    PROVE  AppInv'
<1>1. Idle \in CallType /\ WellChained(Path(Idle)) /\ Idle.phase = "none" /\ "none" \notin Moving
  BY IdleType, IdlePath
<1>2. call' = [call EXCEPT ![c] = Idle]
  BY DEF Fail
<1>3. state' \in ApplicationState /\ shardData' \in BOOLEAN
  BY DEF AppInv, Types
<1> QED BY <1>1, <1>2, <1>3, ChainKeeps

(* The link that comes next                                                *)
LEMMA LinkFacts ==
    ASSUME AppInv, NEW c \in Callers, Link(c) \in Names
    PROVE  /\ call[c].todo \in Seq(Names) /\ call[c].todo # <<>> /\ Link(c) = Head(call[c].todo)
           /\ Rest(c) \in Seq(Names) /\ WellChained(<<Link(c)>> \o Rest(c))
           /\ Link(c) \notin Phases =>
                \A i \in DOMAIN Rest(c) : Rest(c)[i] \notin Phases \cup {"destroy"}
           /\ Link(c) \in Phases \cup {"destroy"} <=> call[c].phase \in Moving
           /\ call[c].phase \in Moving => Follows(call[c].phase, Link(c))
           /\ Head(<<Link(c)>>) = Link(c) /\ Tail(<<Link(c)>>) \o Rest(c) = Rest(c)
           /\ call[c] \in CallType /\ call[c].phase \in PathNames
<1>1. call[c] \in CallType
  BY DEF AppInv, Types
<1>2. call[c].todo \in Seq(Names) /\ call[c].phase \in PathNames
  BY <1>1, CallFields
<1>3. "end" \notin Names
  BY DEF Names
<1>4. call[c].todo # <<>> /\ Link(c) = Head(call[c].todo) /\ Rest(c) = Tail(call[c].todo)
  BY <1>3 DEF Link, Rest
<1>5. WellChained(<<call[c].phase>> \o call[c].todo)
  BY DEF AppInv, DriverInv
<1> DEFINE p == call[c].phase
           t == call[c].todo
<1>6. p \in PathNames /\ t \in Seq(Names) /\ t # <<>> /\ WellChained(<<p>> \o t)
  BY <1>2, <1>4, <1>5
<1> HIDE DEF p, t
<1>7. /\ Head(t) \in Names /\ Tail(t) \in Seq(Names)
      /\ Head(<<Head(t)>>) = Head(t) /\ Tail(<<Head(t)>>) \o Tail(t) = Tail(t)
  BY <1>6, NextLink
<1>8. /\ WellChained(<<Head(t)>> \o Tail(t))
      /\ Head(t) \notin Phases =>
           \A i \in DOMAIN Tail(t) : Tail(t)[i] \notin Phases \cup {"destroy"}
      /\ Head(t) \in Phases \cup {"destroy"} <=> p \in Moving
      /\ p \in Moving => Follows(p, Head(t))
  BY <1>6, LinksBehind
<1>9. Link(c) = Head(t) /\ Rest(c) = Tail(t) /\ call[c].phase = p /\ call[c].todo = t
  BY <1>4 DEF p, t
<1> QED BY <1>1, <1>6, <1>7, <1>8, <1>9, Zenon

(* updateState(): what is left of the invariant is about the new state.    *)
LEMMA EnterKeeps ==
    ASSUME AppInv, NEW c \in Callers, NEW phases, NEW rest, Enter(c, phases, rest),
           Head(phases) \in Phases, Tail(phases) \o rest \in Seq(Names),
           WellChained(<<Head(phases)>> \o (Tail(phases) \o rest)),
           Head(phases) \in NotHandled => state = "StartInitialize",
           call[c].phase \in Moving \/ \A d \in Callers : call[d].phase \notin Moving,
           shardData' \in BOOLEAN, UNCHANGED <<factories, modules, server, exiting>>
    PROVE  /\ Types' /\ Bounded' /\ DriverInv' /\ CoreInv' /\ state' = StateOf(Head(phases))
           /\ UNCHANGED state => AppInv'
<1> DEFINE p == Head(phases)
           t == Tail(phases) \o rest
           entered == [Idle EXCEPT !.op = call[c].op, !.phase = p, !.todo = t]
<1>1. state' = StateOf(p) /\ state' \in ApplicationState
  BY ApplicationStates DEF Enter, StateOf, Phases
<1>2. /\ entered \in CallType /\ entered.phase = p /\ entered.todo = t
      /\ \A s \in Shards : entered.at[s] = 0
  <2> HIDE DEF p, t
  <2>1. call[c].op \in AllOperations \cup {"idle"} /\ p \in Phases /\ t \in Seq(Names)
    BY CallFields DEF AppInv, Types, p, t
  <2> QED BY <2>1 DEF CallType, Idle
<1> DEFINE k == IF shardData' THEN entered ELSE Idle
<1>3. call' = [call EXCEPT ![c] = k]
  BY DEF Enter, Fail
<1> HIDE DEF entered
<1>4. /\ k \in CallType /\ WellChained(Path(k))
      /\ k.phase \in Moving => shardData' /\ state' = StateOf(k.phase)
      /\ k.phase = "none" \/ \A s \in Shards : k.at[s] = 0
  <2>1. CASE shardData'
    BY <1>1, <1>2, <2>1 DEF Path
  <2>2. CASE ~shardData'
    BY <2>2, IdleType, IdlePath
  <2> QED BY <2>1, <2>2
<1> HIDE DEF k, p, t
<1> QED BY <1>1, <1>3, <1>4, ChainKeeps DEF p

LEMMA NextPhaseStep ==
    ASSUME AppInv, NEW c \in Callers, NextPhase(c)
    PROVE  AppInv'
<1> DEFINE p == call[c].phase
           q == Link(c)
<1>1. /\ Succeeded(c) /\ q \in Phases /\ Enter(c, <<q>>, Rest(c))
      /\ UNCHANGED <<shardData, factories, modules, server, exiting>>
  BY DEF NextPhase
<1>2. q \in Names
  BY <1>1, MovingFacts
<1>3. /\ Rest(c) \in Seq(Names) /\ WellChained(<<q>> \o Rest(c))
      /\ p \in Moving /\ Follows(p, q)
      /\ Head(<<q>>) = q /\ Tail(<<q>>) \o Rest(c) = Rest(c)
  BY <1>1, <1>2, LinkFacts
<1>4. shardData /\ state = StateOf(p)
  BY <1>3, Holder DEF AppInv
<1>5. q \in NotHandled => state = "StartInitialize"
  BY <1>3, <1>4, FollowsCases DEF NotHandled, StateOf
<1>6. shardData' \in BOOLEAN
  BY <1>1 DEF AppInv, Types
<1>7. /\ Types' /\ Bounded' /\ DriverInv' /\ CoreInv' /\ state' = StateOf(q)
      /\ UNCHANGED state => AppInv'
  <2> DEFINE phases == <<q>>
  <2>1. Head(phases) = q /\ Tail(phases) \o Rest(c) = Rest(c) /\ Enter(c, phases, Rest(c))
    BY <1>1, <1>3
  <2> HIDE DEF phases, q
  <2> QED BY <1>1, <1>3, <1>5, <1>6, <2>1, EnterKeeps
<1>8. CASE q \in NotHandled
  BY <1>5, <1>7, <1>8 DEF StateOf
<1>9. CASE q \notin NotHandled
  <2>1. state' = q
    BY <1>7, <1>9 DEF StateOf
  <2>2. /\ StepInv /\ Types /\ CoreInv
        /\ \A s \in Shards : call[c].at[s] >= Beyond(c, s)
    <3>1. p # "none"
      BY <1>3, MovingFacts
    <3>2. \A s \in Shards : call[c].at[s] \in Nat /\ modules[s] \in Nat
      BY CallFields, ApplicationAssumption DEF AppInv, Types
    <3>3. \A s \in Shards : Beyond(c, s) \in Nat
      BY <3>2 DEF Beyond
    <3> QED BY <1>1, <3>1, <3>2, <3>3 DEF Succeeded, Returned, Busy, AppInv, StepInv
  <2>3. ASSUME NEW s \in Shards
        PROVE  /\ p = "CallingCustomIntializeFunctions" => modules[s] = factories
               /\ modules[s] >= ServerModule =>
                    /\ p = "AfterServicesRegistered" => server[s] # "none"
                    /\ p = "Starting" => server[s] \in Up
                    /\ p = "Stopping" => server[s] = "stopped"
    <3>1. call[c].at[s] \in Nat /\ modules[s] \in Nat /\ ServerModule \in Nat
      BY CallFields, ApplicationAssumption DEF AppInv, Types
    <3>2. /\ p = "CallingCustomIntializeFunctions" => call[c].at[s] > 0
          /\ p \in {"AfterServicesRegistered", "Starting", "Stopping"} =>
               call[c].at[s] > modules[s]
      BY <2>2, <3>1, WorkingPhases DEF Beyond
    <3> QED BY <2>2, <3>1, <3>2 DEF CoreInv, HasServer
  <2>4. ModulesAgree'
    <3> SUFFICES ASSUME NEW s \in Shards, q \in ApplicationState \ ToSet(SubSeq(Initialize, 1, 6))
                 PROVE  modules[s] = factories
      BY <1>1, <2>1 DEF ModulesAgree
    <3>1. \/ p = "CallingCustomIntializeFunctions"
          \/ state \in ApplicationState \ ToSet(SubSeq(Initialize, 1, 6))
      BY <1>3, <1>4, FollowsCases, FirstPhases, ApplicationStates DEF StateOf, NotHandled
    <3> QED BY <2>2, <2>3, <3>1 DEF StepInv, ModulesAgree
  <2>5. ASSUME NEW s \in Shards
        PROVE  /\ modules[s] <= factories
               /\ server[s] \in Up => modules[s] >= ServerModule
               /\ modules[s] >= ServerModule /\ q \notin BeforeServer => server[s] # "none"
               /\ modules[s] >= ServerModule /\ q \in ServerUp => server[s] \in Up
               /\ q = "AfterStopped" => server[s] \notin Up
    <3>1. /\ modules[s] <= factories
          /\ server[s] \in Up => modules[s] >= ServerModule
          /\ modules[s] >= ServerModule /\ state \notin BeforeServer => server[s] # "none"
          /\ modules[s] >= ServerModule /\ state \in ServerUp => server[s] \in Up
      BY <2>2 DEF StepInv, HasServer
    <3>2. q \notin BeforeServer => p = "AfterServicesRegistered" \/ state \notin BeforeServer
      BY <1>3, <1>4, FollowsCases, FirstPhases, PhasesAre DEF StateOf, NotHandled
    <3>3. q \in ServerUp => p = "Starting" \/ state \in ServerUp
      BY <1>3, <1>4, FollowsCases, PhasesAre DEF StateOf, NotHandled, ServerUp
    <3>4. q = "AfterStopped" => p = "Stopping"
      BY <1>3, FollowsCases
    <3> QED BY <2>3, <3>1, <3>2, <3>3, <3>4 DEF Up
  <2>6. StepInv'
    BY <1>1, <1>7, <2>1, <2>4, <2>5 DEF StepInv, HasServer
  <2> QED BY <1>7, <2>6 DEF AppInv
<1> QED BY <1>8, <1>9

LEMMA EnsureStep ==
    ASSUME AppInv, NEW c \in Callers, EnsureInitialized(c)
    PROVE  AppInv'
<1>1. /\ Succeeded(c) /\ Link(c) = "ensureInitialized"
      /\ UNCHANGED <<factories, modules, server, exiting>>
  BY DEF EnsureInitialized
<1>2. Link(c) \in Names /\ Link(c) \notin Phases \cup {"destroy"}
  BY <1>1, ApplicationStates DEF Names, Phases, NotHandled
<1>3. /\ Rest(c) \in Seq(Names) /\ call[c].phase \in PathNames \ Moving /\ call[c] \in CallType
      /\ \A i \in DOMAIN Rest(c) : Rest(c)[i] \notin Phases \cup {"destroy"}
  BY <1>2, LinkFacts
<1>4. state \in ApplicationState /\ shardData \in BOOLEAN
  BY DEF AppInv, Types
<1>5. CASE call' = [call EXCEPT ![c].todo = Rest(c)] /\ UNCHANGED <<state, shardData>>
  <2> DEFINE k == [call[c] EXCEPT !.todo = Rest(c)]
  <2>1. call' = [call EXCEPT ![c] = k]
    BY <1>5
  <2>2. k \in CallType /\ k.phase = call[c].phase /\ k.todo = Rest(c) /\ k.at = call[c].at
    BY <1>3 DEF CallType
  <2> HIDE DEF k
  <2>3. WellChained(Path(k)) /\ k.phase \notin Moving
    BY <1>3, <2>2, QuietChain DEF Path
  <2> QED BY <1>1, <1>4, <1>5, <2>1, <2>2, <2>3, ChainKeeps
<1>6. CASE Fail(c) /\ UNCHANGED <<state, shardData>>
  BY <1>1, <1>6, FailKeeps
<1>7. CASE /\ state = "StartInitialize" /\ ~shardData /\ shardData' = TRUE
           /\ Enter(c, Initialize, Rest(c))
  <2>1. \A d \in Callers : call[d].phase \notin Moving
    BY <1>7 DEF AppInv, DriverInv
  <2>2. Head(Initialize) = "ShardStart"
    BY DEF Initialize
  <2>3. Head(Initialize) \in NotHandled /\ Head(Initialize) \in Phases
    BY <2>2 DEF NotHandled, Phases
  <2>4. /\ Tail(Initialize) \o Rest(c) \in Seq(Names)
        /\ WellChained(<<Head(Initialize)>> \o (Tail(Initialize) \o Rest(c)))
    BY <1>3, EnteredChain
  <2>5. /\ Types' /\ Bounded' /\ DriverInv' /\ CoreInv' /\ state' = StateOf(Head(Initialize))
        /\ UNCHANGED state => AppInv'
    <3>1. shardData' \in BOOLEAN /\ state = "StartInitialize"
      BY <1>7
    <3> QED BY <1>1, <1>7, <2>1, <2>3, <2>4, <3>1, EnterKeeps
  <2>6. UNCHANGED state
    BY <1>7, <2>3, <2>5 DEF StateOf
  <2> QED BY <2>5, <2>6
<1> QED BY <1>5, <1>6, <1>7 DEF EnsureInitialized

LEMMA AcceptStep ==
    ASSUME AppInv, NEW c \in Callers, Accept(c)
    PROVE  AppInv'
<1> DEFINE link == Link(c)
           q == Head(PhasesOf(link))
<1>1. /\ link \in Guarded /\ state \in AcceptedIn(link) /\ Enter(c, PhasesOf(link), Rest(c))
      /\ UNCHANGED <<shardData, factories, modules, server, exiting>>
  BY DEF Accept
<1>2. link \in Names /\ link \notin Phases \cup {"destroy"}
  BY <1>1, ApplicationStates DEF Guarded, Names, Phases, NotHandled
<1>3. /\ Rest(c) \in Seq(Names)
      /\ \A i \in DOMAIN Rest(c) : Rest(c)[i] \notin Phases \cup {"destroy"}
  BY <1>2, LinkFacts
<1>4. \/ q = "BeforeStart" /\ state \in {"AfterInitialized", "AfterTemporaryStopped"}
      \/ q = "BeforeTemporaryStop" /\ state = "AfterStarted"
      \/ q = "BeforeStop" /\ state \in {"AfterStarted", "AfterTemporaryStopped"}
  <2>1. Head(Starts) = "BeforeStart" /\ Head(StopsTemporarily) = "BeforeTemporaryStop"
    BY DEF Starts, StopsTemporarily
  <2>2. Head(Stops \o <<"destroy">>) = "BeforeStop"
    <3> DEFINE chain == Stops \o <<"destroy">>
    <3>1. chain \in Seq(Names) /\ Len(chain) = 4 /\ chain[1] = "BeforeStop"
      BY StopsChain, ChainTypes, ConcatProperties
    <3> HIDE DEF chain
    <3>2. Head(chain) = "BeforeStop"
      BY <3>1
    <3> QED BY <3>2 DEF chain
  <2>3. CASE link = "startImpl"
    BY <1>1, <2>1, <2>3 DEF PhasesOf, AcceptedIn
  <2>4. CASE link = "stopTemporaryImpl"
    BY <1>1, <2>1, <2>4 DEF PhasesOf, AcceptedIn
  <2>5. CASE link = "stopImpl"
    BY <1>1, <2>2, <2>5 DEF PhasesOf, AcceptedIn
  <2> QED BY <1>1, <2>3, <2>4, <2>5 DEF Guarded
<1>5. \A d \in Callers : call[d].phase \notin Moving
  <2>1. state \in Resting
    BY <1>4 DEF Resting
  <2>2. \A d \in Callers : call[d].phase \in Moving => StateOf(call[d].phase) \notin Resting
    BY MovingFacts DEF StateOf, Resting
  <2> QED BY <2>1, <2>2, Holder DEF AppInv
<1>6. /\ Tail(PhasesOf(link)) \o Rest(c) \in Seq(Names)
      /\ WellChained(<<q>> \o (Tail(PhasesOf(link)) \o Rest(c)))
  <2> DEFINE chain == PhasesOf(link)
  <2>1. chain \in {Initialize, Starts, StopsTemporarily, Stops \o <<"destroy">>}
    BY <1>1, GuardedChains
  <2> HIDE DEF chain
  <2>2. /\ Tail(chain) \o Rest(c) \in Seq(Names)
        /\ WellChained(<<Head(chain)>> \o (Tail(chain) \o Rest(c)))
    BY <1>3, <2>1, EnteredChain
  <2> QED BY <2>2 DEF chain
<1>7. q \in Phases /\ q \notin NotHandled
  BY <1>4, ApplicationStates DEF Phases, NotHandled
<1>8. /\ Types' /\ Bounded' /\ DriverInv' /\ CoreInv' /\ state' = q
  <2> DEFINE chain == PhasesOf(link)
  <2>1. /\ Enter(c, chain, Rest(c)) /\ Head(chain) = q
        /\ Tail(chain) \o Rest(c) \in Seq(Names) /\ WellChained(<<q>> \o (Tail(chain) \o Rest(c)))
    BY <1>1, <1>6
  <2>2. shardData' \in BOOLEAN
    BY <1>1 DEF AppInv, Types
  <2>3. StateOf(q) = q
    BY <1>7 DEF StateOf
  <2> HIDE DEF chain, q, link
  <2> QED BY <1>1, <1>5, <1>7, <2>1, <2>2, <2>3, EnterKeeps
<1>9. StepInv'
  <2>1. StepInv
    BY DEF AppInv
  <2>2. ModulesAgree'
    <3>1. state \in ApplicationState \ ToSet(SubSeq(Initialize, 1, 6))
      BY <1>4, FirstPhases, ApplicationStates
    <3> QED BY <1>1, <2>1, <3>1 DEF StepInv, ModulesAgree
  <2>3. state \notin BeforeServer /\ q # "AfterStopped" /\ (q \in ServerUp => state \in ServerUp)
    BY <1>4, FirstPhases, PhasesAre DEF ServerUp
  <2>4. ASSUME NEW s \in Shards
        PROVE  /\ modules[s] <= factories
               /\ server[s] \in Up => modules[s] >= ServerModule
               /\ modules[s] >= ServerModule => server[s] # "none"
               /\ modules[s] >= ServerModule /\ q \in ServerUp => server[s] \in Up
    BY <2>1, <2>3 DEF StepInv, HasServer
  <2> QED BY <1>1, <1>8, <2>2, <2>3, <2>4 DEF StepInv, HasServer
<1> QED BY <1>8, <1>9 DEF AppInv

(* The links after which the call is in no phase: destroy and waitExit.    *)
LEMMA LeaveKeeps ==
    ASSUME AppInv, NEW c \in Callers, Link(c) \in {"destroy", "waitExit"},
           call' = [call EXCEPT ![c].todo = Rest(c), ![c].phase = "none"],
           UNCHANGED <<state, factories, modules, server, exiting>>,
           shardData' \in BOOLEAN, Link(c) = "destroy" \/ UNCHANGED shardData
    PROVE  AppInv'
<1>1. Link(c) \in Names /\ Link(c) \notin Phases
  BY ApplicationStates DEF Names, Phases, NotHandled
<1>2. /\ Rest(c) \in Seq(Names) /\ call[c] \in CallType
      /\ \A i \in DOMAIN Rest(c) : Rest(c)[i] \notin Phases \cup {"destroy"}
      /\ Link(c) = "destroy" => call[c].phase \in Moving
  BY <1>1, LinkFacts
<1> DEFINE k == [call[c] EXCEPT !.todo = Rest(c), !.phase = "none"]
<1>3. call' = [call EXCEPT ![c] = k]
  BY <1>2 DEF AppInv, Types
<1>4. k \in CallType /\ k.phase = "none" /\ k.todo = Rest(c)
  BY <1>2 DEF CallType
<1> HIDE DEF k
<1>5. "none" \in PathNames \ Moving
  BY MovingFacts DEF PathNames
<1>6. WellChained(Path(k)) /\ k.phase \notin Moving
  BY <1>2, <1>4, <1>5, QuietChain DEF Path
<1>7. state' \in ApplicationState
  BY DEF AppInv, Types
<1> QED BY <1>2, <1>3, <1>4, <1>6, <1>7, ChainKeeps

LEMMA ChainStepKeeps ==
    ASSUME AppInv, NEW c \in Callers, ChainStep(c)
    PROVE  AppInv'
<1>1. CallFails(c) => AppInv'
  BY FailKeeps DEF CallFails
<1>2. CallEnds(c) => AppInv'
  BY FailKeeps DEF CallEnds
<1>3. Refuse(c) => AppInv'
  BY FailKeeps DEF Refuse
<1>4. Destroy(c) => AppInv'
  BY LeaveKeeps DEF Destroy
<1>5. WaitExit(c) => AppInv'
  <2>1. shardData \in BOOLEAN
    BY DEF AppInv, Types
  <2> QED BY <2>1, LeaveKeeps DEF WaitExit
<1> QED BY <1>1, <1>2, <1>3, <1>4, <1>5, NextPhaseStep, EnsureStep, AcceptStep DEF ChainStep

-----------------------------------------------------------------------------
(* The other steps *)

LEMMA AddStep ==
    ASSUME AppInv, Add
    PROVE  AppInv'
<1>1. /\ state = "StartInitialize" /\ factories < MaxModules /\ factories' = factories + 1
      /\ UNCHANGED <<state, shardData, modules, call, server, exiting>>
      /\ Types /\ Bounded /\ DriverInv /\ StepInv
  BY DEF Add, AppInv
<1>2. Types'
  BY <1>1, ApplicationAssumption DEF Types
<1>3. Bounded'
  BY <1>1 DEF Bounded, Beyond
<1>4. DriverInv'
  BY <1>1 DEF DriverInv
<1>5. \A d \in Callers : call[d].phase # "CallingCustomIntializeFunctions"
  BY <1>1, Holder, WorkingPhases DEF StateOf
<1>6. CoreInv'
  BY <1>1, <1>5 DEF StepInv, CoreInv, HasServer
<1>7. state' \notin ApplicationState \ ToSet(SubSeq(Initialize, 1, 6))
  BY <1>1, FirstPhases
<1>8. \A s \in Shards : modules'[s] <= factories'
  <2>1. \A s \in Shards : modules[s] \in Nat /\ modules[s] <= factories /\ factories \in Nat
    BY <1>1, ApplicationAssumption DEF Types, StepInv
  <2> QED BY <1>1, <2>1
<1>9. StepInv'
  BY <1>1, <1>6, <1>7, <1>8 DEF StepInv, ModulesAgree, HasServer
<1> QED BY <1>2, <1>3, <1>4, <1>9 DEF AppInv

LEMMA CallStep ==
    ASSUME AppInv, NEW c \in Callers, NEW op \in Operations, Call(c, op)
    PROVE  AppInv'
<1> DEFINE k == [Idle EXCEPT !.op = op, !.todo = Chain(op)]
<1>1. /\ call' = [call EXCEPT ![c] = k]
      /\ UNCHANGED <<state, shardData, factories, modules, server, exiting>>
  BY DEF Call
<1>2. op \in AllOperations /\ Chain(op) \in Seq(Names)
      /\ \A i \in DOMAIN Chain(op) : Chain(op)[i] \notin Phases \cup {"destroy"}
  BY ApplicationAssumption, LinkChains
<1>3. k \in CallType /\ k.phase = "none" /\ k.todo = Chain(op)
  <2>1. Idle \in CallType
    BY IdleType
  <2> QED BY <1>2, <2>1 DEF CallType, Idle
<1> HIDE DEF k
<1>4. "none" \in PathNames \ Moving
  BY MovingFacts DEF PathNames
<1>5. WellChained(Path(k)) /\ k.phase \notin Moving
  BY <1>2, <1>3, <1>4, QuietChain DEF Path
<1>6. state' \in ApplicationState /\ shardData' \in BOOLEAN
  BY <1>1 DEF AppInv, Types
<1> QED BY <1>1, <1>3, <1>5, <1>6, ChainKeeps

LEMMA NextInv == AppInv /\ [Next]_vars => AppInv'
<1> SUFFICES ASSUME AppInv, [Next]_vars PROVE AppInv'
  OBVIOUS
<1>1. CASE UNCHANGED vars
  BY <1>1 DEF AppInv, Types, Bounded, Beyond, DriverInv, StepInv, CoreInv, ModulesAgree,
              HasServer, vars
<1>2. CASE Exit
  <2>1. exiting' \in BOOLEAN /\ UNCHANGED <<state, shardData, factories, modules, call, server>>
    BY <1>2 DEF Exit
  <2> QED BY <2>1 DEF AppInv, Types, Bounded, Beyond, DriverInv, StepInv, CoreInv, ModulesAgree,
                      HasServer
<1>3. CASE Add
  BY <1>3, AddStep
<1>4. CASE \E c \in Callers, op \in Operations : Call(c, op)
  BY <1>4, CallStep
<1>5. CASE \E c \in Callers, s \in Shards : ShardStep(c, s)
  BY <1>5, ShardKeeps
<1>6. CASE \E c \in Callers : ChainStep(c)
  BY <1>6, ChainStepKeeps
<1> QED BY <1>1, <1>2, <1>3, <1>4, <1>5, <1>6 DEF Next

(* Whatever the fibers call, whatever throws and whenever modules are      *)
(* added, the invariant holds.                                             *)
THEOREM ApplicationInvariant == Spec => []AppInv
BY InitInv, NextInv, PTL DEF Spec

-----------------------------------------------------------------------------
(* What follows *)

(* Every variable has its type, and no core's loop over the modules, which *)
(* may be created while a call waits, runs past the last one.              *)
THEOREM ApplicationTypes == Spec => []TypeOK
<1>1. AppInv => TypeOK
  <2> SUFFICES ASSUME AppInv PROVE TypeOK
    OBVIOUS
  <2>1. Types /\ Bounded
    BY DEF AppInv
  <2>2. ASSUME NEW c \in Callers
        PROVE  /\ call[c].op \in AllOperations \cup {"idle"} /\ call[c].threw \subseteq Shards
               /\ call[c].phase \in Phases \cup {"none"} /\ ToSet(call[c].todo) \subseteq Phases \cup Links
               /\ call[c].phase # "none" => \A s \in Shards : call[c].at[s] \in 0 .. Beyond(c, s)
    <3>1. call[c] \in CallType
      BY <2>1 DEF Types
    <3>2. /\ call[c].phase \in Phases \cup {"none"} /\ call[c].todo \in Seq(Names)
          /\ call[c].at \in [Shards -> Nat] /\ call[c].threw \subseteq Shards
          /\ call[c].op \in AllOperations \cup {"idle"}
      BY <3>1, CallFields
    <3>3. ToSet(call[c].todo) \subseteq Phases \cup Links
      <4>1. \A i \in DOMAIN call[c].todo : call[c].todo[i] \in Names
        BY <3>2, ElementOfSeq, LenProperties
      <4> QED BY <4>1, NamesAre DEF ToSet
    <3>4. ASSUME NEW s \in Shards, call[c].phase # "none" PROVE call[c].at[s] \in 0 .. Beyond(c, s)
      <4>1. modules[s] \in Nat /\ call[c].at[s] \in Nat
        BY <2>1, <3>2, ApplicationAssumption DEF Types
      <4>2. Beyond(c, s) \in Nat /\ call[c].at[s] <= Beyond(c, s)
        BY <2>1, <3>4, <4>1 DEF Bounded, Beyond
      <4> QED BY <4>1, <4>2
    <3> QED BY <3>2, <3>3, <3>4
  <2> QED BY <2>1, <2>2 DEF TypeOK, Types
<1> QED BY <1>1, ApplicationInvariant, PTL

(* data.state is a lock: of all the calls in flight, at most one has       *)
(* phases of the application left to enter or its modules to destruct.     *)
THEOREM StateIsALock == Spec => []OneDriver
<1>1. AppInv => OneDriver
  <2> SUFFICES ASSUME AppInv, NEW c \in Callers, NEW d \in Callers, Drives(c), Drives(d)
               PROVE  c = d
    BY DEF OneDriver
  <2>1. ASSUME NEW e \in Callers, Drives(e) PROVE call[e].phase \in Moving
    <3>1. call[e] \in CallType /\ WellChained(<<call[e].phase>> \o call[e].todo)
      BY DEF AppInv, Types, DriverInv
    <3>2. call[e].phase \in PathNames /\ call[e].todo \in Seq(Names)
      BY <3>1, CallFields
    <3>3. \E i \in DOMAIN call[e].todo : call[e].todo[i] \in Phases \cup {"destroy"}
      BY <2>1 DEF Drives, ToSet
    <3> QED BY <3>1, <3>2, <3>3, ChainHead
  <2>2. call[c].phase \in Moving /\ call[d].phase \in Moving
    BY <2>1
  <2> QED BY <2>2 DEF AppInv, DriverInv
<1> QED BY <1>1, ApplicationInvariant, PTL

(* However calls, failures and modules that are added late interleave, the *)
(* cores have the same modules once services are registered, no http       *)
(* server is started before it is constructed or stopped before all have   *)
(* started, and none runs when the modules have been destructed.           *)
THEOREM CoresInStep == Spec => []ModulesInStep
<1>1. AppInv => ModulesInStep
  <2> SUFFICES ASSUME AppInv PROVE ModulesInStep
    OBVIOUS
  <2>1. StepInv /\ DriverInv
    BY DEF AppInv
  <2>2. ServerInOrder
    <3> SUFFICES ASSUME NEW c \in Callers, NEW s \in Shards, modules[s] >= ServerModule
                 PROVE  /\ call[c].phase = "Starting" => server[s] # "none"
                        /\ call[c].phase = "BeforeStop" => server[s] \in {"running", "startedTwice"}
      BY DEF ServerInOrder
    <3>1. call[c].phase \in {"Starting", "BeforeStop"} => state = call[c].phase
      BY <2>1, Holder, WorkingPhases DEF StateOf
    <3>2. "Starting" \notin BeforeServer /\ "BeforeStop" \in ServerUp
      BY FirstPhases, PhasesAre DEF ServerUp
    <3> QED BY <2>1, <3>1, <3>2 DEF StepInv, HasServer, Up
  <2>3. NoServerLeft
    BY <2>1 DEF StepInv, NoServerLeft, Up
  <2> QED BY <2>1, <2>2, <2>3 DEF ModulesInStep, StepInv
<1> QED BY <1>1, ApplicationInvariant, PTL

-----------------------------------------------------------------------------
(* Container.tla: registration *)

(* Every service has its place among those it depends on.                  *)
LEMMA RankRespects ==
    /\ Rank \in [Services -> Int]
    /\ \A i \in Implementations : \A k \in DOMAIN i.deps : Rank[i.deps[k].service] < Rank[i.service]
<1>1. \E rank : rank \in Ranks /\ Respects(rank)
  BY ContainerAssumption
<1>2. Rank \in Ranks /\ Respects(Rank)
  BY <1>1 DEF Rank
<1>3. Cardinality(Services) \in Nat
  BY ContainerAssumption, FS_CardinalityType
<1> QED BY <1>2, <1>3 DEF Ranks, Respects

(* What a factory of each kind has                                         *)
LEMMA FactoryTypes ==
    ASSUME NEW f \in Factories
    PROVE  /\ f.kind = "injection" => /\ f.deps \in Seq([service : Services, many : BOOLEAN, from : Nat])
                                      /\ \A k \in DOMAIN f.deps : f.deps[k].service \in Services
           /\ f.kind = "patch" => f.original \in Nat /\ f.func \in BOOLEAN
           /\ f.kind \in {"injection", "exception", "patch"}
<1>1. PICK D : D = [service : Services, many : BOOLEAN, from : Nat]
  OBVIOUS
<1>2. \/ f \in [kind : {"injection"}, deps : Seq(D)] \/ f \in [kind : {"exception"}]
      \/ f \in [kind : {"patch"}, original : Nat, func : BOOLEAN]
  BY <1>1 DEF Factories
<1>3. f.kind = "injection" => f.deps \in Seq(D)
  BY <1>2
<1>4. f.kind = "injection" => \A k \in DOMAIN f.deps : f.deps[k].service \in Services
  <2>1. f.kind = "injection" => \A k \in DOMAIN f.deps : f.deps[k] \in D
    BY <1>3
  <2> QED BY <1>1, <2>1
<1> QED BY <1>1, <1>2, <1>3, <1>4

LEMMA DescriptorTypes ==
    ASSUME RegistrySound
    PROVE  /\ Len(descriptor) \in Nat /\ DOMAIN descriptor = 1 .. Len(descriptor)
           /\ \A d \in DOMAIN descriptor :
                /\ d \in Nat /\ descriptor[d].service \in Services
                /\ descriptor[d].lifetime \in Lifetimes /\ descriptor[d].factory \in Factories
<1>1. PICK R : R = [service : Services, lifetime : Lifetimes, factory : Factories]
  OBVIOUS
<1>2. descriptor \in Seq(R)
  BY <1>1 DEF RegistrySound
<1>3. \A d \in DOMAIN descriptor : d \in Nat /\ descriptor[d] \in R
  BY <1>2
<1> QED BY <1>1, <1>2, <1>3

(* One descriptor comes before another of which it is the descriptor, ...  *)
LEMMA BeforeOrders ==
    ASSUME RegistrySound, NEW a \in DOMAIN descriptor, NEW b \in DOMAIN descriptor,
           NEW c \in DOMAIN descriptor
    PROVE  /\ Before(a, b) /\ Before(b, c) => Before(a, c)
           /\ Before(a, b) => a # b
<1>1. \A d \in DOMAIN descriptor : d \in Nat /\ descriptor[d].service \in Services
  BY DescriptorTypes
<1>2. \A d \in DOMAIN descriptor : Rank[descriptor[d].service] \in Int
  BY <1>1, RankRespects
<1> QED BY <1>1, <1>2 DEF Before

(* Nothing is registered, kept or asked for.                               *)
LEMMA ContainerStarts == ContainerInit => ContainerInv
<1> SUFFICES ASSUME ContainerInit PROVE ContainerInv
  OBVIOUS
<1>1. collection = <<>> /\ descriptor = <<>> /\ instance = <<>> /\ product = <<>> /\ calls = <<>>
  BY DEF ContainerInit
<1>2. RegistrySound
  BY <1>1 DEF ContainerInit, RegistrySound, DescriptorsOf, Listed
<1>3. KeptSound
  BY <1>1 DEF ContainerInit, KeptSound, KeptFor
<1>4. CallsSound
  BY <1>1 DEF ContainerInit, CallsSound, NoCalls
<1>5. InstancesRight
  BY <1>1 DEF ContainerInit, NoResult, InstancesRight, OneInstance, ManyInOrder, PartsCurrent
<1> QED BY <1>2, <1>3, <1>4, <1>5 DEF ContainerInv

(* More of the same: what a sequence grows to                              *)
Grown(old, new) ==
    /\ Len(old) \in Nat /\ Len(new) \in Nat /\ Len(old) <= Len(new)
    /\ DOMAIN old = 1 .. Len(old) /\ DOMAIN new = 1 .. Len(new)
    /\ \A i \in DOMAIN old : new[i] = old[i]

LEMMA AppendGrows ==
    ASSUME NEW T, NEW s \in Seq(T), NEW v \in T
    PROVE  /\ Append(s, v) \in Seq(T) /\ Len(Append(s, v)) = Len(s) + 1
           /\ Grown(s, Append(s, v)) /\ Append(s, v)[Len(s) + 1] = v
BY DEF Grown

(* The same for two sequences                                              *)
LEMMA JoinGrows ==
    ASSUME NEW T, NEW s \in Seq(T), NEW t \in Seq(T)
    PROVE  /\ s \o t \in Seq(T) /\ Len(s \o t) = Len(s) + Len(t) /\ Grown(s, s \o t)
           /\ \A i \in 1 .. Len(t) : (s \o t)[Len(s) + i] = t[i]
<1>1. PICK w : w = s \o t
  OBVIOUS
<1>2. w \in Seq(T) /\ IsJoin(w, s, t)
  BY <1>1, Joined
<1>3. Len(s) \in Nat /\ Len(t) \in Nat /\ DOMAIN s = 1 .. Len(s) /\ DOMAIN w = 1 .. Len(w)
  BY <1>2
<1> QED BY <1>1, <1>2, <1>3 DEF IsJoin, Grown

(* The collections that a registration adds are empty, and of their own.   *)
Extended(S, map, all) ==
    /\ all \in Seq(Seq(Nat)) /\ Grown(collection, all)
    /\ map \in [Services -> 0 .. Len(all)]
    /\ \A s \in Services : descriptorsMap[s] # 0 => map[s] = descriptorsMap[s]
    /\ \A s \in S : map[s] # 0
    /\ \A s, t \in Services : map[s] = map[t] /\ map[s] # 0 => s = t
    /\ \A s \in Services : map[s] # 0 => all[map[s]] = DescriptorsOf(s)

LEMMA CollectionsAdded ==
    ASSUME RegistrySound, NEW S \in SUBSET Services, NEW map, map = WithCollections(S),
           NEW all, all = collection \o [i \in DOMAIN Missing(S) |-> <<>>]
    PROVE  Extended(S, map, all)
<1>1. PICK M : M = {s \in S : descriptorsMap[s] = 0}
  OBVIOUS
<1>2. IsFiniteSet(M)
  BY <1>1, ContainerAssumption, FS_Subset
<1>3. PICK K, m :
        /\ K \in Nat /\ m \in [1 .. K -> M] /\ m = Missing(S)
        /\ \A i, j \in 1 .. K : m[i] = m[j] => i = j
        /\ \A s \in M : \E i \in 1 .. K : m[i] = s
  <2>1. Missing(S) = SetToSeq(M)
    BY <1>1 DEF Missing
  <2>2. /\ Cardinality(M) \in Nat /\ SetToSeq(M) \in [1 .. Cardinality(M) -> M]
        /\ \A i, j \in 1 .. Cardinality(M) : SetToSeq(M)[i] = SetToSeq(M)[j] => i = j
        /\ \A s \in M : \E i \in 1 .. Cardinality(M) : SetToSeq(M)[i] = s
    BY <1>2, SetAsSequence
  <2> QED BY <2>1, <2>2
<1>4. PICK n \in Nat : n = Len(collection)
  BY DEF RegistrySound
<1>5. /\ collection \in Seq(Seq(Nat)) /\ descriptorsMap \in [Services -> 0 .. n]
      /\ \A s, t \in Services : descriptorsMap[s] = descriptorsMap[t] /\ descriptorsMap[s] # 0 => s = t
  BY <1>4 DEF RegistrySound
<1>6. PICK e : e = [i \in 1 .. K |-> <<>>]
  OBVIOUS
<1>7. e \in Seq(Seq(Nat)) /\ Len(e) = K /\ \A i \in 1 .. K : e[i] = <<>>
  <2>1. e \in [1 .. K -> Seq(Nat)]
    BY <1>6
  <2> QED BY <1>3, <1>6, <2>1
<1>8. all = collection \o e
  BY <1>3, <1>6
<1>9. /\ all \in Seq(Seq(Nat)) /\ Grown(collection, all) /\ Len(all) = n + K
      /\ \A i \in 1 .. K : all[n + i] = <<>>
  <2>1. /\ all \in Seq(Seq(Nat)) /\ Len(all) = Len(collection) + Len(e) /\ Grown(collection, all)
        /\ \A i \in 1 .. Len(e) : all[Len(collection) + i] = e[i]
    <3>1. PICK T : T = Seq(Nat)
      OBVIOUS
    <3>2. collection \in Seq(T) /\ e \in Seq(T)
      BY <1>5, <1>7, <3>1
    <3>3. /\ collection \o e \in Seq(T) /\ Len(collection \o e) = Len(collection) + Len(e)
          /\ Grown(collection, collection \o e)
          /\ \A i \in 1 .. Len(e) : (collection \o e)[Len(collection) + i] = e[i]
      BY <3>2, JoinGrows
    <3> QED BY <1>8, <3>1, <3>3
  <2> QED BY <1>4, <1>7, <2>1
<1>10. \A s \in Services : s \notin M => map[s] = descriptorsMap[s]
  BY <1>1 DEF WithCollections
<1>11. \A s \in M : \E i \in 1 .. K : m[i] = s /\ map[s] = n + i
  <2> SUFFICES ASSUME NEW s \in M PROVE \E i \in 1 .. K : m[i] = s /\ map[s] = n + i
    OBVIOUS
  <2>1. PICK i : i = CHOOSE j \in 1 .. K : m[j] = s
    OBVIOUS
  <2>2. i \in 1 .. K /\ m[i] = s
    BY <1>3, <2>1
  <2>3. s \in Services /\ s \in S /\ descriptorsMap[s] = 0
    BY <1>1
  <2>4. map[s] = n + i
    BY <1>3, <1>4, <2>1, <2>3 DEF WithCollections
  <2> QED BY <2>2, <2>4
<1>12. map \in [Services -> 0 .. Len(all)]
  <2>1. \A s \in Services : map[s] \in 0 .. n + K
    <3> SUFFICES ASSUME NEW s \in Services PROVE map[s] \in 0 .. n + K
      OBVIOUS
    <3>1. CASE s \in M
      <4>1. PICK i \in 1 .. K : map[s] = n + i
        BY <1>11, <3>1
      <4> QED BY <1>3, <4>1
    <3>2. CASE s \notin M
      <4>1. map[s] \in 0 .. n
        BY <1>5, <1>10, <3>2
      <4> QED BY <1>3, <4>1
    <3> QED BY <3>1, <3>2
  <2>2. map = [s \in Services |-> map[s]]
    BY DEF WithCollections
  <2> QED BY <1>9, <2>1, <2>2
<1>13. \A s \in S : map[s] # 0
  <2>1. \A s \in S : s \notin M => descriptorsMap[s] # 0
    BY <1>1
  <2> QED BY <1>10, <1>11, <2>1
<1>14. \A s, t \in Services : map[s] = map[t] /\ map[s] # 0 => s = t
  <2> SUFFICES ASSUME NEW s \in Services, NEW t \in Services, map[s] = map[t], map[s] # 0 PROVE s = t
    OBVIOUS
  <2>1. CASE s \in M /\ t \in M
    BY <1>3, <1>11, <2>1
  <2>2. CASE s \notin M /\ t \notin M
    BY <1>5, <1>10, <2>2
  <2>3. CASE s \in M /\ t \notin M
    BY <1>5, <1>10, <1>11, <2>3
  <2>4. CASE s \notin M /\ t \in M
    BY <1>5, <1>10, <1>11, <2>4
  <2> QED BY <2>1, <2>2, <2>3, <2>4
<1>15. \A s \in Services : map[s] # 0 => all[map[s]] = DescriptorsOf(s)
  <2> SUFFICES ASSUME NEW s \in Services, map[s] # 0 PROVE all[map[s]] = DescriptorsOf(s)
    OBVIOUS
  <2>1. CASE s \in M
    <3>1. descriptorsMap[s] = 0
      BY <1>1, <2>1
    <3>2. PICK i \in 1 .. K : map[s] = n + i
      BY <1>11, <2>1
    <3>3. all[map[s]] = <<>>
      BY <1>9, <3>2
    <3> QED BY <3>1, <3>3 DEF DescriptorsOf, Listed
  <2>2. CASE s \notin M
    <3>1. map[s] = descriptorsMap[s] /\ map[s] \in DOMAIN collection
      BY <1>4, <1>5, <1>10, <2>2
    <3> QED BY <1>9, <3>1 DEF Grown, DescriptorsOf, Listed
  <2> QED BY <2>1, <2>2
<1>16. \A s \in Services : descriptorsMap[s] # 0 => map[s] = descriptorsMap[s]
  BY <1>1, <1>10
<1> QED BY <1>9, <1>12, <1>13, <1>14, <1>15, <1>16 DEF Extended

(* addDescriptor(): the new descriptor joins the collection of its service.  *)
LEMMA DescriptorAdded ==
    ASSUME RegistrySound, NEW s \in Services, NEW others \in SUBSET Services,
           NEW lifetime \in Lifetimes, NEW factory \in Factories,
           AddDescriptor(s, others, lifetime, factory),
           factory.kind = "injection" => \A k \in DOMAIN factory.deps :
             /\ factory.deps[k].from = descriptorsMap'[factory.deps[k].service]
             /\ factory.deps[k].service \in others
             /\ Rank[factory.deps[k].service] < Rank[s],
           factory.kind # "patch"
    PROVE  /\ RegistrySound' /\ Len(descriptor') = Len(descriptor) + 1 /\ Grown(descriptor, descriptor')
           /\ descriptor'[Len(descriptor) + 1] = [service |-> s, lifetime |-> lifetime, factory |-> factory]
<1>1. PICK S \in SUBSET Services : S = {s} \cup others
  OBVIOUS
<1>2. PICK map : map = WithCollections(S)
  OBVIOUS
<1>3. PICK all : all = collection \o [i \in DOMAIN Missing(S) |-> <<>>]
  OBVIOUS
<1>4. PICK n \in Nat : n = Len(descriptor)
  BY DEF RegistrySound
<1>5. PICK new : new = [service |-> s, lifetime |-> lifetime, factory |-> factory]
  OBVIOUS
<1>6. /\ descriptorsMap' = map /\ collection' = [all EXCEPT ![map[s]] = Append(@, n + 1)]
      /\ descriptor' = Append(descriptor, new)
  BY <1>1, <1>2, <1>3, <1>4, <1>5 DEF AddDescriptor
<1>7. /\ all \in Seq(Seq(Nat)) /\ Grown(collection, all) /\ map \in [Services -> 0 .. Len(all)]
      /\ \A t \in Services : descriptorsMap[t] # 0 => map[t] = descriptorsMap[t]
      /\ \A t \in S : map[t] # 0
      /\ \A t, u \in Services : map[t] = map[u] /\ map[t] # 0 => t = u
      /\ \A t \in Services : map[t] # 0 => all[map[t]] = DescriptorsOf(t)
  <2>1. Extended(S, map, all)
    BY <1>1, <1>2, <1>3, CollectionsAdded
  <2> QED BY <2>1 DEF Extended
<1>8. PICK R : R = [service : Services, lifetime : Lifetimes, factory : Factories]
  OBVIOUS
<1>9. descriptor \in Seq(R) /\ new \in R
  BY <1>5, <1>8 DEF RegistrySound
<1>10. /\ descriptor' \in Seq(R) /\ Len(descriptor') = n + 1 /\ Grown(descriptor, descriptor')
       /\ descriptor'[n + 1] = new
  BY <1>4, <1>6, <1>9, AppendGrows
<1>11. PICK m \in 1 .. Len(all) : m = map[s]
  BY <1>1, <1>7
<1>12. PICK list \in Seq(Nat) : list = all[m]
  BY <1>7
<1>13. collection' = [all EXCEPT ![m] = Append(list, n + 1)] /\ Append(list, n + 1) \in Seq(Nat)
  BY <1>6, <1>11, <1>12
<1>14. collection' \in Seq(Seq(Nat)) /\ Len(collection') = Len(all)
  <2>1. PICK T : T = Seq(Nat)
    OBVIOUS
  <2>2. all \in Seq(T) /\ Append(list, n + 1) \in T
    BY <1>7, <1>13, <2>1
  <2>3. collection' \in Seq(T) /\ Len(collection') = Len(all)
    BY <1>11, <1>13, <2>2
  <2> QED BY <2>1, <2>3
<1>15. \A d \in DOMAIN descriptor : d \in DOMAIN descriptor' /\ descriptor'[d] = descriptor[d]
  BY <1>10 DEF Grown
<1>16. ASSUME NEW t \in Services
       PROVE  (\A k \in DOMAIN DescriptorsOf(t) : IsOf(DescriptorsOf(t)[k], t))'
  <2>1. PICK old : old = DescriptorsOf(t)
    OBVIOUS
  <2>2. \A k \in DOMAIN old : old[k] \in DOMAIN descriptor /\ descriptor[old[k]].service = t
    BY <2>1 DEF RegistrySound, IsOf
  <2>3. CASE map[t] = 0
    BY <1>6, <2>3 DEF DescriptorsOf, Listed
  <2>4. CASE map[t] # 0 /\ t # s
    <3>1. map[t] \in 1 .. Len(all) /\ map[t] # m /\ all[map[t]] = old
      BY <1>7, <1>11, <2>1, <2>4
    <3>2. DescriptorsOf(t)' = old
      BY <1>6, <1>7, <1>13, <2>4, <3>1 DEF DescriptorsOf, Listed
    <3> QED BY <1>15, <2>2, <3>2 DEF IsOf
  <2>5. CASE t = s
    <3>1. list = old /\ m # 0
      BY <1>7, <1>11, <1>12, <2>1, <2>5
    <3>2. PICK ds : ds = DescriptorsOf(t)'
      OBVIOUS
    <3>3. ds = Append(list, n + 1)
      BY <1>6, <1>7, <1>11, <1>13, <2>5, <3>1, <3>2 DEF DescriptorsOf, Listed
    <3>4. \A k \in DOMAIN ds : k \in DOMAIN list \/ ds[k] = n + 1
      BY <3>3
    <3>5. \A k \in DOMAIN list : ds[k] = list[k]
      BY <3>3
    <3>6. IsOf(n + 1, t)'
      BY <1>5, <1>10, <2>5 DEF IsOf, Grown
    <3> QED BY <1>15, <2>2, <3>1, <3>2, <3>4, <3>5, <3>6 DEF IsOf
  <2> QED BY <2>3, <2>4, <2>5
<1>17. ASSUME NEW d \in DOMAIN descriptor PROVE FactorySound(d)'
  <2>1. PICK f, u : /\ f = descriptor[d].factory /\ f = descriptor'[d].factory
                    /\ u = descriptor[d].service /\ u = descriptor'[d].service
    BY <1>15
  <2>2. /\ f.kind = "injection" => \A k \in DOMAIN f.deps :
             /\ f.deps[k].from = descriptorsMap[f.deps[k].service] /\ f.deps[k].from # 0
             /\ Rank[f.deps[k].service] < Rank[u]
        /\ f.kind = "patch" => IsOf(f.original, u) /\ f.original < d
    BY <2>1 DEF RegistrySound, FactorySound
  <2>3. f.kind = "injection" => \A k \in DOMAIN f.deps : f.deps[k].service \in Services
    BY <2>1, DescriptorTypes, FactoryTypes
  <2>4. f.kind = "injection" => \A k \in DOMAIN f.deps :
          f.deps[k].from = map[f.deps[k].service]
    BY <1>7, <2>2, <2>3
  <2>5. f.kind = "patch" => IsOf(f.original, u)'
    BY <1>15, <2>2 DEF IsOf
  <2> QED BY <1>6, <2>1, <2>2, <2>4, <2>5 DEF FactorySound
<1>18. FactorySound(n + 1)'
  <2>1. descriptor'[n + 1].factory = factory /\ descriptor'[n + 1].service = s
    BY <1>5, <1>10
  <2>2. factory.kind = "injection" => \A k \in DOMAIN factory.deps :
          factory.deps[k].service \in S /\ factory.deps[k].from # 0
    BY <1>1, <1>6, <1>7
  <2> QED BY <2>1, <2>2 DEF FactorySound
<1>19. RegistrySound'
  <2>1. \A d \in DOMAIN descriptor' : d \in DOMAIN descriptor \/ d = n + 1
    BY <1>4, <1>10 DEF Grown
  <2> QED BY <1>6, <1>7, <1>8, <1>10, <1>14, <1>16, <1>17, <1>18, <2>1 DEF RegistrySound
<1> QED BY <1>4, <1>5, <1>10, <1>19

-----------------------------------------------------------------------------
(* What is kept, when descriptors are registered                             *)

(* Elements of a set are elements of a larger one.                         *)
LEMMA WiderSeq ==
    ASSUME NEW S, NEW T, S \subseteq T, NEW s \in Seq(S)
    PROVE  s \in Seq(T)
<1>1. Len(s) \in Nat /\ s \in [1 .. Len(s) -> S]
  OBVIOUS
<1> QED BY <1>1

(* What is known of every instance that was made                           *)
LEMMA ProductTypes ==
    ASSUME KeptSound
    PROVE  /\ Len(product) \in Nat /\ DOMAIN product = 1 .. Len(product)
           /\ \A n \in DOMAIN product :
                /\ product[n].by \in DOMAIN descriptor /\ product[n].age \in Nat
                /\ product[n].place \in Storages \cup {"nowhere"}
                /\ product[n].parts \in Seq(Seq(1 .. Len(product)))
<1>1. PICK P : P = [by : Nat, place : Storages \cup {"nowhere"}, age : Nat,
                    parts : Seq(Seq(1 .. Len(product)))]
  OBVIOUS
<1>2. product \in Seq(P)
  BY <1>1 DEF KeptSound
<1>3. \A n \in DOMAIN product : product[n] \in P
  BY <1>2
<1>4. \A n \in DOMAIN product : product[n].by \in DOMAIN descriptor
  BY DEF KeptSound, ProductKept
<1> QED BY <1>1, <1>2, <1>3, <1>4

(* A list of what is kept grows with the descriptors, by entries of none.  *)
NoneAdded(old, new) ==
    /\ new \in Seq(0 .. Len(product)) /\ Len(new) = Len(descriptor') /\ Grown(old, new)
    /\ \A d \in DOMAIN new : d \notin DOMAIN old => new[d] = 0

(* Entries of none do not change what is kept.                             *)
LEMMA NoneAppended ==
    ASSUME KeptSound, Len(descriptor) \in Nat, NEW old, KeptFor(old), NEW zeros \in Seq({0}),
           Len(descriptor') = Len(descriptor) + Len(zeros)
    PROVE  NoneAdded(old, old \o zeros)
<1>1. PICK N : N = 0 .. Len(product)
  OBVIOUS
<1>2. old \in Seq(N) /\ Len(old) = Len(descriptor)
  BY <1>1 DEF KeptFor
<1>3. zeros \in Seq(N) /\ Len(zeros) \in Nat
  BY <1>1, ProductTypes, WiderSeq
<1>4. PICK new : new = old \o zeros
  OBVIOUS
<1>5. /\ new \in Seq(N) /\ Len(new) = Len(old) + Len(zeros) /\ Grown(old, new)
      /\ \A i \in 1 .. Len(zeros) : new[Len(old) + i] = zeros[i]
  <2>1. PICK s \in Seq(N), z \in Seq(N) : s = old /\ z = zeros
    BY <1>2, <1>3
  <2>2. /\ s \o z \in Seq(N) /\ Len(s \o z) = Len(s) + Len(z) /\ Grown(s, s \o z)
        /\ \A i \in 1 .. Len(z) : (s \o z)[Len(s) + i] = z[i]
    BY <2>1, JoinGrows
  <2> QED BY <1>4, <2>1, <2>2
<1>6. ASSUME NEW d \in DOMAIN new, d \notin DOMAIN old PROVE new[d] = 0
  <2>1. d \in 1 .. Len(old) + Len(zeros) /\ d \notin 1 .. Len(old) /\ Len(old) \in Nat
    BY <1>5, <1>6 DEF Grown
  <2>2. PICK i \in 1 .. Len(zeros) : d = Len(old) + i
    <3>1. d - Len(old) \in 1 .. Len(zeros) /\ d = Len(old) + (d - Len(old))
      BY <1>3, <2>1
    <3> QED BY <3>1
  <2>3. zeros[i] = 0
    OBVIOUS
  <2> QED BY <1>5, <2>2, <2>3
<1> QED BY <1>1, <1>2, <1>4, <1>5, <1>6 DEF NoneAdded

(* A registration makes nothing, and what was made stays right.            *)
LEMMA RegisteredKeeps ==
    ASSUME RegistrySound, KeptSound, InstancesRight, Grown(descriptor, descriptor'),
           NoneAdded(instance, instance'), DOMAIN storage' = Storages,
           \A x \in Storages : NoneAdded(storage[x], storage'[x]),
           UNCHANGED <<product, cleared>>, registered' = Len(product), result' = NoResult
    PROVE  KeptSound' /\ InstancesRight'
<1>1. \A d \in DOMAIN descriptor : d \in DOMAIN descriptor' /\ descriptor'[d] = descriptor[d]
  BY DEF Grown
<1>2. \A n \in DOMAIN product : product[n].by \in DOMAIN descriptor
  BY ProductTypes
<1>3. /\ KeptFor(instance) /\ DOMAIN storage = Storages /\ \A x \in Storages : KeptFor(storage[x])
  BY DEF KeptSound
<1>4. ASSUME NEW old, NEW new, KeptFor(old), NoneAdded(old, new)
      PROVE  /\ new \in Seq(0 .. Len(product)) /\ Len(new) = Len(descriptor')
             /\ \A d \in DOMAIN new : new[d] # 0 => product[new[d]].by = d
             /\ \A d \in DOMAIN descriptor : new[d] = old[d]
  <2>1. \A d \in DOMAIN old : new[d] = old[d]
    BY <1>4 DEF NoneAdded, Grown
  <2>2. DOMAIN old = DOMAIN descriptor
    BY <1>4, DescriptorTypes DEF KeptFor
  <2> QED BY <1>4, <2>1, <2>2 DEF NoneAdded, KeptFor
<1>5. /\ instance' \in Seq(0 .. Len(product)) /\ Len(instance') = Len(descriptor')
      /\ \A d \in DOMAIN instance' : instance'[d] # 0 => product[instance'[d]].by = d
      /\ \A d \in DOMAIN descriptor : instance'[d] = instance[d]
  BY <1>3, <1>4
<1>6. ASSUME NEW x \in Storages
      PROVE  /\ storage'[x] \in Seq(0 .. Len(product)) /\ Len(storage'[x]) = Len(descriptor')
             /\ \A d \in DOMAIN storage'[x] : storage'[x][d] # 0 => product[storage'[x][d]].by = d
             /\ \A d \in DOMAIN descriptor : storage'[x][d] = storage[x][d]
  BY <1>3, <1>4
<1>7. \A n \in DOMAIN product : ProductKept(n)'
  <2> SUFFICES ASSUME NEW n \in DOMAIN product PROVE ProductKept(n)'
    OBVIOUS
  <2>1. ProductKept(n)
    BY DEF KeptSound
  <2> QED BY <1>1, <1>2, <1>5, <1>6, <2>1 DEF ProductKept
<1>8. KeptSound'
  <2>1. KeptFor(instance)'
    BY <1>5 DEF KeptFor
  <2>2. \A x \in Storages : KeptFor(storage[x])'
    BY <1>6 DEF KeptFor
  <2>3. registered' \in 0 .. Len(product)
    BY ProductTypes
  <2> QED BY <1>7, <2>1, <2>2, <2>3 DEF KeptSound
<1>9. InstancesRight'
  <2>1. OneInstance'
    BY <1>1, <1>2 DEF InstancesRight, OneInstance, MadeBy
  <2>2. ManyInOrder'
    BY DEF ManyInOrder, NoResult
  <2>3. PartsCurrent'
    BY ProductTypes DEF PartsCurrent
  <2> QED BY <2>1, <2>2, <2>3 DEF InstancesRight
<1> QED BY <1>8, <1>9

(* add() *)
LEMMA AddImplementationKeeps ==
    ASSUME ContainerInv, NEW i \in Implementations, AddImplementation(i)
    PROVE  ContainerInv'
<1>1. RegistrySound /\ KeptSound /\ CallsSound /\ InstancesRight
  BY DEF ContainerInv
<1>2. PICK D : D = [service : Services, many : BOOLEAN]
  OBVIOUS
<1>3. PICK deps \in Seq(D) : deps = i.deps
  BY <1>2, ContainerAssumption
<1>4. PICK s \in Services : s = i.service
  BY ContainerAssumption
<1>5. i.lifetime \in Lifetimes
  BY ContainerAssumption
<1>6. \A k \in DOMAIN deps : deps[k].service \in Services /\ deps[k].many \in BOOLEAN
  <2>1. \A k \in DOMAIN deps : deps[k] \in D
    OBVIOUS
  <2> QED BY <1>2, <2>1
<1>7. PICK others : others = {deps[k].service : k \in DOMAIN deps}
  OBVIOUS
<1>8. others \in SUBSET Services
  BY <1>6, <1>7
<1>9. PICK S \in SUBSET Services : S = {s} \cup others
  BY <1>8
<1>10. PICK map : map = WithCollections(S)
  OBVIOUS
<1>11. PICK kept : kept = [k \in DOMAIN deps |-> [service |-> deps[k].service, many |-> deps[k].many,
                                                  from |-> map[deps[k].service]]]
  OBVIOUS
<1>12. PICK factory : factory = [kind |-> "injection", deps |-> kept]
  OBVIOUS
<1>13. AddDescriptor(s, others, i.lifetime, factory) /\ instance' = Append(instance, 0) /\ product' = product
  BY <1>3, <1>4, <1>7, <1>9, <1>10, <1>11, <1>12 DEF AddImplementation
<1>14. \A k \in DOMAIN deps : map[deps[k].service] \in Nat
  <2>1. PICK all : all = collection \o [k \in DOMAIN Missing(S) |-> <<>>]
    OBVIOUS
  <2>2. Extended(S, map, all)
    BY <1>1, <1>9, <1>10, <2>1, CollectionsAdded
  <2> QED BY <1>6, <2>2 DEF Extended, Grown
<1>15. factory \in Factories
  <2>1. PICK F : F = [service : Services, many : BOOLEAN, from : Nat]
    OBVIOUS
  <2>2. \A k \in DOMAIN deps : kept[k] \in F
    BY <1>6, <1>11, <1>14, <2>1
  <2>3. Len(deps) \in Nat /\ kept \in [1 .. Len(deps) -> F]
    BY <1>11, <2>2
  <2>4. kept \in Seq(F)
    BY <2>3
  <2> QED BY <1>12, <2>1, <2>4 DEF Factories
<1>16. factory.kind = "injection" => \A k \in DOMAIN factory.deps :
         /\ factory.deps[k].from = descriptorsMap'[factory.deps[k].service]
         /\ factory.deps[k].service \in others
         /\ Rank[factory.deps[k].service] < Rank[s]
  <2>1. factory.deps = kept /\ DOMAIN kept = DOMAIN deps
    BY <1>11, <1>12
  <2>2. descriptorsMap' = map
    BY <1>9, <1>10, <1>13 DEF AddDescriptor
  <2>3. \A k \in DOMAIN deps : Rank[deps[k].service] < Rank[s]
    BY <1>3, <1>4, RankRespects
  <2>4. \A k \in DOMAIN deps : kept[k].service = deps[k].service /\ kept[k].from = map[deps[k].service]
    BY <1>11
  <2>5. \A k \in DOMAIN deps : deps[k].service \in others
    BY <1>7
  <2> QED BY <2>1, <2>2, <2>3, <2>4, <2>5
<1>17. /\ RegistrySound' /\ Len(descriptor') = Len(descriptor) + 1 /\ Grown(descriptor, descriptor')
  BY <1>1, <1>5, <1>8, <1>12, <1>13, <1>15, <1>16, DescriptorAdded
<1>18. \A old : KeptFor(old) => NoneAdded(old, Append(old, 0))
  <2> SUFFICES ASSUME NEW old, KeptFor(old) PROVE NoneAdded(old, Append(old, 0))
    OBVIOUS
  <2>1. <<0>> \in Seq({0}) /\ Len(<<0>>) = 1
    OBVIOUS
  <2>2. NoneAdded(old, old \o <<0>>)
    BY <1>1, <1>17, <2>1, NoneAppended, DescriptorTypes
  <2>3. old \o <<0>> = Append(old, 0)
    BY DEF KeptFor
  <2> QED BY <2>2, <2>3
<1>19. KeptSound' /\ InstancesRight'
  <2>1. /\ KeptFor(instance) /\ \A x \in Storages : KeptFor(storage[x])
    BY <1>1 DEF KeptSound
  <2>2. /\ storage' = [x \in Storages |-> Append(storage[x], 0)] /\ cleared' = cleared
        /\ registered' = Len(product) /\ result' = NoResult
    BY <1>13 DEF AddDescriptor
  <2>3. NoneAdded(instance, instance')
    BY <1>13, <1>18, <2>1
  <2>4. \A x \in Storages : NoneAdded(storage[x], storage'[x])
    BY <1>18, <2>1, <2>2
  <2> QED BY <1>1, <1>13, <1>17, <2>2, <2>3, <2>4, RegisteredKeeps
<1>20. CallsSound'
  <2>1. calls' = <<>>
    BY <1>13 DEF AddDescriptor, NoCalls
  <2> QED BY <2>1 DEF CallsSound, NoCalls
<1> QED BY <1>17, <1>19, <1>20 DEF ContainerInv

(* Products grow by what one is made of. *)
LEMMA ProductAppended ==
    ASSUME KeptSound, NEW entry, product' = Append(product, entry), entry.by \in Nat,
           entry \in [by : Nat, place : Storages \cup {"nowhere"}, age : Nat,
                     parts : Seq(Seq(1 .. Len(product)))]
    PROVE  /\ product' \in Seq([by : Nat, place : Storages \cup {"nowhere"}, age : Nat,
                                parts : Seq(Seq(1 .. Len(product')))])
           /\ Len(product') = Len(product) + 1 /\ Grown(product, product')
           /\ product'[Len(product) + 1] = entry
<1>1. PICK n \in Nat : n = Len(product)
  BY ProductTypes
<1>2. PICK L, M : L = 1 .. n /\ M = 1 .. n + 1
  OBVIOUS
<1>3. Seq(Seq(L)) \subseteq Seq(Seq(M))
  <2>1. Seq(L) \subseteq Seq(M)
    BY <1>1, <1>2, WiderSeq
  <2> QED BY <2>1, WiderSeq
<1>4. PICK A, B : A = Seq(Seq(L)) /\ B = Seq(Seq(M)) /\ A \subseteq B
  BY <1>3
<1>5. PICK P : P = [by : Nat, place : Storages \cup {"nowhere"}, age : Nat, parts : A]
  OBVIOUS
<1>6. PICK Q : Q = [by : Nat, place : Storages \cup {"nowhere"}, age : Nat, parts : B]
  OBVIOUS
<1>7. P \subseteq Q
  BY <1>4, <1>5, <1>6
<1>8. product \in Seq(P)
  BY <1>1, <1>2, <1>4, <1>5 DEF KeptSound
<1>9. entry \in Q /\ product \in Seq(Q)
  BY <1>1, <1>2, <1>4, <1>5, <1>7, <1>8, WiderSeq
<1>10. /\ product' \in Seq(Q) /\ Len(product') = n + 1 /\ Grown(product, product')
       /\ product'[n + 1] = entry
  BY <1>1, <1>9, AppendGrows
<1> QED BY <1>1, <1>2, <1>4, <1>6, <1>10

(* add() with an instance, which is kept for its own descriptor            *)
LEMMA AddInstanceKeeps ==
    ASSUME ContainerInv, NEW s \in Services, AddInstance(s)
    PROVE  ContainerInv'
<1>1. RegistrySound /\ KeptSound /\ CallsSound /\ InstancesRight
  BY DEF ContainerInv
<1>2. PICK factory : factory = [kind |-> "exception"]
  OBVIOUS
<1>3. PICK n \in Nat : n = Len(descriptor)
  BY <1>1, DescriptorTypes
<1>4. PICK p \in Nat : p = Len(product)
  BY <1>1, ProductTypes
<1>5. PICK entry : entry = [by |-> n + 1, place |-> "nowhere", age |-> 0, parts |-> <<>>]
  OBVIOUS
<1>6. /\ AddDescriptor(s, {}, "Persistent", factory) /\ product' = Append(product, entry)
      /\ instance' = Append(instance, p + 1)
  BY <1>2, <1>3, <1>4, <1>5 DEF AddInstance
<1>7. factory \in Factories /\ factory.kind = "exception" /\ "Persistent" \in Lifetimes
  BY <1>2 DEF Factories, Lifetimes
<1>8. /\ RegistrySound' /\ Len(descriptor') = n + 1 /\ Grown(descriptor, descriptor')
      /\ descriptor'[n + 1].factory = factory /\ descriptor'[n + 1].lifetime = "Persistent"
  <2>1. "exception" # "injection" /\ "exception" # "patch"
    OBVIOUS
  <2>2. /\ RegistrySound' /\ Len(descriptor') = n + 1 /\ Grown(descriptor, descriptor')
        /\ descriptor'[n + 1] = [service |-> s, lifetime |-> "Persistent", factory |-> factory]
    BY <1>1, <1>3, <1>6, <1>7, <2>1, DescriptorAdded
  <2> QED BY <2>2
<1>9. \A d \in DOMAIN descriptor : d \in DOMAIN descriptor' /\ descriptor'[d] = descriptor[d]
  BY <1>8 DEF Grown
<1>10. /\ product' \in Seq([by : Nat, place : Storages \cup {"nowhere"}, age : Nat,
                             parts : Seq(Seq(1 .. Len(product')))])
       /\ Len(product') = p + 1 /\ Grown(product, product') /\ product'[p + 1] = entry
  <2>1. <<>> \in Seq(Seq(1 .. Len(product)))
    OBVIOUS
  <2>2. entry \in [by : Nat, place : Storages \cup {"nowhere"}, age : Nat,
                  parts : Seq(Seq(1 .. Len(product)))] /\ entry.by \in Nat
    BY <1>3, <1>5, <2>1
  <2> QED BY <1>1, <1>4, <1>6, <2>2, ProductAppended
<1>11. DOMAIN product = 1 .. p /\ DOMAIN product' = 1 .. p + 1 /\ DOMAIN descriptor = 1 .. n
  BY <1>1, <1>3, <1>4, <1>10, DescriptorTypes, ProductTypes DEF Grown
<1>12. \A m \in DOMAIN product : product'[m] = product[m] /\ product[m].by \in 1 .. n
  BY <1>1, <1>10, <1>11, ProductTypes DEF Grown
<1>13. /\ KeptFor(instance) /\ DOMAIN storage = Storages /\ \A x \in Storages : KeptFor(storage[x])
  BY <1>1 DEF KeptSound
<1>14. /\ instance' \in Seq(0 .. p + 1) /\ Len(instance') = n + 1 /\ instance'[n + 1] = p + 1
       /\ \A d \in 1 .. n : instance'[d] = instance[d] /\ (instance[d] # 0 => product[instance[d]].by = d)
       /\ \A d \in 1 .. n : instance[d] \in 0 .. p
  <2>1. instance \in Seq(0 .. p) /\ Len(instance) = n
    BY <1>3, <1>4, <1>13 DEF KeptFor
  <2>2. PICK N : N = 0 .. p + 1
    OBVIOUS
  <2>3. instance \in Seq(N) /\ p + 1 \in N
    BY <2>1, <2>2, WiderSeq
  <2>4. /\ instance' \in Seq(N) /\ Len(instance') = n + 1 /\ Grown(instance, instance')
        /\ instance'[n + 1] = p + 1
    BY <1>6, <2>1, <2>3, AppendGrows
  <2>5. \A d \in 1 .. n : instance[d] \in 0 .. p /\ d \in DOMAIN instance
    BY <2>1
  <2>6. \A d \in 1 .. n : instance'[d] = instance[d]
    BY <2>4, <2>5 DEF Grown
  <2>7. \A d \in 1 .. n : instance[d] # 0 => product[instance[d]].by = d
    BY <1>13, <2>5 DEF KeptFor
  <2> QED BY <2>2, <2>4, <2>5, <2>6, <2>7
<1>15. ASSUME NEW x \in Storages
       PROVE  /\ storage'[x] \in Seq(0 .. p + 1) /\ Len(storage'[x]) = n + 1
              /\ storage'[x][n + 1] = 0
              /\ \A d \in 1 .. n : /\ storage'[x][d] = storage[x][d] /\ storage[x][d] \in 0 .. p
                                   /\ storage[x][d] # 0 => product[storage[x][d]].by = d
  <2>1. PICK old : old = storage[x]
    OBVIOUS
  <2>2. KeptFor(old)
    BY <1>13, <2>1
  <2>3. old \in Seq(0 .. p) /\ Len(old) = n
    BY <1>3, <1>4, <2>2 DEF KeptFor
  <2>4. storage'[x] = Append(old, 0)
    BY <1>6, <2>1 DEF AddDescriptor
  <2>5. PICK N : N = 0 .. p + 1
    OBVIOUS
  <2>6. old \in Seq(N) /\ 0 \in N
    BY <2>3, <2>5, WiderSeq
  <2>7. /\ Append(old, 0) \in Seq(N) /\ Len(Append(old, 0)) = n + 1 /\ Grown(old, Append(old, 0))
        /\ Append(old, 0)[n + 1] = 0
    BY <2>3, <2>6, AppendGrows
  <2>8. \A d \in 1 .. n : old[d] \in 0 .. p /\ d \in DOMAIN old
    BY <2>3
  <2>9. \A d \in 1 .. n : Append(old, 0)[d] = old[d]
    BY <2>7, <2>8 DEF Grown
  <2>10. \A d \in 1 .. n : old[d] # 0 => product[old[d]].by = d
    BY <2>2, <2>8 DEF KeptFor
  <2> QED BY <2>1, <2>4, <2>5, <2>7, <2>8, <2>9, <2>10
<1>16. cleared' = cleared /\ registered' = p /\ result' = NoResult /\ calls' = <<>> /\ DOMAIN storage' = Storages
  BY <1>4, <1>6 DEF AddDescriptor, NoCalls
<1>17. KeptSound'
  <2>1. KeptFor(instance)'
    <3>1. DOMAIN instance' = 1 .. n + 1
      BY <1>14
    <3>2. \A d \in 1 .. n : instance'[d] # 0 => product'[instance'[d]].by = d
      <4> SUFFICES ASSUME NEW d \in 1 .. n, instance'[d] # 0 PROVE product'[instance'[d]].by = d
        OBVIOUS
      <4>1. PICK m : m = instance[d] /\ m = instance'[d] /\ m \in 1 .. p /\ product[m].by = d
        BY <1>14
      <4> QED BY <1>11, <1>12, <4>1
    <3>3. product'[instance'[n + 1]].by = n + 1
      BY <1>5, <1>10, <1>14
    <3>4. \A d \in DOMAIN instance' : d \in 1 .. n \/ d = n + 1
      BY <3>1
    <3> QED BY <1>8, <1>10, <1>14, <3>2, <3>3, <3>4 DEF KeptFor
  <2>2. \A x \in Storages : KeptFor(storage[x])'
    <3> SUFFICES ASSUME NEW x \in Storages PROVE KeptFor(storage[x])'
      OBVIOUS
    <3>1. PICK old, new : old = storage[x] /\ new = storage'[x]
      OBVIOUS
    <3>2. /\ new \in Seq(0 .. p + 1) /\ Len(new) = n + 1 /\ new[n + 1] = 0
          /\ \A d \in 1 .. n : /\ new[d] = old[d] /\ old[d] \in 0 .. p
                               /\ old[d] # 0 => product[old[d]].by = d
      BY <1>15, <3>1
    <3>3. \A d \in 1 .. n : new[d] # 0 => product'[new[d]].by = d
      <4> SUFFICES ASSUME NEW d \in 1 .. n, new[d] # 0 PROVE product'[new[d]].by = d
        OBVIOUS
      <4>1. PICK m : m = old[d] /\ m = new[d] /\ m \in 1 .. p /\ product[m].by = d
        BY <1>4, <3>2
      <4> QED BY <1>11, <1>12, <4>1
    <3>4. \A d \in DOMAIN new : d \in 1 .. n \/ new[d] = 0
      BY <3>2
    <3> QED BY <1>8, <1>10, <3>1, <3>2, <3>3, <3>4 DEF KeptFor
  <2>3. \A m \in 1 .. p : ProductKept(m)'
    <3> SUFFICES ASSUME NEW m \in 1 .. p PROVE ProductKept(m)'
      OBVIOUS
    <3>1. ProductKept(m)
      BY <1>1, <1>11 DEF KeptSound
    <3>2. PICK d, x, age : d \in 1 .. n /\ d = product[m].by /\ x = product[m].place /\ age = product[m].age
      BY <1>11, <1>12
    <3>3. d = product'[m].by /\ x = product'[m].place /\ age = product'[m].age
      BY <1>11, <1>12, <3>2
    <3>4. d \in DOMAIN descriptor' /\ descriptor'[d] = descriptor[d] /\ instance'[d] = instance[d]
      BY <1>9, <1>11, <1>14, <3>2
    <3>5. x \in Storages => storage'[x][d] = storage[x][d]
      BY <1>15, <3>2
    <3> QED BY <1>16, <3>1, <3>2, <3>3, <3>4, <3>5 DEF ProductKept
  <2>4. ProductKept(p + 1)'
    <3>1. product'[p + 1].by = n + 1 /\ product'[p + 1].place = "nowhere" /\ product'[p + 1].age = 0
      BY <1>5, <1>10
    <3>2. n + 1 \in DOMAIN descriptor'
      BY <1>8 DEF Grown
    <3>3. cleared \in [Storages -> Nat]
      BY <1>1 DEF KeptSound
    <3>4. descriptor'[n + 1].lifetime = "Persistent" /\ "Persistent" # "StoragePersistent"
      BY <1>8
    <3> QED BY <1>14, <1>16, <3>1, <3>2, <3>3, <3>4 DEF ProductKept
  <2>5. cleared' \in [Storages -> Nat] /\ registered' \in 0 .. Len(product')
    BY <1>1, <1>10, <1>16 DEF KeptSound
  <2>6. \A m \in DOMAIN product' : ProductKept(m)'
    BY <1>11, <2>3, <2>4
  <2> QED BY <1>10, <1>16, <2>1, <2>2, <2>5, <2>6 DEF KeptSound
<1>18. InstancesRight'
  <2>1. OneInstance'
    <3>1. OneInstance
      BY <1>1 DEF InstancesRight
    <3>2. product'[p + 1].by = n + 1
      BY <1>5, <1>10
    <3> QED BY <1>9, <1>11, <1>12, <3>1, <3>2 DEF OneInstance, MadeBy
  <2>2. ManyInOrder'
    BY <1>16 DEF ManyInOrder, NoResult
  <2>3. PartsCurrent'
    <3>1. MadeBy(p + 1)'.factory.kind = "exception"
      BY <1>5, <1>7, <1>8, <1>10 DEF MadeBy
    <3> QED BY <1>10, <1>16, <3>1 DEF PartsCurrent
  <2> QED BY <2>1, <2>2, <2>3 DEF InstancesRight
<1>19. CallsSound'
  BY <1>16 DEF CallsSound, NoCalls
<1> QED BY <1>8, <1>17, <1>18, <1>19 DEF ContainerInv

(* patch(): all descriptors of a service are replaced, in their collection.  *)
LEMMA PatchKeeps ==
    ASSUME ContainerInv, NEW s \in Services, NEW func \in Patches, Patch(s, func)
    PROVE  ContainerInv'
<1>1. RegistrySound /\ KeptSound /\ CallsSound /\ InstancesRight
  BY DEF ContainerInv
<1>2. PICK n \in Nat : n = Len(descriptor)
  BY <1>1, DescriptorTypes
<1>3. PICK c \in 1 .. Len(collection) : c = descriptorsMap[s]
  BY <1>1 DEF Patch, RegistrySound
<1>4. PICK old \in Seq(Nat) : old = collection[c]
  BY <1>1 DEF RegistrySound
<1>5. PICK k \in Nat : k = Len(old)
  OBVIOUS
<1>6. DOMAIN old = 1 .. k
  BY <1>5
<1>7. \A i \in 1 .. k : old[i] \in DOMAIN descriptor /\ old[i] \in 1 .. n /\ descriptor[old[i]].service = s
  <2>1. DescriptorsOf(s) = old
    BY <1>3, <1>4 DEF DescriptorsOf, Listed
  <2>2. \A i \in DOMAIN old : old[i] \in DOMAIN descriptor /\ descriptor[old[i]].service = s
    BY <1>1, <2>1 DEF RegistrySound, IsOf
  <2> QED BY <1>1, <1>2, <1>6, <2>2, DescriptorTypes
<1>8. PICK patch : patch = [i \in 1 .. k |-> [kind |-> "patch", original |-> old[i],
                                              func |-> i = 1 \/ func = "keeps"]]
  OBVIOUS
<1>9. \A i \in 1 .. k : patch[i] \in Factories /\ patch[i].kind = "patch" /\ patch[i].original = old[i]
  BY <1>4, <1>6, <1>8 DEF Factories
<1>10. PICK added : added = [i \in 1 .. k |-> [descriptor[old[i]] EXCEPT !.factory = patch[i]]]
  OBVIOUS
<1>11. PICK new : new = [i \in 1 .. k |-> n + i]
  OBVIOUS
<1>12. PICK zeros : zeros = [i \in 1 .. k |-> 0]
  OBVIOUS
<1>13. /\ collection' = [collection EXCEPT ![c] = new] /\ descriptor' = descriptor \o added
       /\ descriptorsMap' = descriptorsMap /\ instance' = instance \o zeros
       /\ storage' = [x \in Storages |-> storage[x] \o zeros] /\ product' = product
       /\ registered' = Len(product) /\ result' = NoResult /\ cleared' = cleared /\ calls' = <<>>
  BY <1>2, <1>3, <1>4, <1>6, <1>8, <1>10, <1>11, <1>12 DEF Patch, NoCalls
<1>14. PICK R : R = [service : Services, lifetime : Lifetimes, factory : Factories]
  OBVIOUS
<1>15. descriptor \in Seq(R)
  BY <1>1, <1>14 DEF RegistrySound
<1>16. \A i \in 1 .. k : added[i] \in R /\ added[i].service = s /\ added[i].factory = patch[i]
  <2> SUFFICES ASSUME NEW i \in 1 .. k
               PROVE  added[i] \in R /\ added[i].service = s /\ added[i].factory = patch[i]
    OBVIOUS
  <2>1. PICK r \in R : r = descriptor[old[i]]
    BY <1>7, <1>15
  <2>2. added[i] = [r EXCEPT !.factory = patch[i]]
    BY <1>10, <2>1
  <2> QED BY <1>7, <1>9, <1>14, <2>1, <2>2
<1>17. /\ descriptor' \in Seq(R) /\ Len(descriptor') = n + k /\ Grown(descriptor, descriptor')
       /\ \A i \in 1 .. k : descriptor'[n + i] = added[i]
  <2>1. PICK a \in Seq(R) : a = added /\ Len(a) = k
    <3>1. added \in [1 .. k -> R]
      BY <1>10, <1>16
    <3>2. added \in Seq(R) /\ Len(added) = k
      BY <1>5, <3>1
    <3> QED BY <3>2
  <2>2. /\ descriptor \o a \in Seq(R) /\ Len(descriptor \o a) = n + k
        /\ Grown(descriptor, descriptor \o a) /\ \A i \in 1 .. k : (descriptor \o a)[n + i] = a[i]
    <3>1. PICK b \in Seq(R) : b = descriptor /\ Len(b) = n
      BY <1>2, <1>15
    <3>2. /\ b \o a \in Seq(R) /\ Len(b \o a) = Len(b) + Len(a) /\ Grown(b, b \o a)
          /\ \A i \in 1 .. Len(a) : (b \o a)[Len(b) + i] = a[i]
      BY JoinGrows
    <3> QED BY <2>1, <3>1, <3>2
  <2> QED BY <1>13, <2>1, <2>2
<1>18. /\ \A d \in DOMAIN descriptor : d \in DOMAIN descriptor' /\ descriptor'[d] = descriptor[d]
       /\ DOMAIN descriptor' = 1 .. n + k /\ DOMAIN descriptor = 1 .. n
  BY <1>2, <1>17 DEF Grown
<1>19. collection' \in Seq(Seq(Nat)) /\ Len(collection') = Len(collection)
  <2>1. PICK T : T = Seq(Nat)
    OBVIOUS
  <2>2. new \in [1 .. k -> Nat]
    BY <1>2, <1>5, <1>11
  <2>3. collection \in Seq(T) /\ new \in T
    <3>1. new \in Seq(Nat)
      BY <1>5, <2>2, SMTT(30)
    <3> QED BY <1>1, <2>1, <3>1 DEF RegistrySound
  <2>4. collection' \in Seq(T) /\ Len(collection') = Len(collection)
    BY <1>3, <1>13, <2>3
  <2> QED BY <2>1, <2>4
<1>20. ASSUME NEW t \in Services
       PROVE  (\A i \in DOMAIN DescriptorsOf(t) : IsOf(DescriptorsOf(t)[i], t))'
  <2>1. CASE t = s
    <3>1. DescriptorsOf(t)' = new /\ DOMAIN new = 1 .. k
      BY <1>3, <1>11, <1>13, <2>1 DEF DescriptorsOf, Listed, RegistrySound
    <3>2. \A i \in 1 .. k : new[i] = n + i /\ n + i \in DOMAIN descriptor'
      BY <1>2, <1>5, <1>11, <1>18
    <3>3. \A i \in 1 .. k : descriptor'[n + i].service = t
      BY <1>16, <1>17, <2>1
    <3> QED BY <3>1, <3>2, <3>3 DEF IsOf
  <2>2. CASE t # s
    <3>1. PICK list : list = DescriptorsOf(t)
      OBVIOUS
    <3>2. \A i \in DOMAIN list : list[i] \in DOMAIN descriptor /\ descriptor[list[i]].service = t
      BY <1>1, <3>1 DEF RegistrySound, IsOf
    <3>3. descriptorsMap[t] \in 0 .. Len(collection) /\ (descriptorsMap[t] # 0 => descriptorsMap[t] # c)
      BY <1>1, <1>3, <2>2 DEF RegistrySound
    <3>4. DescriptorsOf(t)' = list
      <4>1. descriptorsMap[t] # 0 => collection'[descriptorsMap[t]] = collection[descriptorsMap[t]]
        BY <1>1, <1>13, <3>3 DEF RegistrySound
      <4> QED BY <1>13, <3>1, <4>1 DEF DescriptorsOf, Listed
    <3> QED BY <1>18, <3>2, <3>4 DEF IsOf
  <2> QED BY <2>1, <2>2
<1>21. ASSUME NEW d \in DOMAIN descriptor PROVE FactorySound(d)'
  <2>1. PICK f, u : /\ f = descriptor[d].factory /\ f = descriptor'[d].factory
                    /\ u = descriptor[d].service /\ u = descriptor'[d].service
    BY <1>18
  <2>2. /\ f.kind = "injection" => \A j \in DOMAIN f.deps :
             /\ f.deps[j].from = descriptorsMap[f.deps[j].service] /\ f.deps[j].from # 0
             /\ Rank[f.deps[j].service] < Rank[u]
        /\ f.kind = "patch" => IsOf(f.original, u) /\ f.original < d
    <3>1. FactorySound(d)
      BY <1>1 DEF RegistrySound
    <3> QED BY <2>1, <3>1 DEF FactorySound
  <2>3. f.kind = "patch" => IsOf(f.original, u)'
    BY <1>18, <2>2 DEF IsOf
  <2> QED BY <1>13, <2>1, <2>2, <2>3 DEF FactorySound
<1>22. ASSUME NEW i \in 1 .. k PROVE FactorySound(n + i)'
  <2>1. descriptor'[n + i].factory = patch[i] /\ descriptor'[n + i].service = s
    BY <1>16, <1>17
  <2>2. old[i] < n + i /\ IsOf(old[i], s)'
    BY <1>2, <1>5, <1>7, <1>18 DEF IsOf
  <2>3. patch[i].kind # "injection"
    BY <1>9
  <2> QED BY <1>9, <2>1, <2>2, <2>3 DEF FactorySound
<1>23. RegistrySound'
  <2>1. \A d \in DOMAIN descriptor' : d \in DOMAIN descriptor \/ \E i \in 1 .. k : d = n + i
    <3> SUFFICES ASSUME NEW d \in 1 .. n + k, d \notin 1 .. n PROVE \E i \in 1 .. k : d = n + i
      BY <1>18
    <3>1. d - n \in 1 .. k /\ d = n + (d - n)
      BY <1>2, <1>5
    <3> QED BY <3>1
  <2>2. \A d \in DOMAIN descriptor' : FactorySound(d)'
    BY <1>21, <1>22, <2>1
  <2>3. /\ descriptorsMap' \in [Services -> 0 .. Len(collection')]
        /\ \A t, u \in Services : descriptorsMap'[t] = descriptorsMap'[u] /\ descriptorsMap'[t] # 0 => t = u
    BY <1>1, <1>13, <1>19 DEF RegistrySound
  <2> QED BY <1>14, <1>17, <1>19, <1>20, <2>2, <2>3 DEF RegistrySound
<1>24. KeptSound' /\ InstancesRight'
  <2>1. zeros \in Seq({0}) /\ Len(zeros) = k
    <3>1. zeros \in [1 .. k -> {0}]
      BY <1>12
    <3> QED BY <1>5, <3>1
  <2>2. \A list : KeptFor(list) => NoneAdded(list, list \o zeros)
    BY <1>1, <1>2, <1>17, <2>1, NoneAppended
  <2>3. NoneAdded(instance, instance')
    BY <1>1, <1>13, <2>2 DEF KeptSound
  <2>4. \A x \in Storages : NoneAdded(storage[x], storage'[x])
    BY <1>1, <1>13, <2>2 DEF KeptSound
  <2> QED BY <1>1, <1>13, <1>17, <2>3, <2>4, RegisteredKeeps
<1>25. CallsSound'
  BY <1>13 DEF CallsSound, NoCalls
<1> QED BY <1>23, <1>24, <1>25 DEF ContainerInv

-----------------------------------------------------------------------------
(* Calls *)

(* What a call has                                                         *)
LEMMA CallTypes ==
    ASSUME NEW f \in Calls
    PROVE  /\ f.by \in Nat /\ f.deps \in SUBSET Nat /\ f.at \in Nat
           /\ f.found \in Seq(Seq(Nat)) /\ f.parts \in Seq(Seq(Nat))
BY DEF Calls

(* What a call has got stays what it was when more is made.                *)
LEMMA FilledGrows ==
    ASSUME NEW made, NEW more, Grown(made, more), NEW f, Filled(made, f)
    PROVE  Filled(more, f)
<1>1. \A n \in DOMAIN made : n \in DOMAIN more /\ more[n] = made[n]
  BY DEF Grown
<1> QED BY <1>1 DEF Filled

(* A call that begins, with a list for the first of its dependencies only    *)
OnlyFirst(found) == found \in Seq(Seq(Nat)) /\ \A k \in DOMAIN found : k # 1 => found[k] = <<>>

(* It has got nothing yet.                                                 *)
LEMMA NewCall ==
    ASSUME NEW d \in Nat, NEW deps \in SUBSET Nat, NEW found, OnlyFirst(found), NEW made,
           NEW f, f = CallOf(d, deps, found)
    PROVE  f \in Calls /\ Filled(made, f) /\ f.by = d /\ f.deps = deps /\ f.found = found
<1>1. PICK T : T = Seq(Nat)
  OBVIOUS
<1>2. PICK n \in Nat : n = Len(found) /\ DOMAIN found = 1 .. n /\ found \in Seq(T)
  BY <1>1 DEF OnlyFirst
<1>3. PICK parts : parts = [k \in 1 .. n |-> <<>>]
  OBVIOUS
<1>4. f = [by |-> d, deps |-> deps, at |-> 1, found |-> found, parts |-> parts]
  BY <1>2, <1>3 DEF CallOf
<1>5. parts \in Seq(T) /\ Len(parts) = n
  <2>1. parts \in [1 .. n -> T]
    BY <1>1, <1>3
  <2> QED BY <1>2, <1>3, <2>1, SMTT(60)
<1>6. f \in Calls
  BY <1>1, <1>4, <1>5 DEF Calls, OnlyFirst
<1>7. Filled(made, f)
  <2>1. f.parts = parts /\ f.found = found /\ f.at = 1
    BY <1>4
  <2>2. \A k \in 1 .. n : parts[k] = <<>> /\ Len(parts[k]) = 0 /\ DOMAIN parts[k] = {}
    BY <1>3
  <2>3. \A k \in 1 .. n : Len(found[k]) \in Nat
    BY <1>1, <1>2
  <2>4. \A k \in 1 .. n : k # 1 => Len(found[k]) = 0
    <3>1. \A k \in 1 .. n : k # 1 => found[k] = <<>>
      BY <1>2 DEF OnlyFirst
    <3> QED BY <3>1
  <2> QED BY <1>2, <1>5, <2>1, <2>2, <2>3, <2>4 DEF Filled
<1> QED BY <1>4, <1>6, <1>7

(* A call that got an instance *)
LEMMA GotFilled ==
    ASSUME NEW made, NEW f \in Calls, Filled(made, f), Pending(f),
           NEW n \in Nat, n \in DOMAIN made, made[n].by = Wanted(f)
    PROVE  /\ Got(f, n) \in Calls /\ Filled(made, Got(f, n))
           /\ Got(f, n).by = f.by /\ Got(f, n).deps = f.deps /\ Got(f, n).found = f.found
<1>1. PICK found, parts, a : found = f.found /\ parts = f.parts /\ a = f.at
  OBVIOUS
<1>2. PICK T : T = Seq(Nat)
  OBVIOUS
<1>3. found \in Seq(T) /\ parts \in Seq(T) /\ a \in Nat /\ Len(parts) = Len(found)
  BY <1>1, <1>2, CallTypes DEF Filled
<1>4. PICK m \in Nat : m = Len(found) /\ m = Len(parts) /\ DOMAIN found = 1 .. m /\ DOMAIN parts = 1 .. m
  BY <1>3
<1>5. a \in 1 .. m /\ Len(parts[a]) < Len(found[a]) /\ made[n].by = found[a][Len(parts[a]) + 1]
  BY <1>1, <1>4 DEF Pending, Wanted
<1>6. PICK list \in Seq(Nat), ds \in Seq(Nat) : list = parts[a] /\ ds = found[a]
  BY <1>2, <1>3, <1>4, <1>5
<1>7. PICK l \in Nat : l = Len(list) /\ DOMAIN list = 1 .. l /\ l < Len(ds) /\ made[n].by = ds[l + 1]
  BY <1>5, <1>6, SMTT(30)
<1>8. PICK new : new = Append(list, n)
  OBVIOUS
<1>9. /\ new \in Seq(Nat) /\ Len(new) = l + 1 /\ DOMAIN new = 1 .. l + 1 /\ new[l + 1] = n
      /\ \A i \in 1 .. l : new[i] = list[i]
  BY <1>6, <1>7, <1>8
<1>10. PICK all : all = [parts EXCEPT ![a] = new]
  OBVIOUS
<1>11. all \in Seq(T) /\ Len(all) = m /\ all[a] = new /\ \A k \in 1 .. m : k # a => all[k] = parts[k]
  BY <1>2, <1>3, <1>4, <1>5, <1>9, <1>10
<1>12. PICK g : g = Got(f, n)
  OBVIOUS
<1>13. /\ g = [f EXCEPT !.parts = all]
  BY <1>1, <1>6, <1>8, <1>10, <1>12 DEF Got
<1>14. /\ g \in Calls /\ g.by = f.by /\ g.deps = f.deps /\ g.found = found /\ g.at = a /\ g.parts = all
  BY <1>1, <1>2, <1>11, <1>13 DEF Calls
<1>15. \A k \in 1 .. m :
         /\ IF k = a THEN Len(parts[k]) <= Len(found[k]) ELSE Len(parts[k]) = Len(found[k])
         /\ \A i \in DOMAIN parts[k] : parts[k][i] \in DOMAIN made /\ made[parts[k][i]].by = found[k][i]
  BY <1>1, <1>4 DEF Filled
<1>16. ASSUME NEW k \in 1 .. m
       PROVE  /\ IF k = a THEN Len(all[k]) <= Len(found[k]) ELSE Len(all[k]) = Len(found[k])
              /\ \A i \in DOMAIN all[k] : all[k][i] \in DOMAIN made /\ made[all[k][i]].by = found[k][i]
  <2>1. CASE k # a
    BY <1>11, <1>15, <2>1
  <2>2. CASE k = a
    <3>1. \A i \in 1 .. l : list[i] \in DOMAIN made /\ made[list[i]].by = ds[i]
      BY <1>6, <1>7, <1>15, <2>2
    <3>2. \A i \in 1 .. l + 1 : new[i] \in DOMAIN made /\ made[new[i]].by = ds[i]
      <4> SUFFICES ASSUME NEW i \in 1 .. l + 1 PROVE new[i] \in DOMAIN made /\ made[new[i]].by = ds[i]
        OBVIOUS
      <4>1. CASE i = l + 1
        BY <1>7, <1>9, <4>1
      <4>2. CASE i # l + 1
        <5>1. i \in 1 .. l
          BY <1>7, <4>2
        <5> QED BY <1>9, <3>1, <5>1
      <4> QED BY <4>1, <4>2
    <3>3. l + 1 <= Len(ds)
      BY <1>6, <1>7
    <3> QED BY <1>6, <1>9, <1>11, <2>2, <3>2, <3>3
  <2> QED BY <2>1, <2>2
<1>17. Filled(made, g)
  BY <1>4, <1>11, <1>14, <1>16 DEF Filled
<1> QED BY <1>1, <1>12, <1>14, <1>17

(* What a descriptor has at hand, it has made. *)
LEMMA KeptTypes ==
    ASSUME RegistrySound, KeptSound, Place \in Storages, NEW d \in DOMAIN descriptor
    PROVE  Kept(d) \in 0 .. Len(product) /\ (Kept(d) # 0 => product[Kept(d)].by = d)
<1>1. ASSUME NEW list, KeptFor(list) PROVE list[d] \in 0 .. Len(product) /\ (list[d] # 0 => product[list[d]].by = d)
  <2>1. d \in DOMAIN list
    BY <1>1, DescriptorTypes DEF KeptFor
  <2> QED BY <1>1, <2>1 DEF KeptFor
<1>2. KeptFor(instance) /\ KeptFor(storage[Place])
  BY DEF KeptSound
<1>3. /\ instance[d] \in 0 .. Len(product) /\ (instance[d] # 0 => product[instance[d]].by = d)
      /\ storage[Place][d] \in 0 .. Len(product) /\ (storage[Place][d] # 0 => product[storage[Place][d]].by = d)
  BY <1>1, <1>2
<1>4. 0 \in 0 .. Len(product)
  BY ProductTypes
<1>5. CASE descriptor[d].lifetime = "Persistent"
  BY <1>3, <1>5 DEF Kept
<1>6. CASE descriptor[d].lifetime = "StoragePersistent"
  <2>1. Kept(d) = storage[Place][d]
    BY <1>6 DEF Kept
  <2> QED BY <1>3, <2>1
<1>7. CASE descriptor[d].lifetime \notin {"Persistent", "StoragePersistent"}
  <2>1. Kept(d) = 0
    BY <1>7 DEF Kept
  <2> QED BY <1>4, <2>1
<1> QED BY <1>5, <1>6, <1>7

(* The last call is of the factory of a descriptor or the first, and what   *)
(* it wants is a descriptor that comes before its own.                      *)
LEMMA RunningTypes ==
    ASSUME CallsSound, ~NoCalls
    PROVE  /\ Len(calls) \in Nat \ {0} /\ DOMAIN calls = 1 .. Len(calls) /\ Len(calls) \in DOMAIN calls
           /\ \A j \in DOMAIN calls : calls[j] \in Calls /\ Filled(product, calls[j])
           /\ Running \in Calls /\ Filled(product, Running)
           /\ IF Len(calls) = 1 THEN RootSound(Running) ELSE CallSound(Running)
           /\ Place \in Storages /\ result = NoResult /\ asked.service \in Services
<1>1. calls \in Seq(Calls) /\ calls # <<>>
  BY DEF CallsSound, NoCalls
<1>2. /\ Len(calls) \in Nat \ {0} /\ DOMAIN calls = 1 .. Len(calls) /\ Len(calls) \in DOMAIN calls
      /\ \A j \in DOMAIN calls : calls[j] \in Calls
  BY <1>1
<1>3. /\ \A j \in DOMAIN calls : Filled(product, calls[j])
      /\ IF Len(calls) = 1 THEN RootSound(Running) ELSE CallSound(Running)
  BY <1>2 DEF CallsSound, Running
<1>4. Place \in Storages /\ result = NoResult /\ asked.service \in Services
  BY DEF CallsSound, Place
<1> QED BY <1>2, <1>3, <1>4 DEF Running

(* A factory only asks for what comes before its descriptor.               *)
LEMMA WantedBefore ==
    ASSUME RegistrySound, CallsSound, ~NoCalls, Pending(Running)
    PROVE  /\ Wanted(Running) \in DOMAIN descriptor
           /\ Len(calls) # 1 => Before(Wanted(Running), Running.by)
<1>1. PICK f \in Calls : f = Running
  BY RunningTypes
<1>2. PICK a, found, parts : a = f.at /\ a \in Nat /\ found = f.found /\ parts = f.parts
  BY <1>1, CallTypes
<1>3. PICK T : T = Seq(Nat)
  OBVIOUS
<1>4. found \in Seq(T) /\ parts \in Seq(T) /\ a \in DOMAIN found /\ a \in DOMAIN parts
  <2>1. found \in Seq(T) /\ parts \in Seq(T) /\ Len(parts) = Len(found)
    BY <1>1, <1>2, <1>3, CallTypes, RunningTypes DEF Filled
  <2> QED BY <1>1, <1>2, <2>1 DEF Pending
<1>5. PICK ds \in Seq(Nat), list \in Seq(Nat) : ds = found[a] /\ list = parts[a]
  BY <1>3, <1>4
<1>6. PICK l \in Nat : l = Len(list) /\ l < Len(ds) /\ Wanted(f) = ds[l + 1]
  <2>1. f.parts[f.at] = list /\ f.found[f.at] = ds /\ Pending(f)
    BY <1>1, <1>2, <1>5
  <2>2. PICK l \in Nat : l = Len(list)
    BY <1>5
  <2>3. l < Len(ds) /\ Wanted(f) = ds[l + 1]
    BY <2>1, <2>2 DEF Pending, Wanted
  <2> QED BY <2>2, <2>3
<1>7. l + 1 \in DOMAIN ds
  BY <1>5, <1>6
<1>8. CASE Len(calls) = 1
  <2>1. found = <<Listed(descriptorsMap[asked.service])>>
    BY <1>1, <1>2, <1>8, RunningTypes DEF RootSound
  <2>2. a = 1 /\ ds = DescriptorsOf(asked.service)
    BY <1>4, <1>5, <2>1 DEF DescriptorsOf
  <2>3. IsOf(ds[l + 1], asked.service)
    BY <1>7, <2>2, RunningTypes DEF RegistrySound
  <2> QED BY <1>1, <1>6, <1>8, <2>3 DEF IsOf
<1>9. CASE Len(calls) # 1
  <2>1. CallSound(f)
    BY <1>1, <1>9, RunningTypes
  <2>2. PICK d, factory : d = f.by /\ factory = descriptor[d].factory
    OBVIOUS
  <2>3. d \in DOMAIN descriptor /\ factory.kind # "exception"
    BY <2>1, <2>2 DEF CallSound
  <2>4. factory \in Factories /\ descriptor[d].service \in Services
    BY <2>2, <2>3, DescriptorTypes
  <2>5. FactorySound(d)
    BY <2>3 DEF RegistrySound
  <2>6. CASE factory.kind = "injection"
    <3>1. /\ Len(found) = Len(factory.deps)
          /\ \A k \in DOMAIN factory.deps :
               found[k] = IF k \in f.deps THEN <<>> ELSE collection[factory.deps[k].from]
      BY <1>2, <2>1, <2>2, <2>6 DEF CallSound
    <3>2. DOMAIN factory.deps = DOMAIN found
      <4>1. factory.deps \in Seq([service : Services, many : BOOLEAN, from : Nat])
        BY <2>4, <2>6, FactoryTypes
      <4> QED BY <1>4, <3>1, <4>1
    <3>3. ds # <<>>
      BY <1>5, <1>6
    <3>4. a \in DOMAIN factory.deps /\ ds = collection[factory.deps[a].from]
      BY <1>4, <1>5, <3>1, <3>2, <3>3
    <3>5. PICK s \in Services : s = factory.deps[a].service
      BY <2>4, <2>6, <3>4, FactoryTypes
    <3>6. /\ factory.deps[a].from = descriptorsMap[s] /\ factory.deps[a].from # 0
          /\ Rank[s] < Rank[descriptor[d].service]
      BY <2>2, <2>5, <2>6, <3>4, <3>5 DEF FactorySound
    <3>7. ds = DescriptorsOf(s)
      BY <3>4, <3>6 DEF DescriptorsOf, Listed
    <3>8. IsOf(ds[l + 1], s)
      BY <1>7, <3>7 DEF RegistrySound
    <3> QED BY <1>1, <1>6, <2>2, <3>6, <3>8 DEF IsOf, Before
  <2>7. CASE factory.kind = "patch"
    <3>1. found = <<<<factory.original>>>>
      BY <1>2, <2>1, <2>2, <2>7 DEF CallSound
    <3>2. a = 1 /\ ds = <<factory.original>>
      BY <1>4, <1>5, <3>1
    <3>3. ds[l + 1] = factory.original
      BY <1>6, <1>7, <3>2
    <3>4. IsOf(factory.original, descriptor[d].service) /\ factory.original < d
      BY <2>2, <2>5, <2>7 DEF FactorySound
    <3> QED BY <1>1, <1>6, <2>2, <3>3, <3>4 DEF IsOf, Before
  <2> QED BY <2>3, <2>4, <2>6, <2>7, FactoryTypes
<1> QED BY <1>8, <1>9

(* The calls go on, or end: the last one is g.                              *)
LEMMA CallsGoOn ==
    ASSUME CallsSound, ~NoCalls, UNCHANGED <<registryVars, asked, result>>, Grown(product, product'),
           NEW t \in DOMAIN calls, calls' \in Seq(Calls), Len(calls') = t,
           \A j \in 1 .. t - 1 : calls'[j] = calls[j],
           \A j \in 2 .. t - 1 : \A d \in {calls[j].by} : Kept(d)' = 0,
           NEW g, g = calls'[t], g.by = calls[t].by, Filled(product', g),
           IF t = 1 THEN RootSound(g)' ELSE CallSound(g)'
    PROVE  CallsSound'
<1>1. /\ Len(calls) \in Nat /\ DOMAIN calls = 1 .. Len(calls) /\ result = NoResult
      /\ asked \in [service : Services, many : BOOLEAN, place : Storages]
  BY RunningTypes DEF CallsSound
<1>2. DOMAIN calls' = 1 .. t /\ t \in Nat /\ t >= 1
  BY <1>1
<1>3. ASSUME NEW j \in 1 .. t - 1
      PROVE  /\ Filled(product', calls[j])
             /\ \A f \in {calls[j]} : IF j = 1 THEN RootSound(f)'
                 ELSE CallSound(f)' /\ Pending(calls[j - 1]) /\ Wanted(calls[j - 1]) = f.by
  <2>1. PICK f : f = calls[j]
    OBVIOUS
  <2>2. j \in DOMAIN calls
    BY <1>1, <1>2
  <2>3. Filled(product', f)
    BY <2>1, <2>2, RunningTypes, FilledGrows
  <2>4. CASE j = 1
    <3>1. RootSound(f)
      BY <2>1, <2>2, <2>4 DEF CallsSound
    <3>2. RootSound(f)'
      BY <3>1 DEF RootSound, Listed, registryVars
    <3> QED BY <2>1, <2>3, <2>4, <3>2
  <2>5. CASE j # 1
    <3>1. CallSound(f) /\ Pending(calls[j - 1]) /\ Wanted(calls[j - 1]) = f.by
      BY <2>1, <2>2, <2>5 DEF CallsSound
    <3>2. PICK d : d = f.by
      OBVIOUS
    <3>3. j \in 2 .. t - 1
      BY <1>2, <2>5
    <3>4. Kept(d)' = 0
      BY <2>1, <3>2, <3>3
    <3>5. CallSound(f)'
      BY <3>1, <3>2, <3>4 DEF CallSound, registryVars
    <3> QED BY <2>1, <2>3, <2>5, <3>1, <3>5
  <2> QED BY <2>4, <2>5
<1>4. t # 1 => Pending(calls[t - 1]) /\ Wanted(calls[t - 1]) = g.by
  BY <1>1 DEF CallsSound
<1>5. \A j \in DOMAIN calls' : Filled(product', calls'[j])
  <2>1. \A j \in DOMAIN calls' : j \in 1 .. t - 1 \/ j = t
    BY <1>2
  <2> QED BY <1>3, <2>1
<1>6. ASSUME NEW j \in DOMAIN calls', NEW f \in {calls'[j]}
      PROVE  (IF j = 1 THEN RootSound(f)
              ELSE CallSound(f) /\ Pending(calls[j - 1]) /\ Wanted(calls[j - 1]) = f.by)'
  <2>1. j # 1 => calls'[j - 1] = calls[j - 1]
    <3>1. j # 1 => j - 1 \in 1 .. t - 1
      BY <1>2
    <3> QED BY <3>1
  <2>2. CASE j = t
    BY <1>4, <2>1, <2>2
  <2>3. CASE j # t
    <3>1. j \in 1 .. t - 1
      BY <1>2, <2>3
    <3> QED BY <1>3, <2>1, <3>1
  <2> QED BY <2>2, <2>3
<1>7. \A i, j \in 2 .. t : i < j => Before(calls[j].by, calls[i].by)
  <2>1. \A j \in 2 .. t : j \in 2 .. Len(calls)
    BY <1>1
  <2> QED BY <2>1 DEF CallsSound
<1>8. \A j \in 1 .. t : calls'[j].by = calls[j].by
  <2>1. \A j \in 1 .. t : j \in 1 .. t - 1 \/ j = t
    BY <1>2
  <2> QED BY <2>1
<1>9. \A i, j \in 2 .. t : i < j => Before(calls[j].by, calls[i].by)'
  <2>1. \A j \in 2 .. t : j \in 1 .. t
    BY <1>2
  <2> QED BY <1>7, <1>8, <2>1 DEF Before, registryVars
<1> QED BY <1>1, <1>5, <1>6, <1>9 DEF CallsSound

-----------------------------------------------------------------------------
(* The steps of a resolution *)

(* What was made is right, whatever else changes.                           *)
ProductsStay == UNCHANGED <<registryVars, product>>

LEMMA ProductsTheSame ==
    ASSUME InstancesRight, ProductsStay
    PROVE  OneInstance' /\ PartsCurrent'
<1>1. OneInstance'
  BY DEF ProductsStay, registryVars, InstancesRight, OneInstance, MadeBy
<1>2. PartsCurrent'
  <2>1. \A s : DescriptorsOf(s)' = DescriptorsOf(s)
    BY DEF ProductsStay, registryVars, DescriptorsOf, Listed
  <2>2. \A n : MadeBy(n)' = MadeBy(n)
    BY DEF ProductsStay, registryVars, MadeBy
  <2>3. product' = product /\ registered' = registered
    BY DEF ProductsStay, registryVars
  <2> SUFFICES ASSUME NEW n \in registered + 1 .. Len(product), NEW made, made = MadeBy(n),
                      made.factory.kind = "injection", NEW k \in DOMAIN product[n].parts
               PROVE  \A s \in {made.factory.deps[k].service} :
                        [i \in DOMAIN product[n].parts[k] |-> product[product[n].parts[k][i]].by]
                          = DescriptorsOf(s)'
    BY <2>2, <2>3 DEF PartsCurrent, DescriptorsOf, Listed
  <2> QED BY <2>1 DEF InstancesRight, PartsCurrent
<1> QED BY <1>1, <1>2

(* Nothing is registered while a get() runs.                               *)
LEMMA RegistryStays ==
    ASSUME RegistrySound, UNCHANGED registryVars
    PROVE  RegistrySound'
<1>1. \A s : DescriptorsOf(s)' = DescriptorsOf(s)
  BY DEF registryVars, DescriptorsOf, Listed
<1>2. \A d, s : IsOf(d, s)' <=> IsOf(d, s)
  BY DEF registryVars, IsOf
<1>3. \A d \in DOMAIN descriptor : FactorySound(d)'
  BY DEF registryVars, RegistrySound, FactorySound, IsOf
<1> QED BY <1>1, <1>2, <1>3 DEF registryVars, RegistrySound

(* A step that only moves the calls                                        *)
LEMMA NothingChanges ==
    ASSUME RegistrySound, KeptSound, InstancesRight, UNCHANGED <<registryVars, keptVars, cleared>>
    PROVE  RegistrySound' /\ KeptSound' /\ OneInstance' /\ PartsCurrent'
<1>1. RegistrySound'
  BY RegistryStays
<1>2. KeptSound'
  <2>1. \A list : KeptFor(list)' <=> KeptFor(list)
    BY DEF registryVars, keptVars, KeptFor
  <2>2. \A n \in DOMAIN product : ProductKept(n)'
    BY DEF registryVars, keptVars, KeptSound, ProductKept
  <2>3. KeptFor(instance)'
    BY <2>1 DEF keptVars, KeptSound, KeptFor
  <2>4. \A x \in Storages : KeptFor(storage[x])'
    BY <2>1 DEF keptVars, KeptSound, KeptFor
  <2> QED BY <2>2, <2>3, <2>4 DEF registryVars, keptVars, KeptSound
<1>3. OneInstance' /\ PartsCurrent'
  BY ProductsTheSame DEF ProductsStay, keptVars
<1> QED BY <1>1, <1>2, <1>3

(* A step that returns nothing                                             *)
LEMMA NothingMade ==
    ASSUME RegistrySound, KeptSound, InstancesRight, UNCHANGED <<registryVars, keptVars, cleared>>,
           result'.is # "returned"
    PROVE  RegistrySound' /\ KeptSound' /\ InstancesRight'
<1>1. RegistrySound' /\ KeptSound' /\ OneInstance' /\ PartsCurrent'
  BY NothingChanges
<1>2. ManyInOrder'
  BY DEF ManyInOrder
<1> QED BY <1>1, <1>2 DEF InstancesRight

(* Every sequence is the beginning of itself.                              *)
LEMMA NothingGrows ==
    ASSUME KeptSound PROVE Grown(product, product)
BY ProductTypes DEF Grown

(* An exception *)
LEMMA ExceptionKeeps ==
    ASSUME ContainerInv, Throw
    PROVE  ContainerInv'
<1>1. RegistrySound' /\ KeptSound' /\ InstancesRight'
  BY NothingMade DEF ContainerInv, Throw
<1>2. CallsSound'
  BY DEF Throw, CallsSound, NoCalls
<1> QED BY <1>1, <1>2 DEF ContainerInv

(* get() and getMany() *)
LEMMA GetServiceKeeps ==
    ASSUME ContainerInv, NEW s \in Services, NEW many \in BOOLEAN, NEW x \in Storages,
           GetService(s, many, x)
    PROVE  ContainerInv'
<1>1. RegistrySound /\ KeptSound /\ CallsSound /\ InstancesRight
  BY DEF ContainerInv
<1>2. /\ UNCHANGED <<registryVars, keptVars, cleared>> /\ NoCalls
      /\ asked' = [service |-> s, many |-> many, place |-> x]
  BY DEF GetService
<1>3. CASE Refused(descriptorsMap[s], many)
  <2>1. result' = [is |-> "failed", list |-> <<>>] /\ calls' = <<>>
    BY <1>3 DEF GetService, NoCalls
  <2>2. CallsSound'
    BY <2>1 DEF CallsSound, NoCalls
  <2> QED BY <1>1, <1>2, <2>1, <2>2, NothingMade DEF ContainerInv
<1>4. CASE ~Refused(descriptorsMap[s], many)
  <2>1. PICK list : list = Listed(descriptorsMap[s])
    OBVIOUS
  <2>2. list \in Seq(Nat)
    <3>1. descriptorsMap[s] \in 0 .. Len(collection) /\ collection \in Seq(Seq(Nat))
      BY <1>1 DEF RegistrySound
    <3> QED BY <2>1, <3>1 DEF Listed
  <2>3. PICK found : found = <<list>>
    OBVIOUS
  <2>4. OnlyFirst(found)
    BY <2>2, <2>3 DEF OnlyFirst
  <2>5. PICK f : f = CallOf(0, {}, found)
    OBVIOUS
  <2>6. f \in Calls /\ Filled(product, f) /\ f.by = 0 /\ f.deps = {} /\ f.found = found
    <3>1. PICK d \in Nat, none \in SUBSET Nat : d = 0 /\ none = {}
      OBVIOUS
    <3>2. PICK made : made = product
      OBVIOUS
    <3>3. f = CallOf(d, none, found)
      BY <2>5, <3>1
    <3>4. f \in Calls /\ Filled(made, f) /\ f.by = d /\ f.deps = none /\ f.found = found
      BY <2>4, <3>3, NewCall
    <3> QED BY <3>1, <3>2, <3>4
  <2>7. calls' = <<f>> /\ result' = NoResult
    BY <1>4, <2>1, <2>3, <2>5 DEF GetService
  <2>8. RootSound(f)'
    BY <1>2, <2>1, <2>3, <2>6 DEF RootSound, Listed, registryVars
  <2>9. CallsSound'
    <3>1. calls' \in Seq(Calls) /\ DOMAIN calls' = {1} /\ calls'[1] = f /\ Len(calls') = 1
      BY <2>6, <2>7
    <3>2. \A j \in DOMAIN calls' : Filled(product', calls'[j])
      BY <1>2, <2>6, <3>1 DEF keptVars
    <3>3. asked' \in [service : Services, many : BOOLEAN, place : Storages]
      BY <1>2
    <3>4. \A i \in 2 .. Len(calls') : FALSE
      BY <3>1
    <3> QED BY <2>7, <2>8, <3>1, <3>2, <3>3, <3>4 DEF CallsSound
  <2>10. result'.is # "returned"
    BY <2>7 DEF NoResult
  <2> QED BY <1>1, <1>2, <2>9, <2>10, NothingMade DEF ContainerInv
<1> QED BY <1>3, <1>4

(* A factory is called for a descriptor that has no instance.               *)
LEMMA FactoryCalled ==
    ASSUME RegistrySound, NEW d \in DOMAIN descriptor, Kept(d) = 0,
           descriptor[d].factory.kind # "exception", NEW f, f = FactoryCall(d), NEW made
    PROVE  f \in Calls /\ Filled(made, f) /\ f.by = d /\ CallSound(f)
<1>1. PICK factory : factory = descriptor[d].factory
  OBVIOUS
<1>2. d \in Nat /\ factory \in Factories
  BY <1>1, DescriptorTypes
<1>3. CASE factory.kind = "patch"
  <2>1. factory.original \in Nat
    BY <1>2, <1>3, FactoryTypes
  <2>2. PICK found, none : found = <<<<factory.original>>>> /\ none = {}
    OBVIOUS
  <2>3. OnlyFirst(found) /\ none \in SUBSET Nat
    BY <2>1, <2>2 DEF OnlyFirst
  <2>4. f = CallOf(d, none, found)
    BY <1>1, <1>3, <2>2 DEF FactoryCall
  <2>5. f \in Calls /\ Filled(made, f) /\ f.by = d /\ f.deps = none /\ f.found = found
    BY <1>2, <2>3, <2>4, NewCall
  <2>6. CallSound(f)
    BY <1>1, <1>3, <2>2, <2>5 DEF CallSound
  <2> QED BY <2>5, <2>6
<1>4. CASE factory.kind = "injection"
  <2>1. PICK D, deps : /\ D = [service : Services, many : BOOLEAN, from : Nat]
                       /\ deps = factory.deps /\ deps \in Seq(D)
    BY <1>2, <1>4, FactoryTypes
  <2>2. PICK n \in Nat : n = Len(deps) /\ DOMAIN deps = 1 .. n
    BY <2>1
  <2>3. PICK found, all : found = [k \in 1 .. n |-> <<>>] /\ all = 1 .. n
    OBVIOUS
  <2>4. OnlyFirst(found) /\ all \in SUBSET Nat /\ Len(found) = n
    <3>1. found \in [1 .. n -> Seq(Nat)]
      BY <2>3
    <3> QED BY <2>2, <2>3, <3>1 DEF OnlyFirst
  <2>5. f = CallOf(d, all, found)
    BY <1>1, <1>4, <2>1, <2>2, <2>3 DEF FactoryCall
  <2>6. f \in Calls /\ Filled(made, f) /\ f.by = d /\ f.deps = all /\ f.found = found
    BY <1>2, <2>4, <2>5, NewCall, SMTT(30)
  <2>7. CallSound(f)
    BY <1>1, <1>4, <2>1, <2>2, <2>3, <2>4, <2>6 DEF CallSound
  <2> QED BY <2>6, <2>7
<1> QED BY <1>1, <1>2, <1>3, <1>4, FactoryTypes

(* The running call goes on as g.                                           *)
LEMMA RunningGoesOn ==
    ASSUME ContainerInv, ~NoCalls, NEW g \in Calls, Continue([calls EXCEPT ![Len(calls)] = g]),
           g.by = Running.by, Filled(product, g),
           IF Len(calls) = 1 THEN RootSound(g) ELSE CallSound(g)
    PROVE  ContainerInv'
<1>1. RegistrySound /\ KeptSound /\ CallsSound /\ InstancesRight
  BY DEF ContainerInv
<1>2. UNCHANGED <<registryVars, keptVars, asked, result, cleared>>
  BY DEF Continue
<1>3. PICK t \in DOMAIN calls : t = Len(calls) /\ t \in Nat /\ DOMAIN calls = 1 .. t
  BY <1>1, RunningTypes
<1>4. calls' = [calls EXCEPT ![t] = g]
  BY <1>3 DEF Continue
<1>5. calls' \in Seq(Calls) /\ Len(calls') = t /\ g = calls'[t] /\ \A j \in 1 .. t - 1 : calls'[j] = calls[j]
  BY <1>1, <1>3, <1>4 DEF CallsSound
<1>6. g.by = calls[t].by
  BY <1>3 DEF Running
<1>7. \A e : Kept(e)' = Kept(e)
  BY <1>2 DEF Kept, Place, registryVars, keptVars
<1>8. \A j \in 2 .. t - 1 : \A e \in {calls[j].by} : Kept(e)' = 0
  <2> SUFFICES ASSUME NEW j \in 2 .. t - 1, NEW e, e = calls[j].by PROVE Kept(e)' = 0
    OBVIOUS
  <2>1. j \in DOMAIN calls /\ j # 1
    BY <1>3
  <2>2. CallSound(calls[j])
    BY <1>1, <2>1 DEF CallsSound
  <2> QED BY <1>7, <2>2 DEF CallSound
<1>9. IF t = 1 THEN RootSound(g)' ELSE CallSound(g)'
  <2>1. t = 1 => RootSound(g)'
    <3>1. t = 1 => RootSound(g)
      BY <1>3
    <3> QED BY <1>2, <3>1 DEF RootSound, Listed, registryVars
  <2>2. t # 1 => CallSound(g)'
    <3>1. t # 1 => CallSound(g)
      BY <1>3
    <3>2. PICK e : e = g.by
      OBVIOUS
    <3>3. Kept(e)' = Kept(e)
      BY <1>7
    <3> QED BY <1>2, <3>1, <3>2, <3>3 DEF CallSound, registryVars
  <2> QED BY <2>1, <2>2
<1>10. Grown(product, product') /\ Filled(product', g)
  BY <1>1, <1>2, NothingGrows DEF keptVars
<1>11. CallsSound'
  BY <1>1, <1>2, <1>5, <1>6, <1>8, <1>9, <1>10, CallsGoOn
<1>12. result'.is # "returned"
  BY <1>1, <1>2, RunningTypes DEF NoResult
<1> QED BY <1>1, <1>2, <1>11, <1>12, NothingMade DEF ContainerInv

(* ServiceDescriptor::getInstance() *)
LEMMA GetInstanceKeeps ==
    ASSUME ContainerInv, GetInstance
    PROVE  ContainerInv'
<1>1. RegistrySound /\ KeptSound /\ CallsSound /\ InstancesRight
  BY DEF ContainerInv
<1>2. ~NoCalls /\ Pending(Running)
  BY DEF GetInstance
<1>3. PICK d \in DOMAIN descriptor : d = Wanted(Running) /\ (Len(calls) # 1 => Before(d, Running.by))
  BY <1>1, <1>2, WantedBefore
<1>4. /\ Len(calls) \in Nat \ {0} /\ DOMAIN calls = 1 .. Len(calls)
      /\ Running \in Calls /\ Filled(product, Running)
      /\ IF Len(calls) = 1 THEN RootSound(Running) ELSE CallSound(Running)
      /\ Place \in Storages /\ result = NoResult /\ asked.service \in Services
  BY <1>1, <1>2, RunningTypes
<1>5. CASE Kept(d) # 0
  <2>1. PICK n : n = Kept(d)
    OBVIOUS
  <2>2. n \in Nat /\ n \in DOMAIN product /\ product[n].by = Wanted(Running)
    <3>1. n \in 0 .. Len(product) /\ n # 0 /\ product[n].by = d
      BY <1>1, <1>4, <1>5, <2>1, KeptTypes
    <3> QED BY <1>1, <1>3, <3>1, ProductTypes
  <2>3. PICK g : g = Got(Running, n)
    OBVIOUS
  <2>4. /\ g \in Calls /\ Filled(product, g) /\ g.by = Running.by /\ g.deps = Running.deps
        /\ g.found = Running.found
    <3>1. PICK made, f : made = product /\ f = Running
      OBVIOUS
    <3>2. f \in Calls /\ Filled(made, f) /\ Pending(f) /\ n \in DOMAIN made /\ made[n].by = Wanted(f)
      BY <1>2, <1>4, <2>2, <3>1
    <3>3. /\ Got(f, n) \in Calls /\ Filled(made, Got(f, n))
          /\ Got(f, n).by = f.by /\ Got(f, n).deps = f.deps /\ Got(f, n).found = f.found
      BY <2>2, <3>2, GotFilled
    <3> QED BY <2>3, <3>1, <3>3
  <2>5. Continue([calls EXCEPT ![Len(calls)] = g])
    <3>1. [calls EXCEPT ![Len(calls)] = Got(@, n)] = [calls EXCEPT ![Len(calls)] = g]
      BY <2>3 DEF Running
    <3>2. Continue([calls EXCEPT ![Len(calls)] = Got(@, n)])
      BY <1>3, <1>5, <2>1 DEF GetInstance
    <3> QED BY <3>1, <3>2
  <2>6. IF Len(calls) = 1 THEN RootSound(g) ELSE CallSound(g)
    BY <1>4, <2>4 DEF RootSound, CallSound
  <2> QED BY <1>2, <2>4, <2>5, <2>6, RunningGoesOn
<1>6. CASE Kept(d) = 0 /\ descriptor[d].factory.kind = "exception"
  <2>1. Throw
    BY <1>3, <1>6 DEF GetInstance
  <2> QED BY <2>1, ExceptionKeeps
<1>7. CASE Kept(d) = 0 /\ descriptor[d].factory.kind # "exception"
  <2>1. PICK f : f = FactoryCall(d)
    OBVIOUS
  <2>2. f \in Calls /\ Filled(product, f) /\ f.by = d /\ CallSound(f)
    <3>1. PICK made : made = product
      OBVIOUS
    <3>2. f \in Calls /\ Filled(made, f) /\ f.by = d /\ CallSound(f)
      BY <1>1, <1>7, <2>1, FactoryCalled
    <3> QED BY <3>1, <3>2
  <2>3. calls' = Append(calls, f) /\ UNCHANGED <<registryVars, keptVars, asked, result, cleared>>
    BY <1>3, <1>7, <2>1 DEF GetInstance, Continue
  <2>4. PICK t \in Nat \ {0} : t = Len(calls) /\ DOMAIN calls = 1 .. t
    BY <1>4
  <2>5. /\ calls' \in Seq(Calls) /\ Len(calls') = t + 1 /\ DOMAIN calls' = 1 .. t + 1 /\ calls'[t + 1] = f
        /\ \A j \in 1 .. t : calls'[j] = calls[j]
    BY <1>1, <2>2, <2>3, <2>4 DEF CallsSound
  <2>6. \A e : Kept(e)' = Kept(e)
    BY <2>3 DEF Kept, Place, registryVars, keptVars
  <2>7. \A g : (RootSound(g) => RootSound(g)') /\ (CallSound(g) => CallSound(g)')
    <3> SUFFICES ASSUME NEW g PROVE (RootSound(g) => RootSound(g)') /\ (CallSound(g) => CallSound(g)')
      OBVIOUS
    <3>1. PICK e : e = g.by
      OBVIOUS
    <3>2. Kept(e)' = Kept(e)
      BY <2>6
    <3> QED BY <2>3, <3>1, <3>2 DEF RootSound, CallSound, Listed, registryVars
  <2>8. \A j \in DOMAIN calls' : Filled(product', calls'[j])
    <3>1. \A j \in 1 .. t : Filled(product, calls[j])
      BY <1>1, <2>4 DEF CallsSound
    <3>2. \A j \in DOMAIN calls' : j \in 1 .. t \/ j = t + 1
      BY <2>4, <2>5
    <3>3. product' = product
      BY <2>3 DEF keptVars
    <3> QED BY <2>2, <2>5, <3>1, <3>2, <3>3
  <2>9. ASSUME NEW j \in DOMAIN calls', NEW g \in {calls'[j]}
        PROVE  (IF j = 1 THEN RootSound(g)
                ELSE CallSound(g) /\ Pending(calls[j - 1]) /\ Wanted(calls[j - 1]) = g.by)'
    <3>1. CASE j \in 1 .. t
      <4>1. j # 1 => calls'[j - 1] = calls[j - 1]
        <5>1. j # 1 => j - 1 \in 1 .. t
          BY <2>4, <3>1
        <5> QED BY <2>5, <5>1
      <4>2. g = calls[j] /\ j \in DOMAIN calls
        BY <2>4, <2>5, <3>1
      <4>3. IF j = 1 THEN RootSound(g)
            ELSE CallSound(g) /\ Pending(calls[j - 1]) /\ Wanted(calls[j - 1]) = g.by
        BY <1>1, <4>2 DEF CallsSound
      <4> QED BY <2>7, <4>1, <4>3
    <3>2. CASE j = t + 1
      <4>1. g = f /\ j # 1 /\ j - 1 = t /\ t \in 1 .. t
        BY <2>4, <2>5, <3>2
      <4>2. calls'[j - 1] = Running
        BY <2>4, <2>5, <4>1 DEF Running
      <4> QED BY <1>2, <1>3, <2>2, <2>7, <4>1, <4>2
    <3> QED BY <2>4, <2>5, <3>1, <3>2
  <2>10. \A i, j \in 2 .. Len(calls') : i < j => Before(calls[j].by, calls[i].by)'
    <3> SUFFICES ASSUME NEW i \in 2 .. t + 1, NEW j \in 2 .. t + 1, i < j
                 PROVE  Before(calls[j].by, calls[i].by)'
      BY <2>5
    <3>1. i \in 2 .. t /\ i \in 1 .. t /\ calls'[i] = calls[i]
      BY <2>4, <2>5
    <3>2. CASE j \in 2 .. t
      <4>1. Before(calls[j].by, calls[i].by) /\ calls'[j] = calls[j]
        BY <1>1, <2>4, <2>5, <3>1, <3>2 DEF CallsSound
      <4> QED BY <2>3, <3>1, <4>1 DEF Before, registryVars
    <3>3. CASE j = t + 1
      <4>1. PICK b, c : b = calls[i].by /\ c = Running.by
        OBVIOUS
      <4>2. t \in 2 .. t /\ t # 1
        BY <2>4, <3>1
      <4>3. Before(d, c) /\ c \in DOMAIN descriptor
        BY <1>3, <1>4, <2>4, <4>1, <4>2 DEF CallSound
      <4>4. b \in DOMAIN descriptor
        <5>1. i \in DOMAIN calls /\ i # 1
          BY <2>4, <3>1
        <5>2. CallSound(calls[i])
          BY <1>1, <5>1 DEF CallsSound
        <5> QED BY <4>1, <5>2 DEF CallSound
      <4>5. i = t \/ Before(c, b)
        BY <1>1, <2>4, <3>1, <4>1, <4>2 DEF CallsSound, Running
      <4>6. Before(d, b)
        <5>1. i = t => b = c
          BY <2>4, <4>1 DEF Running
        <5> QED BY <1>1, <4>3, <4>4, <4>5, <5>1, BeforeOrders
      <4>7. calls'[j].by = d /\ calls'[i].by = b
        BY <2>2, <2>5, <3>1, <3>3, <4>1
      <4> QED BY <2>3, <4>6, <4>7 DEF Before, registryVars
    <3> QED BY <2>4, <3>2, <3>3
  <2>11. CallsSound'
    <3>1. asked' \in [service : Services, many : BOOLEAN, place : Storages] /\ result' = NoResult
      BY <1>1, <1>2, <2>3 DEF CallsSound
    <3> QED BY <2>5, <2>8, <2>9, <2>10, <3>1 DEF CallsSound
  <2>12. result'.is # "returned"
    BY <1>4, <2>3 DEF NoResult
  <2> QED BY <1>1, <2>3, <2>11, <2>12, NothingMade DEF ContainerInv
<1> QED BY <1>5, <1>6, <1>7

(* A call that wants nothing has all that it has found.                     *)
LEMMA AllFilled ==
    ASSUME NEW made, NEW f \in Calls, Filled(made, f), ~Pending(f)
    PROVE  /\ DOMAIN f.parts = DOMAIN f.found
           /\ \A k \in DOMAIN f.found :
                /\ f.parts[k] \in Seq(Nat) /\ f.found[k] \in Seq(Nat) /\ Len(f.parts[k]) = Len(f.found[k])
                /\ \A i \in DOMAIN f.parts[k] :
                     f.parts[k][i] \in DOMAIN made /\ made[f.parts[k][i]].by = f.found[k][i]
<1>1. PICK found, parts, a : found = f.found /\ parts = f.parts /\ a = f.at
  OBVIOUS
<1>2. PICK T : T = Seq(Nat)
  OBVIOUS
<1>3. found \in Seq(T) /\ parts \in Seq(T) /\ Len(parts) = Len(found)
  BY <1>1, <1>2, CallTypes DEF Filled
<1>4. DOMAIN parts = DOMAIN found /\ \A k \in DOMAIN found : parts[k] \in T /\ found[k] \in T
  BY <1>3
<1>5. \A k \in DOMAIN found :
        /\ IF k = a THEN Len(parts[k]) <= Len(found[k]) ELSE Len(parts[k]) = Len(found[k])
        /\ \A i \in DOMAIN parts[k] : parts[k][i] \in DOMAIN made /\ made[parts[k][i]].by = found[k][i]
  BY <1>1 DEF Filled
<1>6. a \in DOMAIN found => ~(Len(parts[a]) < Len(found[a]))
  BY <1>1 DEF Pending
<1>7. ASSUME NEW k \in DOMAIN found PROVE Len(parts[k]) = Len(found[k])
  <2>1. PICK l \in Nat, m \in Nat : l = Len(parts[k]) /\ m = Len(found[k])
    BY <1>2, <1>4
  <2> QED BY <1>5, <1>6, <2>1
<1> QED BY <1>1, <1>2, <1>4, <1>5, <1>7

(* An argument of the constructor *)
LEMMA GetDependencyKeeps ==
    ASSUME ContainerInv, ~NoCalls, ~Pending(Running), Running.by # 0,
           NEW k \in Running.deps, GetDependency(k)
    PROVE  ContainerInv'
<1>1. RegistrySound /\ KeptSound /\ CallsSound /\ InstancesRight
  BY DEF ContainerInv
<1>2. PICK f \in Calls : f = Running /\ Filled(product, f) /\ CallSound(f) /\ Len(calls) # 1
  <2>1. /\ Running \in Calls /\ Filled(product, Running)
        /\ IF Len(calls) = 1 THEN RootSound(Running) ELSE CallSound(Running)
    BY <1>1, RunningTypes
  <2>2. Len(calls) # 1
    BY <2>1 DEF RootSound
  <2> QED BY <2>1, <2>2
<1>3. PICK d, factory : d = f.by /\ factory = descriptor[d].factory
  OBVIOUS
<1>4. PICK deps, found, parts : deps = factory.deps /\ found = f.found /\ parts = f.parts
  OBVIOUS
<1>5. PICK T : T = Seq(Nat)
  OBVIOUS
<1>6. d \in DOMAIN descriptor /\ factory.kind # "exception" /\ factory \in Factories /\ FactorySound(d)
  BY <1>1, <1>2, <1>3, DescriptorTypes DEF CallSound, RegistrySound
<1>7. factory.kind = "injection"
  <2>1. factory.kind # "patch"
    BY <1>2, <1>3 DEF CallSound
  <2> QED BY <1>6, <2>1, FactoryTypes
<1>8. /\ Len(found) = Len(deps) /\ f.deps \subseteq DOMAIN deps
      /\ \A j \in DOMAIN deps : found[j] = IF j \in f.deps THEN <<>> ELSE collection[deps[j].from]
  BY <1>2, <1>3, <1>4, <1>7 DEF CallSound
<1>9. /\ found \in Seq(T) /\ parts \in Seq(T) /\ f.deps \in SUBSET Nat
      /\ DOMAIN deps = DOMAIN found /\ DOMAIN parts = DOMAIN found
      /\ Len(parts) = Len(found) /\ k \in DOMAIN found /\ k \in Nat
  <2>1. found \in Seq(T) /\ parts \in Seq(T) /\ Len(parts) = Len(found) /\ f.deps \in SUBSET Nat
    BY <1>2, <1>4, <1>5, CallTypes DEF Filled
  <2>2. deps \in Seq([service : Services, many : BOOLEAN, from : Nat])
    BY <1>4, <1>6, <1>7, FactoryTypes
  <2>3. DOMAIN deps = DOMAIN found /\ DOMAIN parts = DOMAIN found
    BY <1>8, <2>1, <2>2
  <2> QED BY <1>2, <1>8, <2>1, <2>3
<1>10. CASE Refused(deps[k].from, deps[k].many)
  <2>1. Throw
    BY <1>2, <1>3, <1>4, <1>10 DEF GetDependency
  <2> QED BY <2>1, ExceptionKeeps
<1>11. CASE ~Refused(deps[k].from, deps[k].many)
  <2>1. PICK ds : ds = Listed(deps[k].from)
    OBVIOUS
  <2>2. ds = collection[deps[k].from] /\ ds \in Seq(Nat)
    <3>1. PICK s \in Services : s = deps[k].service
      BY <1>4, <1>6, <1>7, <1>9, FactoryTypes
    <3>2. deps[k].from = descriptorsMap[s] /\ deps[k].from # 0
      BY <1>3, <1>4, <1>6, <1>7, <1>9, <3>1 DEF FactorySound
    <3>3. deps[k].from \in DOMAIN collection
      BY <1>1, <3>2 DEF RegistrySound
    <3> QED BY <1>1, <2>1, <3>2, <3>3 DEF Listed, RegistrySound
  <2>3. PICK all : all = [found EXCEPT ![k] = ds]
    OBVIOUS
  <2>4. /\ all \in Seq(T) /\ Len(all) = Len(found) /\ DOMAIN all = DOMAIN found /\ all[k] = ds
        /\ \A j \in DOMAIN found : j # k => all[j] = found[j]
    BY <1>5, <1>9, <2>2, <2>3
  <2>5. PICK g : g = Resolving(f, k, ds)
    OBVIOUS
  <2>6. g = [f EXCEPT !.deps = f.deps \ {k}, !.at = k, !.found = all]
    BY <1>4, <2>3, <2>5 DEF Resolving
  <2>7. /\ g \in Calls /\ g.by = d /\ g.deps = f.deps \ {k} /\ g.at = k /\ g.found = all /\ g.parts = parts
    <3>1. f \in [by : Nat, deps : SUBSET Nat, at : Nat, found : Seq(T), parts : Seq(T)]
      BY <1>5 DEF Calls
    <3>2. f.deps \ {k} \in SUBSET Nat
      BY <1>9
    <3>3. g \in [by : Nat, deps : SUBSET Nat, at : Nat, found : Seq(T), parts : Seq(T)]
      BY <1>9, <2>4, <2>6, <3>1, <3>2
    <3> QED BY <1>3, <1>4, <1>5, <2>6, <3>1, <3>3 DEF Calls
  <2>8. Filled(product, g)
    <3>1. PICK made : made = product
      OBVIOUS
    <3>2. \A j \in DOMAIN found :
            /\ parts[j] \in Seq(Nat) /\ found[j] \in Seq(Nat) /\ Len(parts[j]) = Len(found[j])
            /\ \A i \in DOMAIN parts[j] : parts[j][i] \in DOMAIN made /\ made[parts[j][i]].by = found[j][i]
      <4>1. Filled(made, f) /\ ~Pending(f)
        BY <1>2, <3>1
      <4> QED BY <1>4, <4>1, AllFilled
    <3>3. found[k] = <<>>
      BY <1>2, <1>8, <1>9
    <3>4. Len(parts[k]) = 0 /\ DOMAIN parts[k] = {} /\ 0 <= Len(ds)
      <4>1. PICK p \in Seq(Nat) : p = parts[k]
        BY <1>9, <3>2
      <4>2. Len(p) = 0
        BY <1>9, <3>2, <3>3, <4>1
      <4> QED BY <2>2, <4>1, <4>2
    <3>5. \A j \in DOMAIN all :
            /\ IF j = k THEN Len(parts[j]) <= Len(all[j]) ELSE Len(parts[j]) = Len(all[j])
            /\ \A i \in DOMAIN parts[j] : parts[j][i] \in DOMAIN made /\ made[parts[j][i]].by = all[j][i]
      BY <2>4, <3>2, <3>4
    <3>6. Filled(made, g)
      BY <1>9, <2>4, <2>7, <3>5 DEF Filled
    <3> QED BY <3>1, <3>6
  <2>9. CallSound(g)
    <3>1. \A j \in DOMAIN deps : all[j] = IF j \in g.deps THEN <<>> ELSE collection[deps[j].from]
      BY <1>8, <1>9, <2>2, <2>4, <2>7
    <3>2. Kept(d) = 0
      BY <1>2, <1>3 DEF CallSound
    <3> QED BY <1>3, <1>4, <1>6, <1>7, <1>8, <2>4, <2>7, <3>1, <3>2 DEF CallSound
  <2>10. Continue([calls EXCEPT ![Len(calls)] = g])
    <3>1. [calls EXCEPT ![Len(calls)] = Resolving(@, k, ds)] = [calls EXCEPT ![Len(calls)] = g]
      BY <1>2, <2>5 DEF Running
    <3>2. Continue([calls EXCEPT ![Len(calls)] = Resolving(@, k, ds)])
      BY <1>2, <1>3, <1>4, <1>11, <2>1 DEF GetDependency
    <3> QED BY <3>1, <3>2
  <2> QED BY <1>2, <1>3, <2>7, <2>8, <2>9, <2>10, RunningGoesOn
<1> QED BY <1>10, <1>11

(* get() or getMany() returns *)
LEMMA ReturnKeeps ==
    ASSUME ContainerInv, Return
    PROVE  ContainerInv'
<1>1. RegistrySound /\ KeptSound /\ CallsSound /\ InstancesRight
  BY DEF ContainerInv
<1>2. ~NoCalls /\ ~Pending(Running) /\ Running.by = 0
  BY DEF Return
<1>3. PICK f \in Calls : f = Running
  BY <1>1, <1>2, RunningTypes
<1>4. Filled(product, f) /\ RootSound(f) /\ asked.service \in Services
  <2>1. ~CallSound(f)
    <3>1. f.by \notin DOMAIN descriptor
      BY <1>1, <1>2, <1>3, DescriptorTypes
    <3> QED BY <3>1 DEF CallSound
  <2> QED BY <1>1, <1>2, <1>3, <2>1, RunningTypes
<1>5. PICK from, list : from = DescriptorsOf(asked.service) /\ list = f.parts[1]
  OBVIOUS
<1>6. Len(list) = Len(from) /\ \A k \in DOMAIN list : product[list[k]].by = from[k]
  <2>1. f.found = <<from>>
    BY <1>4, <1>5 DEF RootSound, DescriptorsOf
  <2>2. 1 \in DOMAIN f.found /\ f.found[1] = from
    BY <2>1
  <2>3. PICK made : made = product
    OBVIOUS
  <2>4. Filled(made, f) /\ ~Pending(f)
    BY <1>2, <1>3, <1>4, <2>3
  <2>5. /\ Len(f.parts[1]) = Len(f.found[1])
        /\ \A i \in DOMAIN f.parts[1] : made[f.parts[1][i]].by = f.found[1][i]
    BY <2>2, <2>4, AllFilled
  <2> QED BY <1>5, <2>2, <2>3, <2>5
<1>7. /\ calls' = <<>> /\ result' = [is |-> "returned", list |-> list]
      /\ UNCHANGED <<registryVars, keptVars, asked, cleared>>
  BY <1>3, <1>5 DEF Return
<1>8. RegistrySound' /\ KeptSound' /\ OneInstance' /\ PartsCurrent'
  BY <1>1, <1>7, NothingChanges
<1>9. ManyInOrder'
  <2>1. product' = product /\ asked' = asked
    BY <1>7 DEF keptVars
  <2>2. DescriptorsOf(asked.service)' = from
    BY <1>5, <1>7 DEF DescriptorsOf, Listed, registryVars
  <2> QED BY <1>6, <1>7, <2>1, <2>2 DEF ManyInOrder
<1>10. CallsSound'
  BY <1>7 DEF CallsSound, NoCalls
<1> QED BY <1>8, <1>9, <1>10 DEF ContainerInv, InstancesRight

(* ServiceStorage::clear() *)
LEMMA ClearStorageKeeps ==
    ASSUME ContainerInv, NEW x \in Storages, ClearStorage(x)
    PROVE  ContainerInv'
<1>1. RegistrySound /\ KeptSound /\ CallsSound /\ InstancesRight
  BY DEF ContainerInv
<1>2. PICK zeros : zeros = [d \in DOMAIN storage[x] |-> 0]
  OBVIOUS
<1>3. /\ NoCalls /\ UNCHANGED <<registryVars, instance, product, calls>> /\ result' = NoResult
      /\ cleared' = [cleared EXCEPT ![x] = cleared[x] + 1] /\ storage' = [storage EXCEPT ![x] = zeros]
  BY <1>2 DEF ClearStorage
<1>4. cleared \in [Storages -> Nat] /\ DOMAIN storage = Storages
  BY <1>1 DEF KeptSound
<1>5. RegistrySound'
  BY <1>1, <1>3, RegistryStays
<1>6. KeptFor(zeros)
  <2>1. KeptFor(storage[x])
    BY <1>1 DEF KeptSound
  <2>2. PICK old, L : old = storage[x] /\ L = 0 .. Len(product)
    OBVIOUS
  <2>3. old \in Seq(L) /\ Len(old) = Len(descriptor) /\ 0 \in L
    BY <1>1, <2>1, <2>2, ProductTypes DEF KeptFor
  <2>4. PICK n \in Nat : n = Len(old) /\ DOMAIN old = 1 .. n
    BY <2>3
  <2>5. zeros \in [1 .. n -> L]
    BY <1>2, <2>2, <2>3, <2>4
  <2>6. zeros \in Seq(L) /\ Len(zeros) = n
    BY <2>4, <2>5
  <2>7. \A d \in DOMAIN zeros : zeros[d] = 0
    BY <1>2
  <2> QED BY <2>2, <2>3, <2>4, <2>6, <2>7 DEF KeptFor
<1>7. KeptSound'
  <2>1. product' = product /\ descriptor' = descriptor /\ instance' = instance /\ registered' = registered
    BY <1>3 DEF registryVars
  <2>2. KeptFor(instance)'
    BY <1>1, <2>1 DEF KeptSound, KeptFor
  <2>3. \A y \in Storages : KeptFor(storage[y])'
    <3> SUFFICES ASSUME NEW y \in Storages PROVE KeptFor(storage[y])'
      OBVIOUS
    <3>1. PICK list : list = storage'[y]
      OBVIOUS
    <3>2. KeptFor(list)
      BY <1>1, <1>3, <1>4, <1>6, <3>1 DEF KeptSound
    <3> QED BY <2>1, <3>1, <3>2 DEF KeptFor
  <2>4. ASSUME NEW n \in DOMAIN product PROVE ProductKept(n)'
    <3>1. ProductKept(n)
      BY <1>1 DEF KeptSound
    <3>2. PICK d, y, age : d = product[n].by /\ y = product[n].place /\ age = product[n].age /\ age \in Nat
      BY <1>1, ProductTypes
    <3>3. CASE y = x
      <4>1. age <= cleared[x] /\ cleared'[x] = cleared[x] + 1 /\ cleared[x] \in Nat
        BY <1>3, <1>4, <3>1, <3>2, <3>3 DEF ProductKept
      <4>2. age <= cleared'[x] /\ age # cleared'[x]
        BY <3>2, <4>1
      <4> QED BY <2>1, <3>1, <3>2, <3>3, <4>2 DEF ProductKept
    <3>4. CASE y # x
      <4>1. y \in Storages => cleared'[y] = cleared[y] /\ storage'[y] = storage[y]
        BY <1>3, <1>4, <3>4
      <4> QED BY <2>1, <3>1, <3>2, <4>1 DEF ProductKept
    <3> QED BY <3>3, <3>4
  <2>5. cleared' \in [Storages -> Nat] /\ DOMAIN storage' = Storages
    BY <1>3, <1>4
  <2> QED BY <1>1, <2>1, <2>2, <2>3, <2>4, <2>5 DEF KeptSound
<1>8. InstancesRight'
  <2>1. OneInstance' /\ PartsCurrent'
    BY <1>1, <1>3, ProductsTheSame DEF ProductsStay
  <2>2. ManyInOrder'
    BY <1>3 DEF ManyInOrder, NoResult
  <2> QED BY <2>1, <2>2 DEF InstancesRight
<1>9. CallsSound'
  BY <1>3 DEF CallsSound, NoCalls
<1> QED BY <1>5, <1>7, <1>8, <1>9 DEF ContainerInv

-----------------------------------------------------------------------------
(* A factory has all that it needs, and an instance is made                 *)

(* What the instance n, of the descriptor d, is kept in.                    *)
LEMMA KeepTypes ==
    ASSUME RegistrySound, KeptSound, Place \in Storages, NEW d \in DOMAIN descriptor, Kept(d) = 0,
           NEW n, n = Len(product) + 1, Keep(d, n), Grown(product, product'), Len(product') = n,
           product'[n].by = d, descriptor' = descriptor
    PROVE  /\ KeptFor(instance)' /\ DOMAIN storage' = Storages /\ \A x \in Storages : KeptFor(storage[x])'
           /\ \A e \in DOMAIN descriptor : e # d =>
                instance'[e] = instance[e] /\ \A x \in Storages : storage'[x][e] = storage[x][e]
           /\ \A x \in Storages : x # Place => storage'[x] = storage[x]
           /\ descriptor[d].lifetime = "Persistent" => instance[d] = 0 /\ instance'[d] = n
           /\ descriptor[d].lifetime = "StoragePersistent" =>
                storage[Place][d] = 0 /\ storage'[Place][d] = n
<1>1. PICK L, M : L = 0 .. Len(product) /\ M = 0 .. n
  OBVIOUS
<1>2. Len(product) \in Nat /\ DOMAIN product = 1 .. Len(product) /\ L \subseteq M /\ n \in M /\ n \in Nat
  BY <1>1, ProductTypes
<1>3. \A m \in DOMAIN product : product'[m] = product[m]
  BY DEF Grown
<1>4. DOMAIN descriptor = 1 .. Len(descriptor) /\ Len(descriptor) \in Nat
  BY DescriptorTypes
<1>5. ASSUME NEW old, KeptFor(old)
      PROVE  /\ old \in Seq(M) /\ Len(old) = Len(descriptor) /\ DOMAIN old = DOMAIN descriptor
             /\ \A e \in DOMAIN old : old[e] # 0 => product'[old[e]].by = e
  <2>1. old \in Seq(L) /\ Len(old) = Len(descriptor)
    BY <1>1, <1>5 DEF KeptFor
  <2>2. \A e \in DOMAIN old : old[e] \in L
    BY <2>1
  <2>3. \A e \in DOMAIN old : old[e] # 0 => old[e] \in DOMAIN product /\ product[old[e]].by = e
    BY <1>1, <1>2, <1>5, <2>2 DEF KeptFor
  <2>4. old \in Seq(M)
    BY <1>2, <2>1, WiderSeq
  <2> QED BY <1>3, <1>4, <2>1, <2>3, <2>4
<1>6. ASSUME NEW old, KeptFor(old)
      PROVE  /\ [old EXCEPT ![d] = n] \in Seq(M) /\ Len([old EXCEPT ![d] = n]) = Len(descriptor)
             /\ [old EXCEPT ![d] = n][d] = n
             /\ \A e \in DOMAIN descriptor : e # d => [old EXCEPT ![d] = n][e] = old[e]
             /\ \A e \in DOMAIN [old EXCEPT ![d] = n] : [old EXCEPT ![d] = n][e] # 0 =>
                  product'[[old EXCEPT ![d] = n][e]].by = e
  <2>1. PICK new : new = [old EXCEPT ![d] = n]
    OBVIOUS
  <2>2. /\ old \in Seq(M) /\ Len(old) = Len(descriptor) /\ DOMAIN old = DOMAIN descriptor
        /\ \A e \in DOMAIN old : old[e] # 0 => product'[old[e]].by = e
    BY <1>5, <1>6
  <2>3. new \in Seq(M) /\ Len(new) = Len(descriptor) /\ DOMAIN new = DOMAIN old
    BY <1>2, <2>1, <2>2
  <2>4. new[d] = n /\ \A e \in DOMAIN descriptor : e # d => new[e] = old[e]
    BY <2>1, <2>2
  <2>5. \A e \in DOMAIN new : new[e] # 0 => product'[new[e]].by = e
    BY <2>2, <2>3, <2>4
  <2> QED BY <2>1, <2>3, <2>4, <2>5
<1>7. KeptFor(instance) /\ DOMAIN storage = Storages /\ \A x \in Storages : KeptFor(storage[x])
  BY DEF KeptSound
<1>8. /\ instance' = IF descriptor[d].lifetime = "Persistent" THEN [instance EXCEPT ![d] = n] ELSE instance
      /\ storage' = IF descriptor[d].lifetime = "StoragePersistent"
                     THEN [storage EXCEPT ![Place] = [storage[Place] EXCEPT ![d] = n]] ELSE storage
  BY DEF Keep
<1>9. ASSUME NEW new, new \in Seq(M), Len(new) = Len(descriptor),
             \A e \in DOMAIN new : new[e] # 0 => product'[new[e]].by = e
      PROVE  \A list \in {new} : KeptFor(list)'
  BY <1>1, <1>9 DEF KeptFor
<1>10. KeptFor(instance)' /\ \A e \in DOMAIN descriptor : e # d => instance'[e] = instance[e]
  <2>1. CASE descriptor[d].lifetime = "Persistent"
    <3>1. PICK old, new : old = instance /\ KeptFor(old) /\ new = [old EXCEPT ![d] = n]
      BY <1>7
    <3>2. /\ new \in Seq(M) /\ Len(new) = Len(descriptor)
          /\ \A e \in DOMAIN descriptor : e # d => new[e] = old[e]
          /\ \A e \in DOMAIN new : new[e] # 0 => product'[new[e]].by = e
      BY <1>6, <3>1
    <3>3. instance' = new
      BY <1>8, <2>1, <3>1
    <3> QED BY <1>1, <3>1, <3>2, <3>3 DEF KeptFor
  <2>2. CASE descriptor[d].lifetime # "Persistent"
    <3>1. instance' = instance
      BY <1>8, <2>2
    <3> QED BY <1>1, <1>5, <1>7, <3>1 DEF KeptFor
  <2> QED BY <2>1, <2>2
<1>11. ASSUME NEW x \in Storages
       PROVE  /\ KeptFor(storage[x])' /\ (x # Place => storage'[x] = storage[x])
              /\ \A e \in DOMAIN descriptor : e # d => storage'[x][e] = storage[x][e]
  <2>1. PICK old, new : old = storage[x] /\ new = storage'[x]
    OBVIOUS
  <2>2. KeptFor(old)
    BY <1>7, <2>1
  <2>3. CASE descriptor[d].lifetime = "StoragePersistent" /\ x = Place
    <3>1. new = [old EXCEPT ![d] = n]
      BY <1>7, <1>8, <2>1, <2>3
    <3>2. /\ new \in Seq(M) /\ Len(new) = Len(descriptor)
          /\ \A e \in DOMAIN descriptor : e # d => new[e] = old[e]
          /\ \A e \in DOMAIN new : new[e] # 0 => product'[new[e]].by = e
      BY <1>6, <2>2, <3>1
    <3> QED BY <1>1, <2>1, <2>3, <3>2 DEF KeptFor
  <2>4. CASE ~(descriptor[d].lifetime = "StoragePersistent" /\ x = Place)
    <3>1. new = old
      BY <1>7, <1>8, <2>1, <2>4
    <3>2. /\ new \in Seq(M) /\ Len(new) = Len(descriptor)
          /\ \A e \in DOMAIN new : new[e] # 0 => product'[new[e]].by = e
      BY <1>5, <2>2, <3>1
    <3> QED BY <1>1, <2>1, <3>1, <3>2 DEF KeptFor
  <2> QED BY <2>3, <2>4
<1>12. descriptor[d].lifetime = "Persistent" => instance[d] = 0 /\ instance'[d] = n
  BY <1>6, <1>7, <1>8 DEF Kept
<1>13. descriptor[d].lifetime = "StoragePersistent" => storage[Place][d] = 0 /\ storage'[Place][d] = n
  <2> SUFFICES ASSUME descriptor[d].lifetime = "StoragePersistent"
               PROVE  storage[Place][d] = 0 /\ storage'[Place][d] = n
    OBVIOUS
  <2>1. Kept(d) = storage[Place][d]
    BY DEF Kept
  <2>2. storage'[Place] = [storage[Place] EXCEPT ![d] = n]
    BY <1>7, <1>8
  <2> QED BY <1>6, <1>7, <2>1, <2>2
<1>14. DOMAIN storage' = Storages
  BY <1>7, <1>8
<1> QED BY <1>10, <1>11, <1>12, <1>13, <1>14

(* The instances that there were are kept as before. *)
Makes(d, n, parts) ==
    /\ n = Len(product) + 1 /\ Keep(d, n) /\ UNCHANGED <<registryVars, cleared>>
    /\ product' = Append(product, [by |-> d, place |-> Place, age |-> cleared[Place], parts |-> parts])

LEMMA MadeKeeps ==
    ASSUME RegistrySound, KeptSound, InstancesRight, Place \in Storages,
           NEW d \in DOMAIN descriptor, Kept(d) = 0, NEW n,
           NEW parts \in Seq(Seq(1 .. Len(product))), Makes(d, n, parts)
    PROVE  /\ KeptSound' /\ OneInstance' /\ Grown(product, product') /\ Len(product') = n
           /\ product'[n].by = d /\ product'[n].parts = parts
           /\ \A e \in DOMAIN descriptor : e # d => Kept(e) = IF descriptor[e].lifetime = "Persistent" THEN instance'[e]
                  ELSE IF descriptor[e].lifetime = "StoragePersistent" THEN storage'[Place][e] ELSE 0
<1>1. PICK p \in Nat : p = Len(product) /\ DOMAIN product = 1 .. p /\ n = p + 1
  BY ProductTypes DEF Makes
<1>2. PICK x \in Storages : x = Place
  OBVIOUS
<1>3. PICK now \in Nat : now = cleared[x]
  BY DEF KeptSound
<1>4. PICK entry : entry = [by |-> d, place |-> x, age |-> now, parts |-> parts]
  OBVIOUS
<1>5. descriptor' = descriptor /\ registered' = registered /\ cleared' = cleared
  BY DEF Makes, registryVars
<1>6. /\ product' \in Seq([by : Nat, place : Storages \cup {"nowhere"}, age : Nat,
                             parts : Seq(Seq(1 .. Len(product')))])
      /\ Len(product') = n /\ Grown(product, product') /\ product'[n] = entry
  <2>1. d \in Nat
    BY DescriptorTypes
  <2>2. PICK A : A = Seq(Seq(1 .. Len(product))) /\ parts \in A
    OBVIOUS
  <2>3. entry \in [by : Nat, place : Storages \cup {"nowhere"}, age : Nat, parts : A] /\ entry.by \in Nat
    BY <1>2, <1>4, <2>1, <2>2
  <2>4. product' = Append(product, entry)
    BY <1>2, <1>3, <1>4 DEF Makes
  <2> QED BY <1>1, <2>2, <2>3, <2>4, ProductAppended
<1>7. DOMAIN product' = 1 .. n /\ \A m \in 1 .. p : product'[m] = product[m]
  BY <1>1, <1>6 DEF Grown
<1>8. product'[n].by = d /\ product'[n].place = x /\ product'[n].age = now /\ product'[n].parts = parts
  BY <1>4, <1>6
<1>9. /\ KeptFor(instance)' /\ DOMAIN storage' = Storages /\ \A y \in Storages : KeptFor(storage[y])'
      /\ \A e \in DOMAIN descriptor : e # d =>
           instance'[e] = instance[e] /\ \A y \in Storages : storage'[y][e] = storage[y][e]
      /\ \A y \in Storages : y # x => storage'[y] = storage[y]
      /\ descriptor[d].lifetime = "Persistent" => instance[d] = 0 /\ instance'[d] = n
      /\ descriptor[d].lifetime = "StoragePersistent" => storage[x][d] = 0 /\ storage'[x][d] = n
  <2>1. n = Len(product) + 1 /\ Keep(d, n)
    BY DEF Makes
  <2> QED BY <1>2, <1>5, <1>6, <1>8, <2>1, KeepTypes
<1>10. ASSUME NEW m \in 1 .. p
       PROVE  /\ product[m].by = d => descriptor[d].lifetime # "Persistent"
              /\ product[m].by = d /\ descriptor[d].lifetime = "StoragePersistent" =>
                   product[m].place # x \/ product[m].age # now
  <2>1. ProductKept(m)
    BY <1>1 DEF KeptSound
  <2> SUFFICES ASSUME product[m].by = d
               PROVE  /\ descriptor[d].lifetime # "Persistent"
                      /\ descriptor[d].lifetime = "StoragePersistent" =>
                           product[m].place # x \/ product[m].age # now
    OBVIOUS
  <2>2. descriptor[d].lifetime = "Persistent" => instance[d] = m
    BY <2>1 DEF ProductKept
  <2>3. descriptor[d].lifetime = "StoragePersistent" /\ product[m].place = x /\ product[m].age = now =>
          storage[x][d] = m
    BY <1>3, <2>1 DEF ProductKept
  <2>4. m # 0
    BY <1>1
  <2> QED BY <1>9, <2>2, <2>3, <2>4
<1>11. ASSUME NEW m \in 1 .. p PROVE ProductKept(m)'
  <2>1. ProductKept(m)
    BY <1>1 DEF KeptSound
  <2>2. PICK e, y, age : /\ e = product[m].by /\ y = product[m].place /\ age = product[m].age
    OBVIOUS
  <2>3. e = product'[m].by /\ y = product'[m].place /\ age = product'[m].age
    BY <1>7, <2>2
  <2>4. e \in DOMAIN descriptor
    BY <2>1, <2>2 DEF ProductKept
  <2>5. /\ descriptor[e].lifetime = "Persistent" => instance[e] = m
        /\ y \in Storages => age <= cleared[y]
        /\ y \in Storages /\ descriptor[e].lifetime = "StoragePersistent" /\ age = cleared[y] => storage[y][e] = m
    BY <2>1, <2>2 DEF ProductKept
  <2>6. /\ descriptor[e].lifetime = "Persistent" => instance'[e] = m
        /\ y \in Storages /\ descriptor[e].lifetime = "StoragePersistent" /\ age = cleared[y] => storage'[y][e] = m
    <3>1. CASE e # d
      BY <1>9, <2>4, <2>5, <3>1
    <3>2. CASE e = d
      <4>1. descriptor[d].lifetime # "Persistent"
        BY <1>10, <2>2, <3>2
      <4>2. descriptor[d].lifetime = "StoragePersistent" => y # x \/ age # cleared[x]
        BY <1>3, <1>10, <2>2, <3>2
      <4> QED BY <1>9, <2>5, <3>2, <4>1, <4>2
    <3> QED BY <3>1, <3>2
  <2> QED BY <1>5, <2>3, <2>4, <2>5, <2>6 DEF ProductKept
<1>12. ProductKept(n)'
  BY <1>3, <1>5, <1>8, <1>9 DEF ProductKept
<1>13. KeptSound'
  <2>1. \A m \in DOMAIN product' : ProductKept(m)'
    <3>1. \A m \in DOMAIN product' : m \in 1 .. p \/ m = n
      BY <1>1, <1>7
    <3> QED BY <1>11, <1>12, <3>1
  <2>2. cleared' \in [Storages -> Nat] /\ registered' \in 0 .. Len(product')
    BY <1>1, <1>5, <1>6 DEF KeptSound
  <2> QED BY <1>6, <1>9, <2>1, <2>2 DEF KeptSound
<1>14. OneInstance'
  <2>1. ASSUME NEW l \in 1 .. p, NEW m \in 1 .. p, product'[l].by = product'[m].by, l # m
        PROVE  /\ descriptor[product'[m].by].lifetime # "Persistent"
               /\ descriptor[product'[m].by].lifetime = "StoragePersistent" =>
                    product'[l].place # product'[m].place \/ product'[l].age # product'[m].age
    <3>1. product'[l] = product[l] /\ product'[m] = product[m] /\ l \in DOMAIN product /\ m \in DOMAIN product
      BY <1>1, <1>7
    <3>2. OneInstance
      BY DEF InstancesRight
    <3> QED BY <2>1, <3>1, <3>2 DEF OneInstance, MadeBy
  <2>2. ASSUME NEW m \in 1 .. p, product'[m].by = d
        PROVE  /\ descriptor[d].lifetime # "Persistent"
               /\ descriptor[d].lifetime = "StoragePersistent" =>
                    product'[m].place # x \/ product'[m].age # now
    BY <1>7, <1>10, <2>2
  <2>3. \A m \in DOMAIN product' : m \in 1 .. p \/ m = n
    BY <1>1, <1>7
  <2>4. ASSUME NEW l \in DOMAIN product', NEW m \in DOMAIN product', product'[l].by = product'[m].by, l # m
        PROVE  /\ descriptor[product'[m].by].lifetime # "Persistent"
               /\ descriptor[product'[m].by].lifetime = "StoragePersistent" =>
                    product'[l].place # product'[m].place \/ product'[l].age # product'[m].age
    <3>1. CASE l \in 1 .. p /\ m \in 1 .. p
      BY <2>1, <2>4, <3>1
    <3>2. CASE l = n
      <4>1. m \in 1 .. p /\ product'[m].by = d
        BY <1>8, <2>3, <2>4, <3>2
      <4> QED BY <1>8, <2>2, <3>2, <4>1
    <3>3. CASE m = n
      <4>1. l \in 1 .. p /\ product'[l].by = d
        BY <1>8, <2>3, <2>4, <3>3
      <4> QED BY <1>8, <2>2, <3>3, <4>1
    <3> QED BY <2>3, <3>1, <3>2, <3>3
  <2> QED BY <1>5, <2>4 DEF OneInstance, MadeBy
<1>15. ASSUME NEW e \in DOMAIN descriptor, e # d
       PROVE  Kept(e) = IF descriptor[e].lifetime = "Persistent" THEN instance'[e]
                        ELSE IF descriptor[e].lifetime = "StoragePersistent" THEN storage'[Place][e] ELSE 0
  BY <1>2, <1>9, <1>15 DEF Kept
<1> QED BY <1>6, <1>8, <1>13, <1>14, <1>15

(* The parts of the new instance are what its dependencies are now.         *)
LEMMA PartsOfMade ==
    ASSUME RegistrySound, KeptSound, NEW f \in Calls, Filled(product, f), ~Pending(f), CallSound(f), f.deps = {}
    PROVE  /\ f.parts \in Seq(Seq(1 .. Len(product)))
           /\ descriptor[f.by].factory.kind = "injection" => \A k \in DOMAIN f.parts :
                [i \in DOMAIN f.parts[k] |-> product[f.parts[k][i]].by]
                  = DescriptorsOf(descriptor[f.by].factory.deps[k].service)
<1>1. PICK d, factory, found, parts :
        d = f.by /\ factory = descriptor[d].factory /\ found = f.found /\ parts = f.parts
  OBVIOUS
<1>2. PICK made : made = product /\ DOMAIN made = 1 .. Len(product)
  BY ProductTypes
<1>3. /\ DOMAIN parts = DOMAIN found
      /\ \A k \in DOMAIN found :
           /\ parts[k] \in Seq(Nat) /\ found[k] \in Seq(Nat) /\ Len(parts[k]) = Len(found[k])
           /\ \A i \in DOMAIN parts[k] : parts[k][i] \in DOMAIN made /\ made[parts[k][i]].by = found[k][i]
  <2>1. Filled(made, f)
    BY <1>2
  <2> QED BY <1>1, <2>1, AllFilled
<1>4. parts \in Seq(Seq(1 .. Len(product)))
  <2>1. PICK L, S : L = 1 .. Len(product) /\ S = Seq(L)
    OBVIOUS
  <2>2. ASSUME NEW k \in DOMAIN parts PROVE parts[k] \in S
    <3>1. PICK part \in Seq(Nat) : part = parts[k]
      BY <1>3
    <3>2. \A i \in DOMAIN part : part[i] \in L
      BY <1>2, <1>3, <2>1, <3>1
    <3>3. part \in Seq(L)
      BY <3>2
    <3> QED BY <2>1, <3>1, <3>3
  <2>3. parts \in Seq(Seq(Nat))
    BY <1>1, CallTypes
  <2>4. PICK n \in Nat : DOMAIN parts = 1 .. n /\ Len(parts) = n /\ parts = [k \in 1 .. n |-> parts[k]]
    BY <2>3
  <2>5. parts \in [1 .. n -> S]
    BY <2>2, <2>4
  <2>6. parts \in Seq(S)
    BY <2>5
  <2> QED BY <2>1, <2>6
<1>5. ASSUME factory.kind = "injection", NEW k \in DOMAIN parts
      PROVE  [i \in DOMAIN parts[k] |-> product[parts[k][i]].by] = DescriptorsOf(factory.deps[k].service)
  <2>1. /\ d \in DOMAIN descriptor /\ Len(found) = Len(factory.deps)
        /\ \A j \in DOMAIN factory.deps : found[j] = collection[factory.deps[j].from]
    BY <1>1, <1>5 DEF CallSound
  <2>2. factory \in Factories /\ FactorySound(d)
    BY <1>1, <2>1, DescriptorTypes DEF RegistrySound
  <2>3. PICK D : D = [service : Services, many : BOOLEAN, from : Nat]
    OBVIOUS
  <2>4. factory.deps \in Seq(D)
    BY <1>5, <2>2, <2>3, FactoryTypes
  <2>5. found \in Seq(Seq(Nat))
    BY <1>1, CallTypes
  <2>6. k \in DOMAIN factory.deps
    BY <1>3, <2>1, <2>4, <2>5
  <2>7. PICK s \in Services : s = factory.deps[k].service
    BY <1>5, <2>2, <2>6, FactoryTypes
  <2>8. factory.deps[k].from = descriptorsMap[s] /\ factory.deps[k].from # 0
    BY <1>1, <1>5, <2>2, <2>6, <2>7 DEF FactorySound
  <2>9. DescriptorsOf(s) = found[k]
    BY <2>1, <2>6, <2>8 DEF DescriptorsOf, Listed
  <2>10. PICK part \in Seq(Nat), ds \in Seq(Nat) : part = parts[k] /\ ds = found[k] /\ Len(part) = Len(ds)
    BY <1>3
  <2>11. \A i \in DOMAIN part : product[part[i]].by = ds[i]
    BY <1>2, <1>3, <2>10
  <2>12. DOMAIN part = DOMAIN ds /\ ds = [i \in DOMAIN ds |-> ds[i]]
    BY <2>10
  <2>13. [i \in DOMAIN part |-> product[part[i]].by] = ds
    BY <2>11, <2>12
  <2> QED BY <2>7, <2>9, <2>10, <2>13
<1> QED BY <1>1, <1>4, <1>5

(* The factory returns. *)
LEMMA MakeInstanceKeeps ==
    ASSUME ContainerInv, ~NoCalls, ~Pending(Running), Running.by # 0, Running.deps = {}, MakeInstance
    PROVE  ContainerInv'
<1>1. RegistrySound /\ KeptSound /\ CallsSound /\ InstancesRight
  BY DEF ContainerInv
<1>2. PICK f \in Calls : f = Running /\ Filled(product, f) /\ CallSound(f) /\ Len(calls) # 1
  <2>1. /\ Running \in Calls /\ Filled(product, Running)
        /\ IF Len(calls) = 1 THEN RootSound(Running) ELSE CallSound(Running)
    BY <1>1, RunningTypes
  <2>2. Len(calls) # 1
    BY <2>1 DEF RootSound
  <2> QED BY <2>1, <2>2
<1>3. PICK d, parts : d = f.by /\ parts = f.parts
  OBVIOUS
<1>4. d \in DOMAIN descriptor /\ Kept(d) = 0
  BY <1>2, <1>3 DEF CallSound
<1>5. PICK t \in Nat \ {0} : Len(calls) = t + 1 /\ DOMAIN calls = 1 .. t + 1
  <2>1. Len(calls) \in Nat \ {0} /\ DOMAIN calls = 1 .. Len(calls)
    BY <1>1, RunningTypes
  <2>2. Len(calls) - 1 \in Nat \ {0} /\ Len(calls) = (Len(calls) - 1) + 1
    BY <1>2, <2>1
  <2> QED BY <2>1, <2>2
<1>6. CASE descriptor[d].factory.kind = "patch" /\ ~descriptor[d].factory.func
  <2>1. Throw
    BY <1>2, <1>3, <1>6 DEF MakeInstance
  <2> QED BY <2>1, ExceptionKeeps
<1>7. CASE ~(descriptor[d].factory.kind = "patch" /\ ~descriptor[d].factory.func)
  <2>1. PICK n : n = Len(product) + 1
    OBVIOUS
  <2>2. PICK c, g : c = calls[t] /\ g = Got(c, n)
    OBVIOUS
  <2>3. /\ Makes(d, n, parts) /\ UNCHANGED <<registryVars, asked, result, cleared>>
        /\ calls' = [SubSeq(calls, 1, t) EXCEPT ![t] = g]
    <3>1. /\ product' = Append(product, [by |-> d, place |-> Place, age |-> cleared[Place], parts |-> parts])
          /\ Keep(d, n) /\ UNCHANGED <<registryVars, asked, result, cleared>>
      BY <1>2, <1>3, <1>7, <2>1 DEF MakeInstance
    <3>2. Len(calls) - 1 = t
      BY <1>5
    <3>3. calls' = [SubSeq(calls, 1, t) EXCEPT ![t] = Got(@, n)]
      BY <1>2, <1>3, <1>7, <2>1, <3>2 DEF MakeInstance
    <3>4. SubSeq(calls, 1, t)[t] = c
      BY <1>1, <1>5, <2>2 DEF CallsSound
    <3> QED BY <2>1, <2>2, <3>1, <3>3, <3>4 DEF Makes
  <2>4. /\ KeptSound' /\ OneInstance' /\ Grown(product, product') /\ Len(product') = n
        /\ product'[n].by = d /\ product'[n].parts = parts
        /\ \A e \in DOMAIN descriptor : e # d => Kept(e) = IF descriptor[e].lifetime = "Persistent" THEN instance'[e]
               ELSE IF descriptor[e].lifetime = "StoragePersistent" THEN storage'[Place][e] ELSE 0
    <3>1. parts \in Seq(Seq(1 .. Len(product)))
      BY <1>1, <1>2, <1>3, PartsOfMade
    <3>2. Place \in Storages
      BY <1>1, RunningTypes
    <3> QED BY <1>1, <1>4, <2>3, <3>1, <3>2, MadeKeeps
  <2>5. ASSUME NEW e \in DOMAIN descriptor, e # d PROVE Kept(e)' = Kept(e)
    BY <2>3, <2>4, <2>5 DEF Kept, Place, registryVars
  <2>6. ASSUME NEW j \in 2 .. t
        PROVE  /\ CallSound(calls[j]) /\ \A e \in {calls[j].by} : Kept(e)' = 0
    <3>1. j \in DOMAIN calls /\ j # 1 /\ j \in 2 .. Len(calls) /\ t + 1 \in 2 .. Len(calls) /\ j < t + 1
      BY <1>5
    <3>2. CallSound(calls[j])
      BY <1>1, <3>1 DEF CallsSound
    <3>3. PICK e : e = calls[j].by
      OBVIOUS
    <3>4. e \in DOMAIN descriptor /\ Kept(e) = 0
      BY <3>2, <3>3 DEF CallSound
    <3>5. Before(d, e)
      <4>1. calls[t + 1].by = d
        BY <1>2, <1>3, <1>5 DEF Running
      <4> QED BY <1>1, <3>1, <3>3, <4>1 DEF CallsSound
    <3>6. e # d
      BY <1>1, <1>4, <3>4, <3>5, BeforeOrders
    <3> QED BY <2>5, <3>2, <3>3, <3>4, <3>6
  <2>7. /\ c \in Calls /\ Filled(product, c) /\ Pending(c) /\ Wanted(c) = d
        /\ IF t = 1 THEN RootSound(c) ELSE CallSound(c)
    <3>1. t \in DOMAIN calls /\ t + 1 \in DOMAIN calls /\ t + 1 # 1 /\ (t + 1) - 1 = t
      BY <1>5
    <3>2. c \in Calls /\ Filled(product, c) /\ IF t = 1 THEN RootSound(c) ELSE CallSound(c)
      BY <1>1, <2>2, <3>1 DEF CallsSound
    <3>3. Pending(calls[t]) /\ Wanted(calls[t]) = calls[t + 1].by
      BY <1>1, <3>1 DEF CallsSound
    <3> QED BY <1>2, <1>3, <1>5, <2>2, <3>2, <3>3 DEF Running
  <2>8. /\ g \in Calls /\ Filled(product', g) /\ g.by = c.by /\ g.deps = c.deps /\ g.found = c.found
    <3>1. PICK made : made = product' /\ Filled(made, c)
      BY <2>4, <2>7, FilledGrows
    <3>2. n \in Nat /\ n \in DOMAIN made /\ made[n].by = Wanted(c)
      <4>1. n \in Nat /\ n \in 1 .. n
        BY <1>1, <2>1, ProductTypes
      <4> QED BY <2>4, <2>7, <3>1, <4>1 DEF Grown
    <3>3. /\ Got(c, n) \in Calls /\ Filled(made, Got(c, n))
          /\ Got(c, n).by = c.by /\ Got(c, n).deps = c.deps /\ Got(c, n).found = c.found
      BY <2>7, <3>1, <3>2, GotFilled
    <3> QED BY <2>2, <3>1, <3>3
  <2>9. /\ calls' \in Seq(Calls) /\ Len(calls') = t /\ g = calls'[t]
        /\ \A j \in 1 .. t - 1 : calls'[j] = calls[j]
    <3>1. PICK some : some = SubSeq(calls, 1, t)
      OBVIOUS
    <3>2. some \in Seq(Calls) /\ Len(some) = t /\ \A j \in 1 .. t : some[j] = calls[j]
      BY <1>1, <1>5, <3>1 DEF CallsSound
    <3>3. calls' = [some EXCEPT ![t] = g]
      BY <2>3, <3>1
    <3> QED BY <2>8, <3>2, <3>3
  <2>10. IF t = 1 THEN RootSound(g)' ELSE CallSound(g)'
    <3>1. t = 1 => RootSound(g)'
      <4>1. t = 1 => RootSound(c)
        BY <2>7
      <4> QED BY <2>3, <2>8, <4>1 DEF RootSound, Listed, registryVars
    <3>2. t # 1 => CallSound(g)'
      <4>1. PICK e : e = c.by
        OBVIOUS
      <4>2. t # 1 => CallSound(c) /\ Kept(e)' = 0
        <5>1. t # 1 => t \in 2 .. t
          OBVIOUS
        <5> QED BY <2>2, <2>6, <4>1, <5>1
      <4> QED BY <2>3, <2>8, <4>1, <4>2 DEF CallSound, registryVars
    <3> QED BY <3>1, <3>2
  <2>11. CallsSound'
    <3>1. t \in DOMAIN calls /\ \A j \in 2 .. t - 1 : j \in 2 .. t
      BY <1>5
    <3>2. \A j \in 2 .. t - 1 : \A e \in {calls[j].by} : Kept(e)' = 0
      BY <2>6, <3>1
    <3>3. g.by = calls[t].by
      BY <2>2, <2>8
    <3>4. UNCHANGED <<registryVars, asked, result>>
      BY <2>3
    <3> QED BY <1>1, <2>4, <2>8, <2>9, <2>10, <3>1, <3>2, <3>3, <3>4, CallsGoOn
  <2>12. RegistrySound'
    BY <1>1, <2>3, RegistryStays
  <2>13. ManyInOrder'
    BY <1>1, <2>3, RunningTypes DEF ManyInOrder, NoResult
  <2>14. PartsCurrent'
    <3>1. /\ descriptor' = descriptor /\ registered' = registered
          /\ descriptorsMap' = descriptorsMap /\ collection' = collection
      BY <2>3 DEF registryVars
    <3>2. PICK p \in Nat : p = Len(product) /\ DOMAIN product = 1 .. p /\ n = p + 1
      BY <1>1, <2>1, ProductTypes
    <3>3. \A m \in 1 .. p : product'[m] = product[m]
      BY <2>4, <3>2 DEF Grown
    <3>4. ASSUME NEW m \in registered + 1 .. n, NEW made, made = descriptor[product'[m].by],
                 made.factory.kind = "injection", NEW k \in DOMAIN product'[m].parts
          PROVE  [i \in DOMAIN product'[m].parts[k] |-> product'[product'[m].parts[k][i]].by]
                   = DescriptorsOf(made.factory.deps[k].service)
      <4>1. registered \in Nat
        BY <1>1, <3>2 DEF KeptSound
      <4>2. CASE m \in 1 .. p
        <5>1. PICK all : all = product[m].parts /\ all = product'[m].parts /\ all \in Seq(Seq(1 .. p))
          BY <1>1, <3>2, <3>3, <4>2, ProductTypes
        <5>2. m \in registered + 1 .. Len(product) /\ made = MadeBy(m)
          BY <3>2, <3>3, <3>4, <4>1, <4>2 DEF MadeBy
        <5>3. [i \in DOMAIN all[k] |-> product[all[k][i]].by] = DescriptorsOf(made.factory.deps[k].service)
          <6>1. [i \in DOMAIN product[m].parts[k] |-> product[product[m].parts[k][i]].by]
                  = DescriptorsOf(MadeBy(m).factory.deps[k].service)
            BY <1>1, <3>4, <5>1, <5>2 DEF InstancesRight, PartsCurrent
          <6>2. [i \in DOMAIN product[m].parts[k] |-> product[product[m].parts[k][i]].by]
                  = [i \in DOMAIN all[k] |-> product[all[k][i]].by]
            BY <5>1
          <6> QED BY <5>2, <6>1, <6>2
        <5>4. \A i \in DOMAIN all[k] : all[k][i] \in 1 .. p
          <6>1. PICK part \in Seq(1 .. p) : part = all[k]
            BY <3>4, <5>1
          <6> QED BY <6>1
        <5>5. [i \in DOMAIN all[k] |-> product'[all[k][i]].by] = [i \in DOMAIN all[k] |-> product[all[k][i]].by]
          BY <3>3, <5>4
        <5> QED BY <5>1, <5>3, <5>5
      <4>3. CASE m = n
        <5>1. product'[m].parts = parts /\ made = descriptor[d]
          BY <2>4, <3>4, <4>3
        <5>2. /\ parts \in Seq(Seq(1 .. Len(product)))
              /\ [i \in DOMAIN parts[k] |-> product[parts[k][i]].by]
                   = DescriptorsOf(made.factory.deps[k].service)
          BY <1>1, <1>2, <1>3, <3>4, <5>1, PartsOfMade
        <5>3. \A i \in DOMAIN parts[k] : parts[k][i] \in 1 .. p
          <6>1. PICK part \in Seq(1 .. p) : part = parts[k]
            BY <3>2, <3>4, <5>1, <5>2
          <6> QED BY <6>1
        <5>4. [i \in DOMAIN parts[k] |-> product'[parts[k][i]].by] = [i \in DOMAIN parts[k] |-> product[parts[k][i]].by]
          BY <3>3, <5>3
        <5> QED BY <5>1, <5>2, <5>4
      <4> QED BY <3>2, <3>4, <4>1, <4>2, <4>3
    <3>5. ASSUME NEW m \in registered' + 1 .. Len(product'), NEW k \in DOMAIN product'[m].parts,
                 descriptor'[product'[m].by].factory.kind = "injection"
          PROVE  \A s \in {descriptor'[product'[m].by].factory.deps[k].service} :
                   [i \in DOMAIN product'[m].parts[k] |-> product'[product'[m].parts[k][i]].by]
                     = IF descriptorsMap'[s] = 0 THEN <<>> ELSE collection'[descriptorsMap'[s]]
      <4>1. PICK made, s : made = descriptor[product'[m].by] /\ s = made.factory.deps[k].service
        OBVIOUS
      <4>2. m \in registered + 1 .. n /\ made.factory.kind = "injection"
        BY <2>4, <3>1, <3>5, <4>1
      <4>3. [i \in DOMAIN product'[m].parts[k] |-> product'[product'[m].parts[k][i]].by] = DescriptorsOf(s)
        BY <3>4, <4>1, <4>2
      <4> QED BY <3>1, <4>1, <4>3 DEF DescriptorsOf, Listed
    <3> QED BY <3>5 DEF PartsCurrent, MadeBy, DescriptorsOf, Listed
  <2> QED BY <2>4, <2>11, <2>12, <2>13, <2>14 DEF ContainerInv, InstancesRight
<1> QED BY <1>6, <1>7

-----------------------------------------------------------------------------
(* Every operation and every step of a resolution keeps the invariant.     *)
LEMMA ContainerStep == ContainerInv /\ [ContainerNext]_containerVars => ContainerInv'
<1> SUFFICES ASSUME ContainerInv, [ContainerNext]_containerVars PROVE ContainerInv'
  OBVIOUS
<1>1. CASE \E i \in Implementations : AddImplementation(i)
  BY <1>1, AddImplementationKeeps
<1>2. CASE \E s \in Instances : AddInstance(s)
  BY <1>2, AddInstanceKeeps, ContainerAssumption
<1>3. CASE \E s \in Services, func \in Patches : Patch(s, func)
  BY <1>3, PatchKeeps
<1>4. CASE \E s \in Services, many \in BOOLEAN, x \in Storages : GetService(s, many, x)
  BY <1>4, GetServiceKeeps
<1>5. CASE GetInstance
  BY <1>5, GetInstanceKeeps
<1>6. CASE CallFactory
  <2>1. ~NoCalls /\ ~Pending(Running) /\ Running.by # 0
    BY <1>6 DEF CallFactory
  <2>2. CASE Running.deps # {}
    <3>1. PICK k \in Running.deps : GetDependency(k)
      BY <1>6, <2>2 DEF CallFactory
    <3> QED BY <2>1, <3>1, GetDependencyKeeps
  <2>3. CASE Running.deps = {}
    <3>1. MakeInstance
      BY <1>6, <2>3 DEF CallFactory
    <3> QED BY <2>1, <2>3, <3>1, MakeInstanceKeeps
  <2> QED BY <2>2, <2>3
<1>7. CASE Return
  BY <1>7, ReturnKeeps
<1>8. CASE \E x \in Storages : ClearStorage(x)
  BY <1>8, ClearStorageKeeps
<1>9. CASE UNCHANGED containerVars
  <2>1. UNCHANGED <<registryVars, keptVars, cleared>> /\ calls' = calls /\ asked' = asked /\ result' = result
    BY <1>9 DEF containerVars
  <2>2. RegistrySound' /\ KeptSound' /\ OneInstance' /\ PartsCurrent'
    BY <2>1, NothingChanges DEF ContainerInv
  <2>3. ManyInOrder'
    BY <2>1 DEF ContainerInv, InstancesRight, ManyInOrder, DescriptorsOf, Listed, registryVars, keptVars
  <2>4. CallsSound'
    <3>1. CallsSound
      BY DEF ContainerInv
    <3> QED BY <2>1, <3>1, SMTT(30) DEF CallsSound, NoCalls, RootSound, CallSound, Kept, Place, Before, Listed,
                                        registryVars, keptVars
  <2> QED BY <2>2, <2>3, <2>4 DEF ContainerInv, InstancesRight
<1> QED BY <1>1, <1>2, <1>3, <1>4, <1>5, <1>6, <1>7, <1>8, <1>9 DEF ContainerNext

(* Whatever is registered, patched and asked for, in any order, and        *)
(* wherever a factory throws, the invariant holds: ServiceDescriptor calls *)
(* a factory only while it has no instance, because calls only go to       *)
(* descriptors that come before.                                           *)
THEOREM ContainerInvariant == ContainerSpec => []ContainerInv
<1> QED BY ContainerStarts, ContainerStep, PTL DEF ContainerSpec

(* What get() and getMany() return and what factories are injected is of   *)
(* its lifetime, made for its storage since this was last cleared, and     *)
(* from the descriptors that are registered now, also when they were       *)
(* registered or patched after the service that depends on them.           *)
THEOREM InstancesAreRight == ContainerSpec => []InstancesRight
<1>1. ContainerInv => InstancesRight
  BY DEF ContainerInv
<1> QED BY <1>1, ContainerInvariant, PTL
=============================================================================
