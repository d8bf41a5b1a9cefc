---------------------------- MODULE Application ----------------------------
(***************************************************************************)
(* Application: src/Application/Application.cpp.  start(), stopTemporary() *)
(* stop() and runForever() are chains of continuations that share one      *)
(* ApplicationData.  Each link of a chain sends a phase to every core,     *)
(* where the modules handle it one after the other, and the chain goes on  *)
(* when every core is done.  HttpServerModule is one of the modules.       *)
(***************************************************************************)
EXTENDS Naturals, Sequences, SequencesExt, FiniteSets

CONSTANTS Callers,        \* fibers that use the application
          Operations,     \* what they call
          Shards,         \* the cpu cores
          MaxModules,     \* bound: modules added
          ServerModule,   \* which of them is the HttpServerModule
          FailingPhases   \* phases in which code of a module may throw

Initialize == <<"ShardStart", "CreateModules",
    "StartInitialize", "RegisterBasicServices", "BeforeCallCustomInitializeFunctions",
    "CallingCustomIntializeFunctions", "AfterCustomInitializeFunctionsCalled",
    "RegisterHeadServices", "RegisterServices", "RegisterTailServices",
    "PatchServices", "AfterServicesRegistered", "AfterInitialized">>
Starts == <<"BeforeStart", "Starting", "AfterStarted">>
StopsTemporarily == <<"BeforeTemporaryStop", "TemporaryStopping", "AfterTemporaryStopped">>
Stops == <<"BeforeStop", "Stopping", "AfterStopped">>

NotHandled == {"ShardStart", "CreateModules"}    \* phases that are no ApplicationState
ApplicationState ==
    ToSet(Initialize \o Starts \o StopsTemporarily \o Stops) \ NotHandled

(* Links of a chain that are decided when they are reached *)
Links == {"ensureInitialized", "startImpl", "stopTemporaryImpl", "stopImpl", "destroy", "waitExit"}

Phases == ApplicationState \cup NotHandled

AllOperations == {"start", "stopTemporary", "stop", "runForever"}

ASSUME ApplicationAssumption ==
    /\ IsFiniteSet(Shards) /\ IsFiniteSet(Callers) /\ Operations \subseteq AllOperations
    /\ MaxModules \in Nat /\ ServerModule \in Nat \ {0} /\ FailingPhases \subseteq Phases

VARIABLES
    state, shardData,   \* data.state, and whether shardData_ is set
    factories,          \* how many modulesFactories there are
    modules,            \* on each core, how many modules it has created
    call,               \* on each caller, the call in progress
    server,             \* on each core, the HttpServer of the HttpServerModule
    exiting             \* the stop flag of runForever()

vars == <<state, shardData, factories, modules, call, server, exiting>>

(* A call: its operation, the links to go, the phase the cores are in, for *)
(* each core the module that handles it (0: the phase has not reached the  *)
(* core, one past the last: done), and the cores where a module threw.     *)
Idle == [op |-> "idle", todo |-> <<>>, phase |-> "none",
         at |-> [s \in Shards |-> 0], threw |-> {}]

Init == /\ state = "StartInitialize" /\ shardData = FALSE /\ factories = 0
        /\ modules = [s \in Shards |-> 0] /\ call = [c \in Callers |-> Idle]
        /\ server = [s \in Shards |-> "none"] /\ exiting = FALSE

-----------------------------------------------------------------------------
(* add(), and the calls *)

Add == /\ state = "StartInitialize" /\ factories < MaxModules
       /\ factories' = factories + 1
       /\ UNCHANGED <<state, shardData, modules, call, server, exiting>>

Chain(op) == CASE op = "start"         -> <<"ensureInitialized", "startImpl">>
               [] op = "stopTemporary" -> <<"stopTemporaryImpl">>
               [] op = "stop"          -> <<"stopImpl">>
               [] op = "runForever"    -> <<"ensureInitialized", "startImpl", "waitExit", "stopImpl">>

Call(c, op) ==
    /\ call[c] = Idle /\ (op = "runForever" => ~exiting)
    /\ call' = [call EXCEPT ![c] = [Idle EXCEPT !.op = op, !.todo = Chain(op)]]
    /\ UNCHANGED <<state, shardData, factories, modules, server, exiting>>

-----------------------------------------------------------------------------
(* A phase on the cores: invoke_on_all() *)

(* One past the last module, or one where the core runs no handler.        *)
Beyond(c, s) == IF call[c].phase \in NotHandled \cup {"CallingCustomIntializeFunctions"}
              THEN 1 ELSE modules[s] + 1

Busy(c, s) == call[c].phase # "none" /\ s \notin call[c].threw /\ call[c].at[s] < Beyond(c, s)

Advance(c, s) == call' = [call EXCEPT ![c].at[s] = @ + 1]

(* sharded::start() and the factories on one core *)
CreateOnShard(c, s) ==
    /\ Busy(c, s) /\ call[c].phase \in NotHandled
    /\ modules' = IF call[c].phase = "CreateModules" THEN [modules EXCEPT ![s] = factories] ELSE modules
    /\ Advance(c, s) /\ UNCHANGED <<state, shardData, factories, server, exiting>>

\* A slip: the modules are configured whatever their number.
ConfiguresUnchecked(c, s) ==
    /\ Busy(c, s) /\ call[c].phase = "CallingCustomIntializeFunctions"
    /\ Advance(c, s) /\ UNCHANGED <<state, shardData, factories, modules, server, exiting>>

(* The custom initialize functions of one core, "module count not matched" *)
CustomInitialize(c, s) ==
    /\ Busy(c, s) /\ call[c].phase = "CallingCustomIntializeFunctions"
    /\ IF factories = modules[s] THEN Advance(c, s)
       ELSE call' = [call EXCEPT ![c].threw = @ \cup {s}]
    /\ UNCHANGED <<state, shardData, factories, modules, server, exiting>>

(* The phase reaches a core, and the first module's handle() is called.    *)
Reach(c, s) ==
    /\ Busy(c, s) /\ call[c].phase \in ApplicationState \ {"CallingCustomIntializeFunctions"}
    /\ call[c].at[s] = 0
    /\ Advance(c, s) /\ UNCHANGED <<state, shardData, factories, modules, server, exiting>>

(* HttpServerModule::handle().  A start() of a running server arms its     *)
(* timer a second time.                                                    *)
ServerHandles(s, phase) ==
    CASE phase = "AfterServicesRegistered" -> "constructed"
      [] phase = "Starting" -> IF server[s] = "running" THEN "startedTwice" ELSE "running"
      [] phase = "Stopping" -> "stopped"
      [] OTHER -> server[s]

(* The future of a module's handle() is ready, and the next one is called. *)
HandleDone(c, s) ==
    /\ Busy(c, s) /\ call[c].phase \in ApplicationState \ {"CallingCustomIntializeFunctions"}
    /\ call[c].at[s] > 0
    /\ server' = IF call[c].at[s] = ServerModule
                 THEN [server EXCEPT ![s] = ServerHandles(s, call[c].phase)] ELSE server
    /\ Advance(c, s) /\ UNCHANGED <<state, shardData, factories, modules, exiting>>

(* A factory, a custom function or a handle() throws: the other modules of *)
(* the core are skipped, the other cores go on.                            *)
Throws(c, s) ==
    /\ Busy(c, s) /\ call[c].phase \in FailingPhases
    /\ call[c].phase \in ApplicationState \ {"CallingCustomIntializeFunctions"} => call[c].at[s] > 0
    /\ call' = [call EXCEPT ![c].threw = @ \cup {s}]
    /\ UNCHANGED <<state, shardData, factories, modules, server, exiting>>

-----------------------------------------------------------------------------
(* The chain of a call *)

Returned(c) == /\ \A s \in Shards : ~Busy(c, s)
               /\ call[c].op # "idle"

\* A slip: the chain goes on whether or not a core failed.
IgnoresFailure(c) == Returned(c)

Succeeded(c) == Returned(c) /\ call[c].threw = {}

Fail(c) == call' = [call EXCEPT ![c] = Idle]

(* updateState(): the state is set first, then the cores are told.         *)
Enter(c, phases, rest) ==
    /\ state' = IF Head(phases) \in NotHandled THEN state ELSE Head(phases)
    /\ IF shardData'
       THEN call' = [call EXCEPT ![c] =
              [Idle EXCEPT !.op = call[c].op, !.phase = Head(phases), !.todo = Tail(phases) \o rest]]
       ELSE Fail(c)

Rest(c) == Tail(call[c].todo)

Link(c) == IF call[c].todo = <<>> THEN "end" ELSE Head(call[c].todo)

(* A phase failed somewhere, so the call fails.                            *)
CallFails(c) ==
    /\ Returned(c) /\ call[c].threw # {} /\ Fail(c)
    /\ UNCHANGED <<state, shardData, factories, modules, server, exiting>>

CallEnds(c) ==
    /\ Succeeded(c) /\ Link(c) = "end" /\ Fail(c)
    /\ UNCHANGED <<state, shardData, factories, modules, server, exiting>>

(* The next phase of a chain that is under way *)
NextPhase(c) ==
    /\ Succeeded(c) /\ Link(c) \in Phases
    /\ UNCHANGED shardData /\ Enter(c, <<Link(c)>>, Rest(c))
    /\ UNCHANGED <<factories, modules, server, exiting>>

(* ensureInitialized(), with createShardData()                             *)
EnsureInitialized(c) ==
    /\ Succeeded(c) /\ Link(c) = "ensureInitialized"
    /\ \/ /\ state # "StartInitialize"
          /\ call' = [call EXCEPT ![c].todo = Rest(c)] /\ UNCHANGED <<state, shardData>>
       \/ /\ state = "StartInitialize" /\ shardData
          /\ Fail(c) /\ UNCHANGED <<state, shardData>>
       \/ /\ state = "StartInitialize" /\ ~shardData /\ shardData' = TRUE
          /\ Enter(c, Initialize, Rest(c))
    /\ UNCHANGED <<factories, modules, server, exiting>>

\* Slips: a start() that is under way, or never was, is not noticed.
StartsTwice(link) ==
    CASE link = "startImpl"         -> {"AfterInitialized", "AfterTemporaryStopped", "BeforeStart"}
      [] link = "stopTemporaryImpl" -> {"AfterStarted"}
      [] link = "stopImpl"          -> {"AfterStarted", "AfterTemporaryStopped"}
StopsUnstarted(link) ==
    CASE link = "startImpl"         -> {"AfterInitialized", "AfterTemporaryStopped"}
      [] link = "stopTemporaryImpl" -> {"AfterStarted"}
      [] link = "stopImpl"          -> {"AfterStarted", "AfterTemporaryStopped", "AfterInitialized"}

(* The states in which each operation is accepted *)
AcceptedIn(link) ==
    CASE link = "startImpl"         -> {"AfterInitialized", "AfterTemporaryStopped"}
      [] link = "stopTemporaryImpl" -> {"AfterStarted"}
      [] link = "stopImpl"          -> {"AfterStarted", "AfterTemporaryStopped"}

PhasesOf(link) ==
    CASE link = "startImpl"         -> Starts
      [] link = "stopTemporaryImpl" -> StopsTemporarily
      [] link = "stopImpl"          -> Stops \o <<"destroy">>

Guarded == {"startImpl", "stopTemporaryImpl", "stopImpl"}

(* startImpl(), stopTemporaryImpl(), stopImpl(): "incorrect state when..." *)
Accept(c) ==
    /\ Succeeded(c) /\ Link(c) \in Guarded /\ state \in AcceptedIn(Link(c))
    /\ UNCHANGED shardData /\ Enter(c, PhasesOf(Link(c)), Rest(c))
    /\ UNCHANGED <<factories, modules, server, exiting>>

Refuse(c) ==
    /\ Succeeded(c) /\ Link(c) \in Guarded /\ state \notin AcceptedIn(Link(c))
    /\ Fail(c)
    /\ UNCHANGED <<state, shardData, factories, modules, server, exiting>>

(* ApplicationData::stop(): the modules of every core are destructed.  A   *)
(* handle() of another call that still runs uses memory that is free; here *)
(* it still finds its module there, one of the possible outcomes.          *)
Destroy(c) ==
    /\ Succeeded(c) /\ Link(c) = "destroy" /\ shardData
    /\ shardData' = FALSE
    /\ call' = [call EXCEPT ![c].todo = Rest(c), ![c].phase = "none"]
    /\ UNCHANGED <<state, factories, modules, server, exiting>>

\* A slip: the loop watches a copy of the flag.
WatchesCopy == FALSE

ExitSeen == exiting

(* The loop of runForever() ends when the flag is set.                     *)
WaitExit(c) ==
    /\ Succeeded(c) /\ Link(c) = "waitExit" /\ ExitSeen
    /\ call' = [call EXCEPT ![c].todo = Rest(c), ![c].phase = "none"]
    /\ UNCHANGED <<state, shardData, factories, modules, server, exiting>>

(* The reactor's at_exit functions                                         *)
Exit == /\ ~exiting /\ \E c \in Callers : call[c].op = "runForever"
        /\ exiting' = TRUE
        /\ UNCHANGED <<state, shardData, factories, modules, call, server>>

-----------------------------------------------------------------------------
ShardStep(c, s) == \/ CreateOnShard(c, s) \/ CustomInitialize(c, s)
                   \/ Reach(c, s) \/ HandleDone(c, s) \/ Throws(c, s)

ChainStep(c) == \/ CallFails(c) \/ CallEnds(c) \/ NextPhase(c) \/ EnsureInitialized(c)
                \/ Accept(c) \/ Refuse(c) \/ Destroy(c) \/ WaitExit(c)

Next == \/ Add \/ Exit
        \/ \E c \in Callers, op \in Operations : Call(c, op)
        \/ \E c \in Callers, s \in Shards : ShardStep(c, s)
        \/ \E c \in Callers : ChainStep(c)

Spec == Init /\ [][Next]_vars

(* The reactors run what is ready, and a module's handle() is always over  *)
(* some day.  Nobody has to call anything, or to end the program.          *)
Fairness == /\ \A c \in Callers, s \in Shards : WF_vars(ShardStep(c, s))
            /\ \A c \in Callers : WF_vars(ChainStep(c))

FairSpec == Spec /\ Fairness

-----------------------------------------------------------------------------
(* Every variable has its type, and no loop over modules runs past them.   *)
TypeOK ==
    /\ state \in ApplicationState /\ shardData \in BOOLEAN /\ exiting \in BOOLEAN
    /\ factories \in 0 .. MaxModules /\ modules \in [Shards -> 0 .. MaxModules]
    /\ server \in [Shards -> {"none", "constructed", "running", "startedTwice", "stopped"}]
    /\ \A c \in Callers :
         /\ call[c].op \in AllOperations \cup {"idle"} /\ call[c].threw \subseteq Shards
         /\ call[c].phase \in Phases \cup {"none"} /\ ToSet(call[c].todo) \subseteq Phases \cup Links
         /\ call[c].phase # "none" => \A s \in Shards : call[c].at[s] \in 0 .. Beyond(c, s)

Drives(c) == ToSet(call[c].todo) \cap (Phases \cup {"destroy"}) # {}

(* data.state works as a lock: however the calls of several fibers overlap,*)
(* at most one of them has states left to enter.                           *)
OneDriver == \A c, d \in Callers : Drives(c) /\ Drives(d) => c = d

(* From the registration of services on, every core has created every      *)
(* module that was ever added, add() during initialization included.       *)
ModulesAgree ==
    state \in ApplicationState \ ToSet(SubSeq(Initialize, 1, 6))
      => \A s \in Shards : modules[s] = factories

(* The http server of a core is started when it has been constructed, and  *)
(* Stopping only begins when the servers of all cores have started.        *)
ServerInOrder ==
    \A c \in Callers, s \in Shards : modules[s] >= ServerModule =>
      /\ call[c].phase = "Starting" => server[s] # "none"
      /\ call[c].phase = "BeforeStop" => server[s] \in {"running", "startedTwice"}

(* When the modules have been destructed no http server is running.        *)
NoServerLeft ==
    state = "AfterStopped" /\ ~shardData
      => \A s \in Shards : server[s] \notin {"running", "startedTwice"}

(* However calls, failures and late modules interleave, the cores stay in  *)
(* step: the same modules everywhere, servers started before they are      *)
(* stopped, and none left behind.                                          *)
ModulesInStep == ModulesAgree /\ ServerInOrder /\ NoServerLeft

(* Why they hold.  The chain of a call is the phase it is in and the links *)
(* it has to go: the phases of an operation follow one another without a   *)
(* gap up to the one that ends it, and no phase comes after a link that is *)
(* decided when it is reached.                                             *)
Resting == {"AfterInitialized", "AfterStarted", "AfterTemporaryStopped"}
Moving == Phases \ Resting
Follows(p, q) ==
    \E chain \in {Initialize, Starts, StopsTemporarily, Stops \o <<"destroy">>} :
      \E i \in 1 .. Len(chain) - 1 : chain[i] = p /\ chain[i + 1] = q

WellChained(path) ==
    /\ \A i \in DOMAIN path :
         path[i] \in Moving => i < Len(path) /\ Follows(path[i], path[i + 1])
    /\ \A i, j \in DOMAIN path :
         i < j /\ path[i] \notin Moving => path[j] \notin Phases \cup {"destroy"}

(* Whoever moves the application on holds data.state: nobody else can.     *)
DriverInv ==
    /\ \A c \in Callers : WellChained(<<call[c].phase>> \o call[c].todo)
    /\ \A c \in Callers : call[c].phase \in Moving =>
         /\ shardData
         /\ state = IF call[c].phase \in NotHandled THEN "StartInitialize" ELSE call[c].phase
    /\ \A c, d \in Callers : call[c].phase \in Moving /\ call[d].phase \in Moving => c = d

(* What a core that is done with a phase has done: counted its modules,    *)
(* constructed, started or stopped its server.                             *)
Up == {"running", "startedTwice"}
HasServer(s) == modules[s] >= ServerModule
CoreInv ==
    \A c \in Callers, s \in Shards :
      /\ call[c].phase = "CallingCustomIntializeFunctions" /\ call[c].at[s] > 0
           => modules[s] = factories
      /\ HasServer(s) /\ call[c].at[s] > ServerModule =>
           /\ call[c].phase = "AfterServicesRegistered" => server[s] # "none"
           /\ call[c].phase = "Starting" => server[s] \in Up
           /\ call[c].phase = "Stopping" => server[s] = "stopped"

BeforeServer == ToSet(SubSeq(Initialize, 1, 12))
ServerUp == {"AfterStarted", "BeforeStop"} \cup ToSet(StopsTemporarily)

StepInv ==
    /\ CoreInv /\ ModulesAgree
    /\ \A s \in Shards :
         /\ modules[s] <= factories
         /\ server[s] \in Up => HasServer(s)
         /\ HasServer(s) /\ state \notin BeforeServer => server[s] # "none"
         /\ HasServer(s) /\ state \in ServerUp => server[s] \in Up
         /\ state = "AfterStopped" => server[s] \notin Up

(* Every call returns, runForever() once the program is about to exit.     *)
CallsReturn ==
    \A c \in Callers : call[c].op \in AllOperations /\ (call[c].op = "runForever" => exiting)
                         ~> call[c].op = "idle"

-----------------------------------------------------------------------------
(* What the documentation says, and the code does not keep.                *)

Handling(c, s) == Busy(c, s) /\ call[c].at[s] > 0

(* Application.hpp lists the order in which handle() is called: all        *)
(* modules of a core are done with a state before one sees the next.       *)
HandleOrder ==
    \A c, d \in Callers, s \in Shards : Handling(c, s) /\ Handling(d, s) => c = d

(* "in every case you must call the stop function to cleanup application": *)
(* stop() is not refused when there is something to clean up and no other  *)
(* call is busy.                                                           *)
StopPossible ==
    [][\A c \in Callers : call[c].op = "stop" /\ Refuse(c)
         => ~shardData \/ \E d \in Callers \ {c} : call[d] # Idle]_vars

(* "Stop application temporary (can call start again later)": the start()  *)
(* that follows does not start a server that is still running.             *)
RestartsStopped == \A s \in Shards : server[s] # "startedTwice"
=============================================================================
