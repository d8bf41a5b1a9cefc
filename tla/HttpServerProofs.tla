-------------------------- MODULE HttpServerProofs --------------------------
(***************************************************************************)
(* What start(), stop(), the accept loops and the timer keep true of one   *)
(* core's server, for any number of connections, sockets and addresses.    *)
(***************************************************************************)
EXTENDS HttpServer, FiniteSetTheorems, TLAPS

USE DEF socketVars, connVars, stopVars, history

(* The gauge is a number. *)
LEMMA CountNat ==
    ASSUME NEW S, S \subseteq Connections PROVE Cardinality(S) \in Nat
BY HttpServerAssumption, FS_Subset, FS_CardinalityType

LEMMA TypeInit == Init => TypeOK
<1> SUFFICES ASSUME Init PROVE TypeOK
  OBVIOUS
<1>1. flag \in [Connections -> BOOLEAN] /\ armed \in BOOLEAN
  BY DEF Init
<1>2. awaited = {} /\ abandoned = {} /\ strays = {} /\ registered = {} /\ current \in Nat /\ total \in Nat
  BY DEF Init
<1> QED BY <1>1, <1>2 DEF Init, TypeOK

LEMMA TypeNext == TypeOK /\ [Next]_vars => TypeOK'
<1> SUFFICES ASSUME TypeOK, [Next]_vars PROVE TypeOK'
  OBVIOUS
<1> USE DEF TypeOK, Shutdown
<1>0. Abandoned \subseteq Sockets
  BY DEF Abandoned
<1>1. CASE StartFails
  BY <1>0, <1>1 DEF StartFails, Fresh
<1>2. CASE Start
  BY <1>0, <1>2 DEF Start, Fresh
<1>3. CASE Tick
  BY <1>3 DEF Tick
<1>4. CASE Stop
  BY <1>4 DEF Stop
<1>5. CASE ListenersStopped
  BY <1>5 DEF ListenersStopped
<1>6. CASE ConnectionsStopped
  BY <1>6 DEF ConnectionsStopped
<1>7. ASSUME NEW s \in Sockets, AcceptResolves(s) \/ AcceptFails(s) PROVE TypeOK'
  BY <1>7 DEF AcceptResolves, AcceptFails
<1>8. ASSUME NEW s \in Sockets, NEW c \in Connections, StartConnection(s, c) PROVE TypeOK'
  <2>1. registered' \subseteq Connections /\ current' = Cardinality(registered')
    BY <1>8 DEF StartConnection
  <2>2. current' \in Nat
    BY <2>1, CountNat
  <2> QED BY <1>8, <2>1, <2>2 DEF StartConnection
<1>9. ASSUME NEW c \in Connections, Progress(c) \/ ShutsDown(c) PROVE TypeOK'
  BY <1>9 DEF Progress, ShutsDown
<1>10. ASSUME NEW c \in Connections, Closes(c) PROVE TypeOK'
  <2>1. registered' \subseteq Connections /\ current' = Cardinality(registered')
    BY <1>10 DEF Closes
  <2>2. current' \in Nat
    BY <2>1, CountNat
  <2> QED BY <1>10, <2>1, <2>2 DEF Closes
<1>11. CASE UNCHANGED vars
  BY <1>11 DEF vars
<1> QED BY <1>1, <1>2, <1>3, <1>4, <1>5, <1>6, <1>7, <1>8, <1>9, <1>10, <1>11 DEF Next

(* Every variable of the server keeps its type, also when start() is       *)
(* called during stop().                                                   *)
THEOREM ServerTypes == Spec => []TypeOK
BY TypeInit, TypeNext, PTL DEF Spec

-----------------------------------------------------------------------------
(* The invariant of a server whose start() does not overlap stop()         *)

LEMMA ServerInit == Init => ServerInv
<1> SUFFICES ASSUME Init PROVE ServerInv
  OBVIOUS
<1>1. {c \in Connections : Open(c)} = {} /\ current = Cardinality(registered)
  BY FS_EmptySet DEF Init, Open
<1> QED BY <1>1 DEF Init, ServerInv, HasLoop, RunningIsComplete, RegisteredAreOpen

(* start(): the accept of every loop that runs is aborted, and the new     *)
(* sockets were never told to stop accepting.                              *)
LEMMA StartInv ==
    ASSUME TypeOK, ServerInv, OverlappingStart = FALSE, Start \/ StartFails PROVE ServerInv'
<1> USE DEF TypeOK
<1>1. stopping = "no"
  BY DEF Start, StartFails, MayStart
<1>2. /\ UNCHANGED <<connVars, stopVars, strays>> /\ abandoned' = Abandoned
      /\ abortedAccept' = abortedAccept \cup listeners
  BY DEF Start, StartFails
<1>3. RegisteredAreOpen'
  BY <1>2 DEF ServerInv, RegisteredAreOpen, Open
<1>4. ASSUME NEW s \in Sockets, HasLoop(s) PROVE s \in abandoned' \cap abortedAccept'
  <2>1. CASE s \in futures
    BY <1>2, <1>4, <2>1 DEF ServerInv, Abandoned
  <2>2. CASE s \notin futures
    BY <1>2, <1>4, <2>2 DEF ServerInv, Abandoned
  <2> QED BY <2>1, <2>2
<1>5. CASE Start
  <2>1. PICK S \in Fresh(Addresses) :
           /\ socket' = [s \in Sockets |-> IF s \in S THEN "accepting" ELSE socket[s]]
           /\ listeners' = S /\ futures' = S
    BY <1>5 DEF Start
  <2>2. armed' = TRUE /\ mode' = "running"
    BY <1>5 DEF Start
  <2>3. S \subseteq Sockets /\ Cardinality(S) = Addresses /\ \A s \in S : socket[s] = "unused"
    BY DEF Fresh
  <2>4. \A s \in Sockets : HasLoop(s)' <=> s \in S \/ HasLoop(s)
    BY <2>1 DEF HasLoop
  <2>5. \A s \in S : s \notin abortedAccept'
    BY <1>2, <2>3 DEF ServerInv
  <2>6. \A s \in abortedAccept' \cup listeners' : socket'[s] # "unused"
    BY <1>2, <2>1, <2>3 DEF ServerInv
  <2>7. RunningIsComplete'
    BY <2>1, <2>2, <2>3, <2>4, <2>5 DEF RunningIsComplete
  <2> QED BY <1>1, <1>2, <1>3, <1>4, <2>1, <2>2, <2>4, <2>6, <2>7 DEF ServerInv
<1>6. CASE StartFails
  <2>1. PICK n \in 0 .. Addresses - 1 : \E S \in Fresh(n) :
           /\ socket' = [s \in Sockets |-> IF s \in S THEN "bound" ELSE socket[s]]
           /\ listeners' = S
    BY <1>6 DEF StartFails
  <2>2. PICK S \in Fresh(n) :
           /\ socket' = [s \in Sockets |-> IF s \in S THEN "bound" ELSE socket[s]]
           /\ listeners' = S
    BY <2>1
  <2>3. /\ futures' = {} /\ UNCHANGED armed /\ mode' # "running"
        /\ mode' = "stopped" => mode = "stopped"
    BY <1>6 DEF StartFails
  <2>4. S \subseteq Sockets
    BY DEF Fresh
  <2>5. \A s \in Sockets : HasLoop(s)' => HasLoop(s)
    BY <2>2 DEF HasLoop
  <2>6. \A s \in abortedAccept' \cup listeners' : socket'[s] # "unused"
    BY <1>2, <2>2, <2>4 DEF ServerInv
  <2> QED BY <1>1, <1>2, <1>3, <1>4, <2>3, <2>5, <2>6 DEF ServerInv, RunningIsComplete
<1> QED BY <1>5, <1>6

(* The accept loops: a loop that ends was told to, so it is none of a      *)
(* running server; a connection starts while stop() does not wait for      *)
(* connections yet, or is an abandoned loop's.                             *)
LEMMA AcceptInv ==
    ASSUME TypeOK, ServerInv, NEW s \in Sockets,
           \/ AcceptResolves(s) \/ AcceptFails(s)
           \/ \E c \in Connections : StartConnection(s, c)
    PROVE  ServerInv'
<1> USE DEF TypeOK
<1>1. HasLoop(s)
  BY DEF AcceptResolves, AcceptFails, StartConnection, HasLoop
<1>2. UNCHANGED <<abortedAccept, listeners, futures, armed, stopVars, mode, abandoned>>
  BY DEF AcceptResolves, AcceptFails, StartConnection
<1>3. /\ \A t \in Sockets \ {s} : socket'[t] = socket[t]
      /\ socket'[s] # "unused"
      /\ HasLoop(s)' \/ s \in abortedAccept
  BY DEF AcceptResolves, AcceptFails, StartConnection, HasLoop
<1>4. TooLate => s \in abandoned
  BY <1>1 DEF TooLate, ServerInv
<1>5. RunningIsComplete'
  <2> SUFFICES ASSUME mode = "running", stopping = "no" PROVE RunningIsComplete'
    BY <1>2 DEF RunningIsComplete
  <2>1. \A t \in listeners : HasLoop(t) /\ t \notin abortedAccept
    BY DEF ServerInv, RunningIsComplete
  <2>2. \A t \in listeners : HasLoop(t)'
    BY <1>3, <2>1 DEF HasLoop
  <2> QED BY <1>2, <2>1, <2>2 DEF ServerInv, RunningIsComplete
<1>6. RegisteredAreOpen' /\ strays \subseteq strays' /\ (TooLate => registered' \subseteq registered \cup strays')
  <2>1. CASE AcceptResolves(s) \/ AcceptFails(s)
    BY <2>1 DEF AcceptResolves, AcceptFails, ServerInv, RegisteredAreOpen, Open
  <2>2. ASSUME NEW c \in Connections, StartConnection(s, c)
        PROVE  /\ RegisteredAreOpen' /\ strays \subseteq strays'
               /\ TooLate => registered' \subseteq registered \cup strays'
    <3>1. /\ phase' = [phase EXCEPT ![c] = "Started"] /\ registered' = registered \cup {c}
          /\ current' = Cardinality(registered')
          /\ strays' = IF s \in abandoned /\ TooLate THEN strays \cup {c} ELSE strays
      BY <2>2 DEF StartConnection
    <3>2. strays \subseteq strays' /\ (TooLate => registered' \subseteq registered \cup strays')
      BY <1>4, <3>1
    <3>3. RegisteredAreOpen'
      BY <3>1, <3>2 DEF ServerInv, RegisteredAreOpen, Open
    <3> QED BY <3>2, <3>3
  <2> QED BY <2>1, <2>2
<1>7. /\ \A t \in Sockets : HasLoop(t)' => HasLoop(t)
      /\ \A t \in abortedAccept' \cup listeners' : socket'[t] # "unused"
  BY <1>1, <1>2, <1>3 DEF ServerInv, HasLoop
<1> QED BY <1>2, <1>5, <1>6, <1>7 DEF ServerInv, TooLate

(* The connections and the timer change no socket, and only a connection   *)
(* that closes leaves the collection.                                      *)
LEMMA ConnectionInv ==
    ASSUME TypeOK, ServerInv,
           Tick \/ \E c \in Connections : Progress(c) \/ ShutsDown(c) \/ Closes(c)
    PROVE  ServerInv'
<1> USE DEF TypeOK
<1>1. UNCHANGED <<socketVars, armed, stopVars, history>> /\ registered' \subseteq registered
  BY DEF Tick, Progress, ShutsDown, Closes
<1>2. RegisteredAreOpen'
  <2>1. CASE Tick
    BY <2>1 DEF Tick, Shutdown, ServerInv, RegisteredAreOpen, Open
  <2>2. ASSUME NEW c \in Connections, Progress(c) \/ ShutsDown(c) PROVE RegisteredAreOpen'
    BY <2>2 DEF Progress, ShutsDown, Shutdown, ServerInv, RegisteredAreOpen, Open
  <2>3. ASSUME NEW c \in Connections, Closes(c) PROVE RegisteredAreOpen'
    BY <2>3 DEF Closes, ServerInv, RegisteredAreOpen, Open
  <2> QED BY <2>1, <2>2, <2>3
<1> QED BY <1>1, <1>2 DEF ServerInv, HasLoop, RunningIsComplete

(* stop(): when its first half is over only abandoned loops are left, so   *)
(* its second half has seen every connection but theirs.                   *)
LEMMA StopInv ==
    ASSUME TypeOK, ServerInv, Stop \/ ListenersStopped \/ ConnectionsStopped PROVE ServerInv'
<1> USE DEF TypeOK
<1>1. CASE Stop
  BY <1>1 DEF Stop, ServerInv, HasLoop, RunningIsComplete, RegisteredAreOpen, Open
<1>2. CASE ListenersStopped
  <2>1. \A s \in Sockets : HasLoop(s) => s \notin futures
    BY <1>2 DEF ListenersStopped, ServerInv, HasLoop
  <2>2. RegisteredAreOpen'
    BY <1>2 DEF ListenersStopped, Shutdown, ServerInv, RegisteredAreOpen, Open
  <2> QED BY <1>2, <2>1, <2>2 DEF ListenersStopped, ServerInv, HasLoop, RunningIsComplete
<1>3. CASE ConnectionsStopped
  <2>1. \A c \in Connections : Open(c) => c \in strays
    BY <1>3 DEF ConnectionsStopped, ServerInv, RegisteredAreOpen, Open
  <2>2. RegisteredAreOpen'
    BY <1>3, <2>1, FS_EmptySet DEF ConnectionsStopped, RegisteredAreOpen, Open
  <2> QED BY <1>3, <2>2 DEF ConnectionsStopped, ServerInv, HasLoop, RunningIsComplete
<1> QED BY <1>1, <1>2, <1>3

LEMMA ServerNext ==
    ASSUME TypeOK, ServerInv, OverlappingStart = FALSE, [Next]_vars PROVE ServerInv'
<1>1. CASE UNCHANGED vars
  BY <1>1 DEF vars, ServerInv, HasLoop, RunningIsComplete, RegisteredAreOpen, Open
<1> QED BY <1>1, StartInv, AcceptInv, ConnectionInv, StopInv DEF Next

(* As long as nobody calls start() during stop(), the sockets, the accept  *)
(* loops, the collection and the two halves of stop() stay in agreement,   *)
(* also when start() is called on a server that runs.                      *)
THEOREM ServerInvariant ==
    ASSUME OverlappingStart = FALSE PROVE Spec => [](TypeOK /\ ServerInv)
<1>1. Init => TypeOK /\ ServerInv
  BY TypeInit, ServerInit
<1>2. TypeOK /\ ServerInv /\ [Next]_vars => (TypeOK /\ ServerInv)'
  BY TypeNext, ServerNext
<1> QED BY <1>1, <1>2, PTL DEF Spec

(* The collection holds open connections only, the gauge counts them, and  *)
(* an open one that is missing was started by a loop that a start() on a   *)
(* running server had abandoned, when stop() was past it: the timer and    *)
(* stop() reach every other.                                               *)
THEOREM CollectionExact == ASSUME OverlappingStart = FALSE PROVE Spec => []RegisteredAreOpen
<1>1. TypeOK /\ ServerInv => RegisteredAreOpen
  BY DEF ServerInv
<1> QED BY <1>1, ServerInvariant, PTL

(* Outside of stop() the server is all there or all gone, through failed   *)
(* and repeated calls and through start() on a server that runs, but for   *)
(* what such a start() abandoned, and nobody accepts but the loops of the  *)
(* last start().                                                           *)
THEOREM ServerWhole == ASSUME OverlappingStart = FALSE PROVE Spec => []AllOrNothing
<1>1. TypeOK /\ ServerInv => AllOrNothing
  BY DEF TypeOK, ServerInv, AllOrNothing, StoppedIsQuiet, OnlyTheLastAccept, RegisteredAreOpen
<1> QED BY <1>1, ServerInvariant, PTL

-----------------------------------------------------------------------------
(* The connections as the server moves them *)

(* Only open connections are in the collection, even when start() and      *)
(* stop() overlap.                                                         *)
OnlyOpen == \A c \in registered : Open(c)

LEMMA OnlyOpenNext == TypeOK /\ OnlyOpen /\ [Next]_vars => OnlyOpen'
<1> SUFFICES ASSUME TypeOK, OnlyOpen, [Next]_vars PROVE OnlyOpen'
  OBVIOUS
<1> USE DEF TypeOK, OnlyOpen, Open, Shutdown
<1>1. CASE StartFails \/ Start \/ Stop \/ UNCHANGED vars
  BY <1>1 DEF StartFails, Start, Stop, vars
<1>2. CASE Tick \/ ListenersStopped \/ ConnectionsStopped
  BY <1>2 DEF Tick, ListenersStopped, ConnectionsStopped
<1>3. ASSUME NEW s \in Sockets, AcceptResolves(s) \/ AcceptFails(s) PROVE OnlyOpen'
  BY <1>3 DEF AcceptResolves, AcceptFails
<1>4. ASSUME NEW s \in Sockets, NEW c \in Connections, StartConnection(s, c) PROVE OnlyOpen'
  BY <1>4 DEF StartConnection
<1>5. ASSUME NEW c \in Connections, Progress(c) \/ ShutsDown(c) \/ Closes(c) PROVE OnlyOpen'
  BY <1>5 DEF Progress, ShutsDown, Closes
<1> QED BY <1>1, <1>2, <1>3, <1>4, <1>5 DEF Next

(* A step of the server is for each connection a step of its own           *)
(* specification, or none.                                                 *)
LEMMA StepLifecycle ==
    ASSUME TypeOK, OnlyOpen, Next, NEW c \in Connections
    PROVE  [Lifecycle(c)!Next]_<<phase[c], flag[c]>>
<1> USE DEF TypeOK, OnlyOpen, Open, Lifecycle!Next
<1>1. CASE UNCHANGED <<phase, flag>>
  BY <1>1
<1>2. CASE Tick
  BY <1>2 DEF Tick, Shutdown, Lifecycle!Tick, Lifecycle!Open
<1>3. CASE ListenersStopped
  BY <1>3 DEF ListenersStopped, Shutdown, Lifecycle!ShutDown, Lifecycle!Open
<1>4. ASSUME NEW s \in Sockets, NEW d \in Connections, StartConnection(s, d)
      PROVE  [Lifecycle(c)!Next]_<<phase[c], flag[c]>>
  BY <1>4 DEF StartConnection, Lifecycle!Start
<1>5. ASSUME NEW d \in Connections, Progress(d)
      PROVE  [Lifecycle(c)!Next]_<<phase[c], flag[c]>>
  BY <1>5 DEF Progress, Lifecycle!Progress, Lifecycle!Open
<1>6. ASSUME NEW d \in Connections, ShutsDown(d)
      PROVE  [Lifecycle(c)!Next]_<<phase[c], flag[c]>>
  BY <1>6 DEF ShutsDown, Shutdown, Lifecycle!ShutDown, Lifecycle!Open
<1>7. ASSUME NEW d \in Connections, Closes(d)
      PROVE  [Lifecycle(c)!Next]_<<phase[c], flag[c]>>
  BY <1>7 DEF Closes, Lifecycle!Close
<1>8. CASE StartFails \/ Start \/ Stop \/ ConnectionsStopped
           \/ \E s \in Sockets : AcceptResolves(s) \/ AcceptFails(s)
  BY <1>1, <1>8 DEF StartFails, Start, Stop, ConnectionsStopped, vars,
     AcceptResolves, AcceptFails
<1> QED BY <1>2, <1>3, <1>4, <1>5, <1>6, <1>7, <1>8 DEF Next

(* Every connection lives as ConnectionLifecycle says, whatever the server *)
(* does: it starts once, closes after a shutdown only, and is timed out by *)
(* the second tick without progress.                                       *)
THEOREM LifecyclesKept == Spec => EveryLifecycle
<1>1. Init => \A c \in Connections : Lifecycle(c)!Init
  BY DEF Init, Lifecycle!Init
<1>2. Init => OnlyOpen
  BY DEF Init, OnlyOpen
<1>3. TypeOK /\ OnlyOpen /\ [Next]_vars
        => [\A c \in Connections : [Lifecycle(c)!Next]_<<phase[c], flag[c]>>]_vars
  BY StepLifecycle
<1> QED BY <1>1, <1>2, <1>3, OnlyOpenNext, ServerTypes, PTL DEF Spec, EveryLifecycle
=============================================================================
