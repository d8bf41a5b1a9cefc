----------------------------- MODULE HttpServer -----------------------------
(***************************************************************************)
(* HttpServer of one core: src/HttpServer/HttpServer.cpp.  Accept loops    *)
(* start connections and register them, a timer visits every registered    *)
(* connection, and stop() ends the loops first and the connections next.   *)
(* A connection is what ConnectionLifecycle says.                          *)
(***************************************************************************)
EXTENDS Naturals, FiniteSets

CONSTANTS Connections,       \* connections that may be accepted
          Sockets,           \* listen sockets, one for each address of each start()
          Addresses,         \* how many listen addresses are configured
          OverlappingStart   \* whether start() may be called during stop()

ASSUME HttpServerAssumption ==
    /\ Addresses \in Nat \ {0} /\ OverlappingStart \in BOOLEAN
    /\ IsFiniteSet(Connections) /\ IsFiniteSet(Sockets)

VARIABLES
    socket,       \* "unused", "bound", "accepting", "resolved" (accept() has), "ended"
    abortedAccept,           \* sockets abort_accept() was called on
    listeners, futures,      \* data_->listeners, data_->listenerStoppedFutures
    armed,                   \* detectTimeoutTimer is armed
    phase, flag,             \* of each connection, see ConnectionLifecycle
    registered,              \* connectionsWrapper->value
    current, total,          \* metricData.current_connections, total_connections
    stopping,                \* where stop() is: "no", "listeners", "connections"
    awaited,                 \* the sockets or the connections stop() waits for
    mode,                    \* history: "running" since a start(), "stopped" since a stop()
                             \* returned, "broken" since a start() failed in between
    abandoned,               \* history: accept loops that a start() left running
    strays                   \* history: connections such a loop started too late for stop()

socketVars == <<socket, abortedAccept, listeners, futures>>
connVars   == <<phase, flag, registered, current, total>>
stopVars   == <<stopping, awaited>>
history    == <<mode, abandoned, strays>>
vars == <<socketVars, armed, connVars, stopVars, history>>

Init ==
    /\ socket = [s \in Sockets |-> "unused"] /\ abortedAccept = {}
    /\ listeners = {} /\ futures = {} /\ armed = FALSE
    /\ phase = [c \in Connections |-> "Initial"] /\ flag = [c \in Connections |-> FALSE]
    /\ registered = {} /\ current = 0 /\ total = 0
    /\ stopping = "no" /\ awaited = {}
    /\ mode = "stopped" /\ abandoned = {} /\ strays = {}

Shutdown(S) == [c \in Connections |-> IF c \in S THEN "Closing" ELSE phase[c]]

-----------------------------------------------------------------------------
(* start() *)

(* data_->stopping is never set: start() is refused neither during stop()  *)
(* nor on a server that runs.                                              *)
MayStart == stopping = "no" \/ OverlappingStart

HasLoop(s) == socket[s] \in {"accepting", "resolved"}

(* The loops that are left when the futures of a running server are        *)
(* cleared: their accept() is aborted, and nothing waits for them.         *)
Abandoned == IF mode = "stopped" THEN abandoned ELSE abandoned \cup {s \in Sockets : HasLoop(s)}

Fresh(n) == {S \in SUBSET {s \in Sockets : socket[s] = "unused"} : Cardinality(S) = n}

(* An address cannot be parsed or listened on: start() leaves the sockets  *)
(* it has made so far to the next start() or to stop().                    *)
StartFails ==
    /\ MayStart
    /\ \E n \in 0 .. Addresses - 1 : \E S \in Fresh(n) :
         /\ socket' = [s \in Sockets |-> IF s \in S THEN "bound" ELSE socket[s]]
         /\ listeners' = S
    /\ abortedAccept' = abortedAccept \cup listeners /\ futures' = {}
    /\ mode' = (IF mode = "stopped" THEN "stopped" ELSE "broken") /\ abandoned' = Abandoned
    /\ UNCHANGED <<armed, connVars, stopVars, strays>>

\* A slip: the sockets of an earlier start() that failed stay in the list.
StartKeepsOld ==
    /\ MayStart
    /\ \E S \in Fresh(Addresses) :
         /\ socket' = [s \in Sockets |-> IF s \in S THEN "accepting" ELSE socket[s]]
         /\ listeners' = listeners \cup S /\ futures' = S
    /\ armed' = TRUE /\ mode' = "running" /\ abandoned' = Abandoned
    /\ UNCHANGED <<abortedAccept, connVars, stopVars, strays>>

\* A slip: the accept of an earlier start() goes on.
StartLeavesAccept ==
    /\ MayStart
    /\ \E S \in Fresh(Addresses) :
         /\ socket' = [s \in Sockets |-> IF s \in S THEN "accepting" ELSE socket[s]]
         /\ listeners' = S /\ futures' = S
    /\ armed' = TRUE /\ mode' = "running" /\ abandoned' = Abandoned
    /\ UNCHANGED <<abortedAccept, connVars, stopVars, strays>>

Start ==
    /\ MayStart
    /\ \E S \in Fresh(Addresses) :
         /\ socket' = [s \in Sockets |-> IF s \in S THEN "accepting" ELSE socket[s]]
         /\ listeners' = S /\ futures' = S
    /\ abortedAccept' = abortedAccept \cup listeners
    /\ armed' = TRUE /\ mode' = "running" /\ abandoned' = Abandoned
    /\ UNCHANGED <<connVars, stopVars, strays>>

-----------------------------------------------------------------------------
(* The accept loops.  An accept() that has resolved before abort_accept()  *)
(* still starts its connection; only the next accept() fails.  The bound   *)
(* Connections limits how many connections clients make.                   *)

AcceptResolves(s) ==
    /\ socket[s] = "accepting" /\ s \notin abortedAccept
    /\ Cardinality({t \in Sockets : socket[t] = "resolved"})
         < Cardinality({c \in Connections : phase[c] = "Initial"})
    /\ socket' = [socket EXCEPT ![s] = "resolved"]
    /\ UNCHANGED <<abortedAccept, listeners, futures, armed, connVars, stopVars, history>>

\* A slip: the connection runs, and nobody knows of it.
RunsUnregistered(s, c) ==
    /\ socket[s] = "resolved" /\ phase[c] = "Initial"
    /\ socket' = [socket EXCEPT ![s] = "accepting"]
    /\ phase' = [phase EXCEPT ![c] = "Started"] /\ total' = total + 1
    /\ UNCHANGED <<abortedAccept, listeners, futures, armed, flag, registered, current, stopVars, history>>

(* stop() is past the connections of its moment, or has returned.          *)
TooLate == stopping = "connections" \/ mode = "stopped"

StartConnection(s, c) ==
    /\ socket[s] = "resolved" /\ phase[c] = "Initial"
    /\ socket' = [socket EXCEPT ![s] = "accepting"]
    /\ phase' = [phase EXCEPT ![c] = "Started"]
    /\ registered' = registered \cup {c}
    /\ total' = total + 1 /\ current' = Cardinality(registered')
    /\ strays' = IF s \in abandoned /\ TooLate THEN strays \cup {c} ELSE strays
    /\ UNCHANGED <<abortedAccept, listeners, futures, armed, flag, stopVars, mode, abandoned>>

AcceptFails(s) ==
    /\ socket[s] = "accepting" /\ s \in abortedAccept
    /\ socket' = [socket EXCEPT ![s] = "ended"]
    /\ UNCHANGED <<abortedAccept, listeners, futures, armed, connVars, stopVars, history>>

-----------------------------------------------------------------------------
(* The connections, and the timer over them *)

Progress(c) ==
    /\ phase[c] \in {"Started", "Closing"}
    /\ flag' = [flag EXCEPT ![c] = FALSE]
    /\ UNCHANGED <<socketVars, armed, phase, registered, current, total, stopVars, history>>

ShutsDown(c) ==
    /\ phase[c] = "Started" /\ phase' = Shutdown({c})
    /\ flag' \in {flag, [flag EXCEPT ![c] = FALSE]}
    /\ UNCHANGED <<socketVars, armed, registered, current, total, stopVars, history>>

(* Both loops have ended: the connection leaves the collection. *)
Closes(c) ==
    /\ phase[c] = "Closing"
    /\ phase' = [phase EXCEPT ![c] = "Closed"]
    /\ registered' = registered \ {c} /\ current' = Cardinality(registered')
    /\ UNCHANGED <<socketVars, armed, flag, total, stopVars, history>>

\* Slips: the timer also visits connections that have left the collection,
\* or only ever marks.
TickVisitsAll ==
    /\ armed
    /\ phase' = Shutdown({c \in Connections : flag[c]})
    /\ flag' = [c \in Connections |-> flag[c] \/ c \in registered]
    /\ UNCHANGED <<socketVars, armed, registered, current, total, stopVars, history>>
TickOnlyMarks ==
    /\ armed
    /\ flag' = [c \in Connections |-> flag[c] \/ c \in registered]
    /\ UNCHANGED <<socketVars, armed, phase, registered, current, total, stopVars, history>>

Tick ==
    /\ armed
    /\ LET reached == {c \in registered : flag[c]}
       IN  /\ phase' = Shutdown(reached)
           /\ flag' = [c \in Connections |-> flag[c] \/ c \in registered]
    /\ UNCHANGED <<socketVars, armed, registered, current, total, stopVars, history>>

-----------------------------------------------------------------------------
(* stop() *)

\* A slip: the accept loops are not told.
StopForgetsAbort ==
    /\ stopping = "no" /\ armed' = FALSE
    /\ stopping' = "listeners" /\ awaited' = futures
    /\ UNCHANGED <<socketVars, connVars, history>>

Stop ==
    /\ stopping = "no"
    /\ armed' = FALSE /\ abortedAccept' = abortedAccept \cup listeners
    /\ stopping' = "listeners" /\ awaited' = futures
    /\ UNCHANGED <<socket, listeners, futures, connVars, history>>

\* A slip: stop() does not wait for the accept loops.
StopsAtOnce ==
    /\ stopping = "listeners"
    /\ listeners' = {} /\ futures' = {}
    /\ stopping' = "connections" /\ awaited' = registered
    /\ phase' = Shutdown(registered)
    /\ UNCHANGED <<socket, abortedAccept, armed, flag, registered, current, total, history>>

(* Every accept loop has ended: stop the connections of that moment. *)
ListenersStopped ==
    /\ stopping = "listeners" /\ \A s \in awaited : socket[s] = "ended"
    /\ listeners' = {} /\ futures' = {}
    /\ stopping' = "connections" /\ awaited' = registered
    /\ phase' = Shutdown(registered)
    /\ UNCHANGED <<socket, abortedAccept, armed, flag, registered, current, total, history>>

(* Each connection's stop() has found it closed. *)
ConnectionsStopped ==
    /\ stopping = "connections" /\ \A c \in awaited : phase[c] = "Closed"
    /\ registered' = {} /\ current' = 0
    /\ stopping' = "no" /\ awaited' = {} /\ mode' = "stopped"
    /\ UNCHANGED <<socketVars, armed, phase, flag, total, abandoned, strays>>

-----------------------------------------------------------------------------
Next ==
    \/ StartFails \/ Start \/ Tick \/ Stop \/ ListenersStopped \/ ConnectionsStopped
    \/ \E s \in Sockets : AcceptResolves(s) \/ AcceptFails(s)
    \/ \E s \in Sockets, c \in Connections : StartConnection(s, c)
    \/ \E c \in Connections : Progress(c) \/ ShutsDown(c) \/ Closes(c)

Spec == Init /\ [][Next]_vars

-----------------------------------------------------------------------------
Open(c) == phase[c] \in {"Started", "Closing"}

(* Every variable has its type. *)
TypeOK ==
    /\ socket \in [Sockets -> {"unused", "bound", "accepting", "resolved", "ended"}]
    /\ abortedAccept \subseteq Sockets /\ listeners \subseteq Sockets /\ futures \subseteq Sockets
    /\ armed \in BOOLEAN /\ mode \in {"stopped", "running", "broken"}
    /\ abandoned \subseteq Sockets /\ strays \subseteq Connections
    /\ phase \in [Connections -> {"Initial", "Started", "Closing", "Closed"}]
    /\ flag \in [Connections -> BOOLEAN]
    /\ registered \subseteq Connections /\ current \in Nat /\ total \in Nat
    /\ stopping \in {"no", "listeners", "connections"}
    /\ awaited \subseteq IF stopping = "connections" THEN Connections ELSE Sockets

(* Every connection of the collection is open, the gauge                   *)
(* current_connections is their number, and an open connection that is not *)
(* there was started by an abandoned loop when stop() was past it: no      *)
(* other escapes the timer or stop(), and none is kept after it closed.    *)
RegisteredAreOpen ==
    /\ registered \subseteq {c \in Connections : Open(c)}
    /\ {c \in Connections : Open(c)} \subseteq registered \cup strays
    /\ current = Cardinality(registered)

(* Nobody accepts but the loops of the last start(), and when it failed, a *)
(* stop() has returned or runs, nobody; an abandoned loop may still be     *)
(* between two accepts.                                                    *)
OnlyTheLastAccept ==
    \A s \in Sockets :
      /\ HasLoop(s) => s \in futures \/ s \in abandoned
      /\ HasLoop(s) /\ s \notin abortedAccept =>
           s \in listeners /\ mode = "running" /\ stopping = "no"

(* When stop() has returned, and through a start() that fails, the timer   *)
(* is off, no accept loop runs and no connection is open ("Stop accept     *)
(* http connection and close all exists connections") but for those loops  *)
(* and connections that an earlier start() left behind.                    *)
StoppedIsQuiet ==
    mode = "stopped" /\ stopping = "no" =>
      /\ ~armed
      /\ \A s \in Sockets : HasLoop(s) => s \in abandoned
      /\ \A c \in Connections : Open(c) => c \in strays

(* A server that runs has an accept loop for every address, and one timer. *)
RunningIsComplete ==
    mode = "running" /\ stopping = "no" =>
      /\ armed /\ Cardinality(listeners) = Addresses /\ futures = listeners
      /\ \A s \in listeners : HasLoop(s) /\ s \notin abortedAccept

(* Whenever no stop() is under way the server is all there or all gone,    *)
(* through start() on a server that runs, failed ones and repeated calls.  *)
AllOrNothing == StoppedIsQuiet /\ RunningIsComplete /\ OnlyTheLastAccept

(* Why they hold when start() is not called during stop(): only the        *)
(* sockets of the last start() have accept loops that are not aborted,     *)
(* stop() waits for exactly those, and once they have ended only abandoned *)
(* loops can add to the connections it waits for.                          *)
ServerInv ==
    /\ futures \subseteq listeners
    /\ \A s \in abortedAccept \cup listeners : socket[s] # "unused"
    /\ \A s \in Sockets : HasLoop(s) /\ s \notin futures => s \in abandoned \cap abortedAccept
    /\ stopping # "no" => ~armed /\ futures \subseteq abortedAccept
    /\ stopping = "listeners" => awaited = futures
    /\ stopping = "connections" => futures = {} /\ registered \subseteq awaited \cup strays
    /\ mode # "running" => futures = {}
    /\ mode = "stopped" => ~armed /\ registered \subseteq strays
    /\ RunningIsComplete /\ RegisteredAreOpen

-----------------------------------------------------------------------------
(* Statements the code does not keep.                                      *)

(* The error of start() says "can't start http server while stopping":     *)
(* a start() during stop() is refused.                                     *)
RefusedWhileStopping == [][stopping # "no" => listeners' \subseteq listeners]_vars

(* "Stop accept http connection and close all exists connections", after   *)
(* any start() too.                                                        *)
StopStopsAll ==
    mode = "stopped" /\ stopping = "no" =>
      /\ \A s \in Sockets : ~HasLoop(s)
      /\ \A c \in Connections : ~Open(c)

-----------------------------------------------------------------------------
(* Seen from the server every connection lives as its own specification    *)
(* says.                                                                   *)
Lifecycle(c) == INSTANCE ConnectionLifecycle WITH phase <- phase[c], flag <- flag[c]
EveryLifecycle ==
    /\ \A c \in Connections : Lifecycle(c)!Init
    /\ [][\A c \in Connections : [Lifecycle(c)!Next]_<<phase[c], flag[c]>>]_vars

-----------------------------------------------------------------------------
(* The reactor runs ready continuations, an aborted accept fails, and a    *)
(* connection that is closing closes (ClosingEnds of                       *)
(* Http11ServerConnection).                                                *)
Fairness ==
    /\ WF_vars(ListenersStopped) /\ WF_vars(ConnectionsStopped) /\ WF_vars(Tick)
    /\ \A s \in Sockets :
         /\ WF_vars(AcceptFails(s))
         /\ WF_vars(\E c \in Connections : StartConnection(s, c))
    /\ \A c \in Connections : WF_vars(Closes(c))

FairSpec == Spec /\ Fairness

(* stop() returns. *)
StopReturns == (stopping # "no") ~> (stopping = "no")

(* Every connection reports progress again and again, or is closed, by the *)
(* timer or by stop(), unless an abandoned loop started it too late.       *)
SilentConnectionsClose ==
    \A c \in Connections :
      []<><<flag[c] /\ ~flag'[c]>>_vars \/ <>[](phase[c] \in {"Initial", "Closed"})
        \/ <>(c \in strays)
=============================================================================
