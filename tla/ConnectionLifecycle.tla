------------------------ MODULE ConnectionLifecycle ------------------------
(***************************************************************************)
(* What HttpServer relies on a connection to do (HttpServerConnectionBase  *)
(* and Http11ServerConnection::start): it runs until something shuts it    *)
(* down, then closes for good, and it clears the timeout flag whenever it  *)
(* makes progress.                                                         *)
(***************************************************************************)
VARIABLES phase,  \* "Initial", "Started", "Closing" or "Closed"
          flag    \* detectTimeoutFlag_

Init == phase = "Initial" /\ flag = FALSE

Start == phase = "Initial" /\ phase' = "Started" /\ UNCHANGED flag

Open == phase \in {"Started", "Closing"}

(* resetDetectTimeoutFlag() *)
Progress == Open /\ flag' = FALSE /\ UNCHANGED phase

(* A shutdown, with or without progress in the same step *)
ShutDown == Open /\ phase' = "Closing" /\ flag' \in {flag, FALSE}

(* The first tick of the timer marks the connection, the next one that     *)
(* still finds the mark shuts it down.                                     *)
Tick == Open /\ IF flag THEN phase' = "Closing" /\ UNCHANGED flag
                        ELSE flag' = TRUE /\ UNCHANGED phase

Close == phase = "Closing" /\ phase' = "Closed" /\ UNCHANGED flag

Next == Start \/ Progress \/ ShutDown \/ Tick \/ Close

Spec == Init /\ [][Next]_<<phase, flag>>
=============================================================================
