--------------------------- MODULE MCApplication ---------------------------
(* Instances of Application. *)
EXTENDS Application

CONSTANTS core1, core2, fiber1, fiber2

Cores == {core1, core2}
OneFiber == {fiber1}
TwoFibers == {fiber1, fiber2}

StartStop == {"start", "stop"}
HandlerPhases == {"CreateModules", "RegisterServices", "Starting", "Stopping"}
=============================================================================
