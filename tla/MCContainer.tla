---------------------------- MODULE MCContainer ----------------------------
(* A consumer that takes one logger and all handlers, each of several      *)
(* lifetimes, registered in any order; and handlers alone.                 *)
EXTENDS Container

ServiceTypes == {"consumer", "handler", "unregistered"}

Implementation(s, lifetime, deps) == [service |-> s, lifetime |-> lifetime, deps |-> deps]
AllHandlers == [service |-> "handler", many |-> TRUE]
OneHandler == [service |-> "handler", many |-> FALSE]

SomeImplementations ==
    {Implementation("consumer", "Persistent", <<AllHandlers>>),
     Implementation("consumer", "Transient", <<OneHandler, AllHandlers>>),
     Implementation("handler", "StoragePersistent", <<>>),
     Implementation("handler", "Persistent", <<>>)}
OnlyHandlers == {Implementation("handler", "Transient", <<>>)}
=============================================================================
