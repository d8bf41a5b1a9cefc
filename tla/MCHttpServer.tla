---------------------------- MODULE MCHttpServer ----------------------------
(* A server with two addresses that can be started twice.  Its sets of     *)
(* connections and sockets are given in the configuration.                 *)
EXTENDS HttpServer
=============================================================================
