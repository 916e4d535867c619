---------------------------- MODULE MCHttpServer ----------------------------
(* Two workers and three connections: the pool can be full, and a worker   *)
(* can be given a second connection.                                       *)
EXTENDS HttpServer, TLC

Symmetry == Permutations(Sockets)
=============================================================================
