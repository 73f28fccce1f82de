---------------------------- MODULE MCHttpServer ----------------------------
(* HttpServer for TLC: the first client may pipeline a request. *)
EXTENDS HttpServer, TLC

CONSTANTS c1, c2
Pipelined == c1 :> 2 @@ c2 :> 1
=============================================================================
