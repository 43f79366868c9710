---------------------------- MODULE MCHttpServer ----------------------------
(* The HTTP server as TLC runs it. *)
EXTENDS HttpServer
=============================================================================
