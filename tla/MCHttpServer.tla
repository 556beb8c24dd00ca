---------------------------- MODULE MCHttpServer ----------------------------
(* An instance of HttpServer for TLC: every constant is a number or a flag, *)
(* which the configurations give.                                           *)
EXTENDS HttpServer
=============================================================================
