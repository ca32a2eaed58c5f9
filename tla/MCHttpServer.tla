---------------------------- MODULE MCHttpServer ----------------------------
(* A server for two connections and a third client that is refused. *)
EXTENDS HttpServer, TLC

AnyClient == Permutations(Clients)
=============================================================================
