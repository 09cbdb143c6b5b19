---------------------------- MODULE MCProxyServe ----------------------------
(* A small accept loop: more clients than permits, a queue shorter than    *)
(* the clients that may wait.                                              *)
EXTENDS ProxyServe

CONSTANTS c1, c2, c3, c4

MCClients == {c1, c2, c3, c4}
=============================================================================
