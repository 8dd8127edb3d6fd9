---------------------------- MODULE MCEchoServer ----------------------------
(* EchoServer for TLC: two clients, one of which sends a second line.      *)
EXTENDS EchoServer

CONSTANTS c1, c2

TwoClients == {c1, c2}
Lines == c1 :> 2 @@ c2 :> 1
=============================================================================
