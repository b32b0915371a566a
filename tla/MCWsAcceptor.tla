---------------------------- MODULE MCWsAcceptor ----------------------------
(* WsAcceptor on a small instance.                                         *)
EXTENDS WsAcceptor, TLC

Symmetric == Permutations(Sockets) \cup Permutations(Workers)

=============================================================================
