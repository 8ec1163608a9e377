----------------------------- MODULE MCAcceptor -----------------------------
(* TLC instances of Acceptor.                                              *)
EXTENDS Acceptor
=============================================================================
