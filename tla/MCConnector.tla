----------------------------- MODULE MCConnector -----------------------------
(* TLC instances of Connector.                                             *)
EXTENDS Connector
=============================================================================
