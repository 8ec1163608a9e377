----------------------------- MODULE MCUdpPeer -----------------------------
(* TLC instances of UdpPeer.                                               *)
EXTENDS UdpPeer
=============================================================================
