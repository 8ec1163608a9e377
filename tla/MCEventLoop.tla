----------------------------- MODULE MCEventLoop -----------------------------
(* TLC instance of EventLoop.                                              *)
EXTENDS EventLoop
=============================================================================
