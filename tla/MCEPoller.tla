------------------------------ MODULE MCEPoller ------------------------------
(* TLC instance of EPoller.                                                *)
EXTENDS EPoller
=============================================================================
