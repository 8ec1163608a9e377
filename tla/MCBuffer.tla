------------------------------ MODULE MCBuffer ------------------------------
(* TLC instance of Buffer.  Two chunks of different bytes and lengths.     *)
EXTENDS Buffer

MCChunk == {<<"a">>, <<"b", "c">>}
=============================================================================
