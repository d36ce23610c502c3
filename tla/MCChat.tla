------------------------------- MODULE MCChat --------------------------------
(* Two requests, after each other or at once.                              *)
EXTENDS Chat

CONSTANTS r1, r2
=============================================================================
