------------------------------ MODULE MCBroker ------------------------------
(***************************************************************************)
(* Small instances of Broker: two subscribers and two publishers, a buffer *)
(* that two events overfill, and one call of Shutdown.                     *)
(***************************************************************************)
EXTENDS Broker, TLC

CONSTANTS s1, s2, p1, p2, d1

TwoAndOne == (p1 :> 2) @@ (p2 :> 1)
=============================================================================
