-------------------------------- MODULE MCRelay --------------------------------
(* Three players at two addresses, which they exchange and share, and two     *)
(* sessions with room for two clients each.                                   *)
EXTENDS Relay, TLC

Symmetry == Permutations(Players) \cup Permutations(Addrs)
================================================================================
