---- MODULE MCRelayPool ----
EXTENDS RelayPool

CONSTANTS r1, r2, r3, r4, api1, api2

(* No relay is distinguished.                                              *)
RelaySymmetry == Permutations(Relays)
====
