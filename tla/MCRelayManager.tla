---- MODULE MCRelayManager ----
EXTENDS RelayManager

CONSTANTS r1, r2

(* The bootstrap adds and protects one relay.                              *)
FirstRelay == <<r1>>
====
