---- MODULE MCPbTunnel ----
EXTENDS PbTunnel

(* The client sends two chunks, the target one. *)
TwoAndOne == [app |-> 2, tgt |-> 1]
====
