---- MODULE MCIpTunnelHub ----
EXTENDS IpTunnelHub, TLC

CONSTANTS a, b, s1, s2, s3, s4, h1, h2, w1, w2, ga, gb

(* The node of every goroutine: the writers, and the openers ga of node a  *)
(* and gb of node b.                                                       *)
OneWriter == (w1 :> a) @@ (ga :> a) @@ (gb :> b)
TwoWriters == (w1 :> a) @@ (w2 :> a) @@ (ga :> a) @@ (gb :> b)
TwoSides == (w1 :> a) @@ (w2 :> b) @@ (ga :> a) @@ (gb :> b)

(* Streams are slots for OpenStream to fill.                               *)
StreamSymmetry == Permutations(Streams)
====
