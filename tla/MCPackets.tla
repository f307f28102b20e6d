----------------------------- MODULE MCPackets ------------------------------
(***************************************************************************)
(* Model checking of what carries packets and streams: a TCP tunnel over a *)
(* stream with both of its ends, the streams of an Iroh relay, the UDP     *)
(* sessions of a DriftServer, the user space tun device, and the checksums *)
(* of packets.  They share no variable, so a behaviour follows one of      *)
(* them, chosen at the start.                                              *)
(***************************************************************************)
EXTENDS PbTunnel, IrohStreams, DriftUdp, SofTun, Checksum, TLC

CONSTANTS c1, c2

(* The client of the tunnel sends two chunks, the target one.              *)
TwoAndOne == [app |-> 2, tgt |-> 1]

MCPortOf == c1 :> 1 @@ c2 :> 2

VARIABLE part \* the component of a behaviour

vars == <<pbVars, streamVars, driftVars, softVars, packet, part>>

Init ==
  /\ part \in {"tunnel", "streams", "drift", "soft", "sum"}
  /\ PbInit /\ StreamsInit /\ DriftInit /\ SoftInit /\ ChecksumInit

Next ==
  \/ part = "tunnel" /\ PbNext /\ UNCHANGED <<streamVars, driftVars, softVars, packet, part>>
  \/ part = "streams" /\ StreamsNext /\ UNCHANGED <<pbVars, driftVars, softVars, packet, part>>
  \/ part = "drift" /\ DriftNext /\ UNCHANGED <<pbVars, streamVars, softVars, packet, part>>
  \/ part = "soft" /\ SoftNext /\ UNCHANGED <<pbVars, streamVars, driftVars, packet, part>>
  \/ part = "sum" /\ ChecksumNext /\ UNCHANGED <<pbVars, streamVars, driftVars, softVars, part>>

(* PbFairSpec's, where the tunnel is the part that runs.                   *)
PbFairness ==
  /\ WF_pbVars(part = "tunnel" /\ (Copy("A1") \/ A1Exit))
  /\ WF_pbVars(part = "tunnel" /\ (Copy("A2") \/ A2Exit))
  /\ WF_pbVars(part = "tunnel" /\ (Copy("B1") \/ B1Exit))
  /\ WF_pbVars(part = "tunnel" /\ (Copy("B2") \/ B2Exit))
  /\ WF_pbVars(part = "tunnel" /\ (AOpens \/ AFails \/ AReturns))
  /\ WF_pbVars(part = "tunnel" /\ (BRejects \/ BDialFails \/ BDials \/ BReturns))
  /\ \A e \in Ends : WF_pbVars(part = "tunnel" /\ Receive(e))

Spec == Init /\ [][Next]_vars /\ PbFairness

=============================================================================
