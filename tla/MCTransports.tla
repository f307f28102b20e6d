---------------------------- MODULE MCTransports ----------------------------
(***************************************************************************)
(* Model checking of connections and what keeps or ends them: a connection *)
(* to an Iroh relay, a TURN server, a TURN peer, a UDP tunnel with both of *)
(* its ends, and the flows of the virtual tun device.  They share no       *)
(* variable, so a behaviour follows one of them, chosen at the start.      *)
(***************************************************************************)
EXTENDS IrohConn, TurnServer, TurnPeer, UdpConn, VirTun

VARIABLE part \* the component of a behaviour

vars == <<connVars, turnVars, peerVars, udpVars, tunVars, part>>

Init ==
  /\ part \in {"conn", "turn", "peer", "udp", "tun"}
  /\ ConnInit /\ TurnInit /\ PeerInit /\ UdpInit /\ TunInit

Next ==
  \/ part = "conn" /\ ConnNext /\ UNCHANGED <<turnVars, peerVars, udpVars, tunVars, part>>
  \/ part = "turn" /\ TurnNext /\ UNCHANGED <<connVars, peerVars, udpVars, tunVars, part>>
  \/ part = "peer" /\ PeerNext /\ UNCHANGED <<connVars, turnVars, udpVars, tunVars, part>>
  \/ part = "udp" /\ UdpNext /\ UNCHANGED <<connVars, turnVars, peerVars, tunVars, part>>
  \/ part = "tun" /\ TunNext /\ UNCHANGED <<connVars, turnVars, peerVars, udpVars, part>>

(* Goroutines run, connect gives up or succeeds, calls have deadlines,     *)
(* tickers tick and time passes; a select that is entered again and again  *)
(* takes a stop or a signal that is there.                                 *)
ConnFairness ==
  /\ WF_connVars(part = "conn" /\ RunLoop) /\ WF_connVars(part = "conn" /\ Tick)
  /\ WF_connVars(part = "conn" /\ StopSeen) /\ WF_connVars(part = "conn" /\ Silence)
  /\ \A g \in Readers : WF_connVars(part = "conn" /\ ReadLoop(g))

(* A generation's acceptProc and peer take finitely many of these steps,   *)
(* so that together they are fair when each is.                            *)
TurnRuns == part = "turn" /\ ~turnCrash

TurnFairness ==
  /\ WF_turnVars(TurnRuns /\ TurnRun) /\ SF_turnVars(TurnRuns /\ TurnSelect)
  /\ WF_turnVars(TurnRuns /\ StunTick)
  /\ WF_turnVars(TurnRuns /\ \E k \in Gens : AcceptProc(k))
  /\ WF_turnVars(TurnRuns /\ \E k \in Gens : PeerEnds(k))

PeerFairness ==
  /\ WF_peerVars(part = "peer" /\ (StartLoop \/ RelayPing \/ Pong))
  /\ SF_peerVars(part = "peer" /\ LoopEnds)

UdpFairness ==
  /\ WF_udpVars(part = "udp" /\ TunnelIn) /\ WF_udpVars(part = "udp" /\ TunnelOut)
  /\ WF_udpVars(part = "udp" /\ TunnelReturns)

(* Of the tun device nothing that is fair is enabled before it runs.       *)
Spec ==
  /\ Init /\ [][Next]_vars
  /\ ConnFairness /\ TurnFairness /\ PeerFairness /\ UdpFairness /\ TunFairness

(* TurnLive, in the behaviours of the TURN server (runLoop, acceptProc).   *)
ServerLive == part = "turn" => TurnLive

=============================================================================
