------------------------------ MODULE TurnPeer ------------------------------
(***************************************************************************)
(* TurnPeer of p2put/turnpeer.go: a control connection to the TURN server, *)
(* kept alive by binding requests, and a connection to the relayed address *)
(* over which it pings the node's own acceptProc.                          *)
(***************************************************************************)
EXTENDS Naturals

CONSTANTS MaxPeerFaults, \* bound on refused and broken connections
          MaxFailCount   \* bound on failCount, an int nobody reads but Stats

VARIABLES tp, peerFaults
peerVars == <<tp, peerFaults>>

PeerInit ==
  /\ tp = [pc |-> "new", ctl |-> "none", relay |-> "none", stop |-> FALSE, fails |-> 0]
  /\ peerFaults = 0

PeerFault == peerFaults < MaxPeerFaults /\ peerFaults' = peerFaults + 1

(* ExchangeMapped: dial, client, listen, binding request and allocation;   *)
(* what was opened is closed again when a later step fails.                *)
Exchange(t) ==
  \/ tp' = [t EXCEPT !.ctl = "open"] /\ UNCHANGED peerFaults
  \/ tp' = t /\ PeerFault

(* NewTurnPeer, ExchangeMapped and Start, in connect and reallocate; the   *)
(* loop sleeps four seconds and pings before it first looks at stopCh.     *)
StartLoop == tp.pc = "new" /\ Exchange([tp EXCEPT !.pc = "ping"])

(* stunCtrlKeepMappedPort: without a client it does nothing, and a failed  *)
(* exchange leaves none.                                                   *)
StunKeep ==
  /\ tp.pc = "loop"
  /\ \/ tp.ctl = "broken" /\ Exchange([tp EXCEPT !.ctl = "none"])
     \/ tp.ctl = "open" /\ PeerFault /\ tp' = [tp EXCEPT !.ctl = "none"]

PingTick ==
  /\ tp.pc = "loop"
  /\ tp' = [tp EXCEPT !.pc = "ping"]
  /\ UNCHANGED peerFaults

(* relayPing: a dial when there is no connection, and then the ping.       *)
RelayPing ==
  /\ tp.pc = "ping"
  /\ \/ tp' = [tp EXCEPT !.pc = "answer", !.relay = "open"] /\ UNCHANGED peerFaults
     \/ /\ tp.relay = "none" /\ PeerFault
        /\ tp' = [tp EXCEPT !.pc = "loop", !.fails = IF @ < MaxFailCount THEN @ + 1 ELSE @]

(* What the node's own end of the relayed connection says: handleAccept2   *)
(* pipes the ping to the node's libp2p listener, which closes or speaks    *)
(* its own protocol.  handleAccept, which says pong, has no caller.        *)
Answers == {"error", "listener"}

\* Mutant: without a deadline the wait ends only with an answer, and none comes
\* once the control connection is lost.
PongWaits ==
  /\ tp.pc = "answer" /\ tp.ctl = "open"
  /\ tp' = [tp EXCEPT !.pc = "loop", !.relay = "none"]
  /\ UNCHANGED peerFaults

(* The answer, an error or ten seconds of silence; all but a pong close    *)
(* the connection, for the next turn to dial again.  failCount counts      *)
(* failed dials, and only a pong resets it.                                *)
Pong ==
  /\ tp.pc = "answer"
  /\ \E a \in Answers :
       tp' = IF a = "pong" THEN [tp EXCEPT !.pc = "loop", !.fails = 0]
             ELSE [tp EXCEPT !.pc = "loop", !.relay = "none"]
  /\ UNCHANGED peerFaults

(* Stop closes stopCh and waits; the loop's deferred calls close both.     *)
StopPeer ==
  /\ tp.pc # "new" /\ ~tp.stop
  /\ tp' = [tp EXCEPT !.stop = TRUE]
  /\ UNCHANGED peerFaults

LoopEnds ==
  /\ tp.pc = "loop" /\ tp.stop
  /\ tp' = [tp EXCEPT !.pc = "ended", !.ctl = "none", !.relay = "none"]
  /\ UNCHANGED peerFaults

Breaks ==
  /\ tp.ctl = "open" /\ PeerFault
  /\ tp' = [tp EXCEPT !.ctl = "broken"]

PeerNext ==
  StartLoop \/ StunKeep \/ PingTick \/ RelayPing \/ Pong \/ StopPeer \/ LoopEnds \/ Breaks

PeerSpec == PeerInit /\ [][PeerNext]_peerVars

(* Every call of the loop has a deadline, and a select that is entered     *)
(* again and again takes each of its cases.                                *)
PeerFairSpec ==
  /\ PeerSpec /\ WF_peerVars(StartLoop \/ RelayPing \/ Pong)
  /\ SF_peerVars(PingTick) /\ SF_peerVars(StunKeep) /\ SF_peerVars(LoopEnds)

(* A Stop returns and leaves no connection open, whatever the loop waits   *)
(* for when it is called and whichever connection is lost meanwhile:       *)
(* shutdown and reallocate call it while runLoop and acceptProc wait.      *)
PeerStops == tp.stop ~> (tp.pc = "ended" /\ tp.ctl = "none" /\ tp.relay = "none")

(* The pings are the health check of the relayed address (turnpeer.go:28): *)
(* a peer whose dial failed once is alive again in Stats when its dials    *)
(* succeed.                                                                *)
HealthRecovers == tp.fails > 0 ~> (tp.fails = 0 \/ tp.stop)

=============================================================================
