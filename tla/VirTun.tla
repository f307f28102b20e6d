-------------------------------- MODULE VirTun --------------------------------
(***************************************************************************)
(* The flows of the virtual tun device, fbvirtun/.  tunReadLoop takes the  *)
(* packets one by one; for every UDP address pair it keeps a connection    *)
(* with a read loop, for every TCP connection a bridge with two copies; a  *)
(* cleanup runs every 30 seconds.                                          *)
(***************************************************************************)
EXTENDS Naturals, FiniteSets

CONSTANTS
  Flows,    \* keys: address and port of both ends
  Objects,  \* connections of flows, each used once
  NoObject

ASSUME TunAssumption == NoObject \notin Objects \cup Flows

VARIABLES
  tun,     \* tunReadLoop: what it is doing
  flows,   \* udpConns4, udpConns6: the connection of a key
  obj,     \* obj[o]: a connection, its read loop and its last use
  sweep,   \* udpCleanup: the entry it has found too old
  bridges, \* tcpConns: the bridge of a key
  bridge   \* bridge[o]: the vtcp.Conn, the remote stream, the two copies

tunVars == <<tun, flows, obj, sweep, bridges, bridge>>

NoObj == [conn |-> "none", loop |-> "none", key |-> NoObject, old |-> FALSE]
NoBridge == [vc |-> "none", remote |-> "none", down |-> "none", up |-> "none"]

TunInit ==
  /\ tun = [pc |-> "read", key |-> NoObject]
  /\ flows = [k \in Flows |-> NoObject]
  /\ obj = [o \in Objects |-> NoObj]
  /\ sweep = NoObject
  /\ bridges = [k \in Flows |-> NoObject]
  /\ bridge = [o \in Objects |-> NoBridge]

Unused(o) == obj[o] = NoObj /\ bridge[o] = NoBridge

-----------------------------------------------------------------------------
(* handleUDP4, handleUDP6: a datagram of a known flow marks it used.       *)
HandleUDP(k) ==
  /\ tun.pc = "read"
  /\ IF flows[k] # NoObject
     THEN obj' = [obj EXCEPT ![flows[k]].old = FALSE] /\ UNCHANGED tun
     ELSE tun' = [pc |-> "dialUDP", key |-> k] /\ UNCHANGED obj
  /\ UNCHANGED <<flows, sweep, bridges, bridge>>

DialUDP ==
  /\ tun.pc = "dialUDP"
  /\ \/ UNCHANGED <<flows, obj>>
     \/ \E o \in Objects :
          /\ Unused(o)
          /\ obj' = [obj EXCEPT ![o] = [conn |-> "open", loop |-> "reads", key |-> tun.key, old |-> FALSE]]
          /\ flows' = [flows EXCEPT ![tun.key] = o]
  /\ tun' = [tun EXCEPT !.pc = "read"]
  /\ UNCHANGED <<sweep, bridges, bridge>>

(* udpReadLoop4, udpReadLoop6: a datagram, or an error (the connection was *)
(* closed, or nothing came for a minute), the close and the delete by key. *)
ReadUDP(o) ==
  /\ obj[o].loop = "reads"
  /\ \/ obj[o].conn = "open" /\ obj' = [obj EXCEPT ![o].old = FALSE]
     \/ obj' = [obj EXCEPT ![o].loop = "delete", ![o].conn = "closed"]
  /\ UNCHANGED <<tun, flows, sweep, bridges, bridge>>

DeleteUDP(o) ==
  /\ obj[o].loop = "delete"
  /\ obj' = [obj EXCEPT ![o].loop = "ended"]
  /\ flows' = [flows EXCEPT ![obj[o].key] = NoObject]
  /\ UNCHANGED <<tun, sweep, bridges, bridge>>

(* A minute passes without a datagram.                                     *)
FlowAges(o) ==
  /\ obj[o].conn = "open" /\ ~obj[o].old
  /\ obj' = [obj EXCEPT ![o].old = TRUE]
  /\ UNCHANGED <<tun, flows, sweep, bridges, bridge>>

(* udpCleanup: the age is read under the flow's mutex, the close and the   *)
(* delete come after it.                                                   *)
CleanupUDP ==
  /\ \/ /\ sweep = NoObject
        /\ \E k \in Flows : flows[k] # NoObject /\ obj[flows[k]].old /\ sweep' = flows[k]
        /\ UNCHANGED <<flows, obj>>
     \/ /\ sweep # NoObject
        /\ obj' = [obj EXCEPT ![sweep].conn = "closed"]
        /\ flows' = [flows EXCEPT ![obj[sweep].key] = NoObject]
        /\ sweep' = NoObject
  /\ UNCHANGED <<tun, bridges, bridge>>

-----------------------------------------------------------------------------
(* handleTCP4, handleTCP6: only a SYN makes a bridge; other segments       *)
(* without one are answered by a RST.                                      *)
HandleTCP(k) ==
  /\ tun.pc = "read"
  /\ bridges[k] = NoObject
  /\ tun' = [pc |-> "dialTCP", key |-> k]
  /\ UNCHANGED <<flows, obj, sweep, bridges, bridge>>

(* newTCPBridge, startBridge.                                              *)
DialTCP ==
  /\ tun.pc = "dialTCP"
  /\ \/ UNCHANGED <<bridges, bridge>>
     \/ \E o \in Objects :
          /\ Unused(o)
          /\ bridge' = [bridge EXCEPT ![o] = [vc |-> "open", remote |-> "open", down |-> "runs", up |-> "runs"]]
          /\ bridges' = [bridges EXCEPT ![tun.key] = o]
  /\ tun' = [tun EXCEPT !.pc = "read"]
  /\ UNCHANGED <<flows, obj, sweep>>

(* feedTCP: the application ends its side, or resets the connection.       *)
FeedTCP(k) ==
  /\ tun.pc = "read" /\ bridges[k] # NoObject
  /\ LET o == bridges[k] IN
       \/ bridge[o].vc = "open" /\ bridge' = [bridge EXCEPT ![o].vc = "finIn"]
       \/ bridge[o].vc = "finOut" /\ bridge' = [bridge EXCEPT ![o].vc = "closed"]
       \/ bridge[o].vc \in {"open", "finIn", "finOut"} /\ bridge' = [bridge EXCEPT ![o].vc = "closed"]
  /\ UNCHANGED <<tun, flows, obj, sweep, bridges>>

(* The copy from the stream ends with the stream, or when vc is closed,    *)
(* and then closes the sending side of vc.                                 *)
CopyDown(o) ==
  /\ bridge[o].down = "runs"
  /\ bridge[o].remote # "open" \/ bridge[o].vc = "closed"
  /\ bridge' = [bridge EXCEPT ![o].down = "ended",
                              ![o].vc = CASE @ = "open" -> "finOut" [] @ = "finIn" -> "closed" [] OTHER -> @]
  /\ UNCHANGED <<tun, flows, obj, sweep, bridges>>

(* The copy from the application ends with it; a stream of a peer is no    *)
(* TCPConn, and nothing is closed.                                         *)
CopyUp(o) ==
  /\ bridge[o].up = "runs"
  /\ bridge[o].remote # "open" \/ bridge[o].vc \in {"finIn", "closed"}
  /\ bridge' = [bridge EXCEPT ![o].up = "ended"]
  /\ UNCHANGED <<tun, flows, obj, sweep, bridges>>

RemoteEnds(o) ==
  /\ bridge[o].remote = "open"
  /\ bridge' = [bridge EXCEPT ![o].remote = "ended"]
  /\ UNCHANGED <<tun, flows, obj, sweep, bridges>>

\* Mutant: the cleanup forgets the bridge without closing its stream.
CleanupTCPForgets(k) ==
  /\ bridges[k] # NoObject /\ bridge[bridges[k]].vc = "closed"
  /\ bridges' = [bridges EXCEPT ![k] = NoObject]
  /\ UNCHANGED <<tun, flows, obj, sweep, bridge>>

(* tcpCleanup.                                                             *)
CleanupTCP(k) ==
  /\ bridges[k] # NoObject /\ bridge[bridges[k]].vc = "closed"
  /\ bridge' = [bridge EXCEPT ![bridges[k]].remote = "closed"]
  /\ bridges' = [bridges EXCEPT ![k] = NoObject]
  /\ UNCHANGED <<tun, flows, obj, sweep>>

TunNext ==
  \/ \E k \in Flows : HandleUDP(k) \/ HandleTCP(k) \/ FeedTCP(k) \/ CleanupTCP(k)
  \/ DialUDP \/ DialTCP \/ CleanupUDP
  \/ \E o \in Objects : \/ ReadUDP(o) \/ DeleteUDP(o) \/ FlowAges(o)
                        \/ CopyDown(o) \/ CopyUp(o) \/ RemoteEnds(o)

TunSpec == TunInit /\ [][TunNext]_tunVars

\* The cleanup has a ticker, and a copy whose read has returned goes on; that a
\* write will fail is noticed only when there is something to write.  A bridge
\* ends once, so all of them together are fair when each is.
TunFairness ==
  /\ WF_tunVars(\E k \in Flows : CleanupTCP(k))
  /\ WF_tunVars(\E o \in Objects : bridge[o].remote # "open" /\ CopyDown(o))
  /\ WF_tunVars(\E o \in Objects : bridge[o].vc \in {"finIn", "closed"} /\ CopyUp(o))

TunFairSpec == TunSpec /\ TunFairness

-----------------------------------------------------------------------------
Left(o) ==
  /\ bridge[o].vc = "closed"
  /\ \/ bridge[o].remote # "closed" \/ bridge[o].down # "ended" \/ bridge[o].up # "ended"
     \/ \E k \in Flows : bridges[k] = o

(* Once the application's side of a bridge is closed, by a reset or by a   *)
(* FIN in both directions, nothing of it stays: neither copy closes the    *)
(* stream of the peer, only tcpCleanup does (virtun_tcp.go:358), and only  *)
(* its close wakes a copy that reads a silent stream.  Each object is one  *)
(* bridge, so what is left of one goes before it comes again.              *)
BridgesEnd == []<>(\A o \in Objects : ~Left(o))

(* What one would expect of the UDP table and the code does not keep: the  *)
(* delete by key of an old read loop, or of the cleanup, takes a newer     *)
(* flow out of the table (virtun_udp.go:156, 210).                         *)
OpenFlowIsListed ==
  \A o \in Objects : obj[o].conn = "open" => flows[obj[o].key] = o

=============================================================================
