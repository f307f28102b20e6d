------------------------------- MODULE UdpConn -------------------------------
(***************************************************************************)
(* p2pUdpConn of pbtunnel/pbtunnel.go: datagrams over one stream.  A       *)
(* goroutine reads, another writes, a third may close, and the stream may  *)
(* be reset.  Read and Write answer a reset by dropping the stream and     *)
(* calling themselves again; getStream is meant to connect anew then.  At  *)
(* the other end handleUDPTunnel copies between the stream and a socket.   *)
(***************************************************************************)
EXTENDS Naturals

CONSTANT MaxUdpCalls \* bound on calls of Read and Write

VARIABLES
  uconn,  \* the struct: the stream is held, closed
  ustream, \* the stream: open, reset, closed here, ended there
  ucall,  \* ucall[t]: a call of Read or Write
  uclose, \* the call of Close
  udpCalls,
  utunnel \* handleUDPTunnel: its two goroutines and its socket

udpVars == <<uconn, ustream, ucall, uclose, udpCalls, utunnel>>

Callers == {"read", "write"}

(* DialUDP has opened the first stream.                                    *)
UdpInit ==
  /\ uconn = [held |-> TRUE, closed |-> FALSE]
  /\ ustream = "open"
  /\ ucall = [t \in Callers |-> "idle"]
  /\ uclose = "idle"
  /\ udpCalls = 0
  /\ utunnel = [in |-> "runs", out |-> "runs", sock |-> "open"]

(* Read, Write: the first look at the holder of implRead or implWrite.     *)
UdpCall(t) ==
  /\ ucall[t] = "idle" /\ udpCalls < MaxUdpCalls
  /\ udpCalls' = udpCalls + 1
  /\ ucall' = [ucall EXCEPT ![t] = IF uconn.held THEN "io" ELSE "get"]
  /\ UNCHANGED <<uconn, ustream, uclose, utunnel>>

(* getStream: the holder, the error closed, or else a new stream.  Whoever *)
(* empties the holder has set closed, so connectOverStream is never called *)
(* from here and what follows it (pbtunnel.go:373) is not modelled.        *)
GetStream(t) ==
  /\ ucall[t] = "get"
  /\ ucall' = [ucall EXCEPT ![t] = IF uconn.held THEN "io" ELSE IF uconn.closed THEN "refused" ELSE "connect"]
  /\ UNCHANGED <<uconn, ustream, uclose, udpCalls, utunnel>>

(* The stream carries the datagram, or fails because it was closed.        *)
UdpDone(t) ==
  /\ ucall[t] = "io" /\ ustream # "reset"
  /\ ucall' = [ucall EXCEPT ![t] = IF ustream = "open" THEN "idle" ELSE "failed"]
  /\ UNCHANGED <<uconn, ustream, uclose, udpCalls, utunnel>>

(* "stream reset": closed is set and the holder dropped, under the mutex,  *)
(* then implRead or implWrite runs once more.                              *)
UdpReset(t) ==
  /\ ucall[t] = "io" /\ ustream = "reset"
  /\ uconn' = [held |-> FALSE, closed |-> TRUE]
  /\ ucall' = [ucall EXCEPT ![t] = "get"]
  /\ UNCHANGED <<ustream, uclose, udpCalls, utunnel>>

(* The caller gives up after an error.                                     *)
UdpFailed(t) ==
  /\ ucall[t] \in {"failed", "refused"}
  /\ ucall' = [ucall EXCEPT ![t] = "idle"]
  /\ UNCHANGED <<uconn, ustream, uclose, udpCalls, utunnel>>

(* Close, in its two steps.                                                *)
UdpClose ==
  /\ \/ /\ uclose = "idle"
        /\ uconn' = [uconn EXCEPT !.closed = TRUE]
        /\ uclose' = "swap"
        /\ UNCHANGED ustream
     \/ /\ uclose = "swap"
        /\ uconn' = [uconn EXCEPT !.held = FALSE]
        /\ ustream' = IF uconn.held /\ ustream = "open" THEN "closed" ELSE ustream
        /\ uclose' = "done"
  /\ UNCHANGED <<ucall, udpCalls, utunnel>>

StreamReset == ustream = "open" /\ ustream' = "reset" /\ UNCHANGED <<uconn, ucall, uclose, udpCalls, utunnel>>

-----------------------------------------------------------------------------

TunnelIn ==
  /\ utunnel.in = "runs" /\ ustream # "open"
  /\ utunnel' = [utunnel EXCEPT !.in = "ended", !.sock = "closed"]
  /\ UNCHANGED <<uconn, ustream, ucall, uclose, udpCalls>>

(* The goroutine that reads the socket ends when the socket is closed.     *)
TunnelOut ==
  /\ utunnel.out = "runs" /\ utunnel.sock = "closed"
  /\ utunnel' = [utunnel EXCEPT !.out = "ended"]
  /\ UNCHANGED <<uconn, ustream, ucall, uclose, udpCalls>>

(* Nobody listens at the target: the socket reports it.  The other         *)
(* goroutine goes on, unless its own write meets the same error.           *)
TargetRefuses ==
  /\ \/ utunnel.out = "runs" /\ utunnel' = [utunnel EXCEPT !.out = "ended"]
     \/ utunnel.in = "runs" /\ utunnel' = [utunnel EXCEPT !.in = "ended", !.sock = "closed"]
  /\ UNCHANGED <<uconn, ustream, ucall, uclose, udpCalls>>

(* wg.Wait and the deferred closes.                                        *)
TunnelReturns ==
  /\ utunnel.in = "ended" /\ utunnel.out = "ended"
  /\ utunnel' = [in |-> "returned", out |-> "returned", sock |-> "closed"]
  /\ ustream' = IF ustream = "open" THEN "eof" ELSE ustream
  /\ UNCHANGED <<uconn, ucall, uclose, udpCalls>>

UdpNext ==
  \/ \E t \in Callers : UdpCall(t) \/ GetStream(t) \/ UdpDone(t) \/ UdpReset(t) \/ UdpFailed(t)
  \/ UdpClose \/ StreamReset
  \/ TunnelIn \/ TunnelOut \/ TargetRefuses \/ TunnelReturns

UdpSpec == UdpInit /\ [][UdpNext]_udpVars

-----------------------------------------------------------------------------
(* What Read and Write log of a reset, "reset reconn..." (pbtunnel.go:421, *)
(* 467), and connectOverStream says of itself, "this maybe call many       *)
(* times" (403): a call is refused as closed only after Close was called;  *)
(* before, a lost stream is replaced.  The code does not keep it: a reset  *)
(* sets closed before it tries again, and getStream refuses.               *)
RefusedMeansClosed == \A t \in Callers : ucall[t] = "refused" => uclose # "idle"


=============================================================================
