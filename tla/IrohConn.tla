------------------------------ MODULE IrohConn ------------------------------
(***************************************************************************)
(* The connection to one Iroh relay, irohRelayConn of p2put/irohrelay.go:  *)
(* runLoop, which dials, pings and reconnects, and the readLoop it starts  *)
(* for every connection.  A read loop takes the web socket from the struct *)
(* on every turn, so one that was busy during a reconnect reads the next   *)
(* socket.  A socket may be lost (reads fail) or go dead (nothing arrives  *)
(* and nothing fails).                                                     *)
(***************************************************************************)
EXTENDS Naturals, Sequences, FiniteSets

CONSTANTS
  Socks,        \* web socket slots; a slot is reused once nobody holds it
  Readers,      \* goroutines in readLoop
  NoSock,
  MaxSockFaults, \* bound on lost and dead sockets and refused connections
  MaxPings      \* bound on pings; the sequence number is 64 bits wide

VARIABLES
  rc,      \* the struct and its runLoop
  sock,    \* sock[s]: the state of a socket
  asked,   \* asked[s]: pings the relay has still to answer
  inbox,   \* inbox[s]: frames sent by the relay and not yet read
  reader,  \* reader[g]: a readLoop goroutine
  sockFaults

connVars == <<rc, sock, asked, inbox, reader, sockFaults>>

NoReader == [pc |-> "off", ws |-> NoSock, frame |-> "none", seq |-> 0]
Frame(f, n) == [frame |-> f, seq |-> n]

ConnInit ==
  /\ rc = [run |-> "dial", first |-> TRUE, state |-> "connecting", ws |-> NoSock,
           signal |-> FALSE, pending |-> 0, seq |-> 0, stale |-> FALSE, stopped |-> FALSE]
  /\ sock = [s \in Socks |-> "free"]
  /\ asked = [s \in Socks |-> {}]
  /\ inbox = [s \in Socks |-> <<>>]
  /\ reader = [g \in Readers |-> NoReader]
  /\ sockFaults = 0

Unheld(s) ==
  /\ sock[s] \in {"free", "closed"}
  /\ rc.ws # s
  /\ \A g \in Readers : reader[g].ws # s

Fault == sockFaults < MaxSockFaults /\ sockFaults' = sockFaults + 1

SockState(s) == IF s = NoSock THEN "closed" ELSE sock[s]

CloseSock(s) == IF s = NoSock THEN sock ELSE [sock EXCEPT ![s] = "closed"]

(* readLoop.  The top of its loop does not block: it is part of the step   *)
(* before, and gives the loop the socket the struct holds at that moment.  *)
ReadTop(ws) == IF rc.stopped \/ ws = NoSock THEN NoReader
               ELSE [NoReader EXCEPT !.pc = "read", !.ws = ws]

-----------------------------------------------------------------------------
(* connect(), called first by runLoop and then by connectWithBackoff.  A   *)
(* failure of the first one is followed by shutdown, a later one by the    *)
(* back-off.                                                               *)
AfterFailure == IF rc.first THEN "top" ELSE "wait"

(* Neither the dialer nor a read has a deadline: a relay that accepts the  *)
(* connection and says nothing holds connect for ever.                     *)
DialFails ==
  /\ rc.run = "dial" /\ Fault
  /\ rc' \in {[rc EXCEPT !.run = AfterFailure, !.state = "disconnected"],
             [rc EXCEPT !.run = "hung"]}
  /\ UNCHANGED <<sock, asked, inbox, reader>>

Dial ==
  /\ rc.run = "dial"
  /\ \E s \in Socks :
       /\ Unheld(s)
       /\ sock' = [sock EXCEPT ![s] = "open"]
       /\ asked' = [asked EXCEPT ![s] = {}]
       /\ inbox' = [inbox EXCEPT ![s] = <<>>]
       /\ rc' = [rc EXCEPT !.run = "handshake", !.state = "authenticating", !.ws = s]
  /\ UNCHANGED <<reader, sockFaults>>

(* The socket was lost or the relay denies; it is closed and stays in the  *)
(* struct.  On a dead socket there is no step.                             *)
HandshakeFails ==
  /\ rc.run \in {"handshake", "robbed"}
  /\ \/ sock[rc.ws] = "lost" /\ UNCHANGED sockFaults
     \/ sock[rc.ws] = "open" /\ rc.run = "handshake" /\ Fault
  /\ sock' = CloseSock(rc.ws)
  /\ rc' = [rc EXCEPT !.run = AfterFailure, !.state = "disconnected"]
  /\ UNCHANGED <<asked, inbox, reader>>

(* An older readLoop that was busy during the reconnect reads the same     *)
(* socket, and may take the message the handshake waits for.               *)
HandshakeRobbed(g) ==
  /\ rc.run = "handshake" /\ sock[rc.ws] = "open"
  /\ reader[g].pc = "read" /\ reader[g].ws = rc.ws
  /\ rc' = [rc EXCEPT !.run = "robbed", !.stale = FALSE]
  /\ UNCHANGED <<sock, asked, inbox, reader, sockFaults>>

Handshake ==
  /\ rc.run = "handshake" /\ sock[rc.ws] = "open"
  /\ \E g \in Readers :
       /\ reader[g].pc = "off"
       /\ reader' = [reader EXCEPT ![g] = ReadTop(rc.ws)]
  /\ rc' = [rc EXCEPT !.run = "top", !.first = FALSE, !.state = "alive", !.stale = FALSE]
  /\ UNCHANGED <<sock, asked, inbox, sockFaults>>

(* connectWithBackoff between two attempts, of a second or more, which a   *)
(* stop ends first; connect drains reconnectNow.                           *)
BackOff ==
  /\ rc.run = "wait"
  /\ \/ ~rc.stopped /\ rc' = [rc EXCEPT !.run = "dial", !.state = "connecting", !.signal = FALSE]
     \/ rc.stopped /\ rc' = [rc EXCEPT !.run = "top"]
  /\ UNCHANGED <<sock, asked, inbox, reader, sockFaults>>

-----------------------------------------------------------------------------
(* runLoop.                                                                *)
Down(run) == [rc EXCEPT !.run = run, !.state = "disconnected", !.ws = NoSock]

(* The top of the loop when the state is not alive.                        *)
NotAlive ==
  /\ rc.run = "top" /\ rc.state # "alive"
  /\ sock' = CloseSock(rc.ws)
  /\ rc' = IF rc.stopped THEN Down("returned")
           ELSE [Down("dial") EXCEPT !.state = "connecting", !.first = FALSE, !.signal = FALSE]
  /\ UNCHANGED <<asked, inbox, reader, sockFaults>>

StopSeen ==
  /\ rc.run = "top" /\ rc.state = "alive" /\ rc.stopped
  /\ sock' = CloseSock(rc.ws)
  /\ rc' = Down("returned")
  /\ UNCHANGED <<asked, inbox, reader, sockFaults>>

ReconnectNow ==
  /\ rc.run = "top" /\ rc.state = "alive" /\ rc.signal
  /\ sock' = CloseSock(rc.ws)
  /\ rc' = [Down("top") EXCEPT !.signal = FALSE]
  /\ UNCHANGED <<asked, inbox, reader, sockFaults>>

(* A tick of the keep-alive: time out, skip, or ping.  A write to a socket *)
(* that is lost may still succeed.                                         *)
WritePing(n) ==
  \/ /\ sock[rc.ws] \in {"open", "lost", "dead"}
     /\ asked' = IF sock[rc.ws] = "open" THEN [asked EXCEPT ![rc.ws] = @ \cup {n}] ELSE asked
     /\ rc' = [rc EXCEPT !.seq = n, !.pending = n]
     /\ UNCHANGED sock
  \/ /\ sock[rc.ws] = "lost"
     /\ sock' = CloseSock(rc.ws)
     /\ rc' = [Down("top") EXCEPT !.seq = n, !.pending = n]
     /\ UNCHANGED asked

(* Mutant: an outstanding ping is looked at before the time of silence.    *)
TickSkipsFirst ==
  /\ rc.run = "top" /\ rc.state = "alive" /\ rc.pending = 0
  /\ \/ /\ rc.stale
        /\ sock' = CloseSock(rc.ws)
        /\ rc' = Down("top")
        /\ UNCHANGED asked
     \/ ~rc.stale /\ rc.seq < MaxPings /\ WritePing(rc.seq + 1)
  /\ UNCHANGED <<inbox, reader, sockFaults>>

Tick ==
  /\ rc.run = "top" /\ rc.state = "alive"
  /\ \/ /\ rc.stale
        /\ sock' = CloseSock(rc.ws)
        /\ rc' = Down("top")
        /\ UNCHANGED asked
     \/ ~rc.stale /\ rc.pending = 0 /\ rc.seq < MaxPings /\ WritePing(rc.seq + 1)
  /\ UNCHANGED <<inbox, reader, sockFaults>>

-----------------------------------------------------------------------------
(* readLoop.                                                               *)
ReadFails(g) ==
  /\ reader[g].pc = "read" /\ sock[reader[g].ws] \in {"lost", "closed"}
  /\ reader' = [reader EXCEPT ![g] = NoReader]
  /\ rc' = [rc EXCEPT !.signal = @ \/ ~rc.stopped]
  /\ UNCHANGED <<sock, asked, inbox, sockFaults>>

(* Any frame counts as a sign of life.                                     *)
ReadFrame(g) ==
  LET s == reader[g].ws IN
  /\ reader[g].pc = "read" /\ sock[s] \in {"open", "dead"} /\ inbox[s] # <<>>
  /\ reader' = [reader EXCEPT ![g] = [pc |-> "frame", ws |-> s, frame |-> Head(inbox[s]).frame,
                                      seq |-> Head(inbox[s]).seq]]
  /\ inbox' = [inbox EXCEPT ![s] = Tail(@)]
  /\ rc' = [rc EXCEPT !.stale = FALSE]
  /\ UNCHANGED <<sock, asked, sockFaults>>

HandlePong(g) ==
  /\ reader[g].pc = "frame" /\ reader[g].frame = "pong"
  /\ rc' = [rc EXCEPT !.pending = IF @ = reader[g].seq THEN 0 ELSE @]
  /\ reader' = [reader EXCEPT ![g] = ReadTop(rc.ws)]
  /\ UNCHANGED <<sock, asked, inbox, sockFaults>>

(* A ping of the relay is answered on the current socket; when that fails  *)
(* the loop ends without asking for a reconnect.                           *)
HandlePing(g) ==
  /\ reader[g].pc = "frame" /\ reader[g].frame = "ping"
  /\ \/ /\ SockState(rc.ws) # "closed"
        /\ reader' = [reader EXCEPT ![g] = ReadTop(rc.ws)]
     \/ /\ SockState(rc.ws) \in {"lost", "closed"}
        /\ reader' = [reader EXCEPT ![g] = NoReader]
  /\ UNCHANGED <<rc, sock, asked, inbox, sockFaults>>

-----------------------------------------------------------------------------
(* The relay and the network.                                              *)
Answer(s) ==
  /\ sock[s] = "open" /\ inbox[s] = <<>>
  /\ \E n \in asked[s] :
       /\ inbox' = [inbox EXCEPT ![s] = <<Frame("pong", n)>>]
       /\ asked' = [asked EXCEPT ![s] = @ \ {n}]
  /\ UNCHANGED <<rc, sock, reader, sockFaults>>

RelayPings(s) ==
  /\ sock[s] = "open" /\ inbox[s] = <<>> /\ Fault
  /\ inbox' = [inbox EXCEPT ![s] = <<Frame("ping", 0)>>]
  /\ UNCHANGED <<rc, sock, asked, reader>>

LoseSock(s) ==
  /\ sock[s] = "open" /\ Fault
  /\ \E how \in {"lost", "dead"} : sock' = [sock EXCEPT ![s] = how]
  /\ UNCHANGED <<rc, asked, inbox, reader>>

(* Three ping intervals pass without a frame.                              *)
Silence ==
  /\ rc.state = "alive" /\ ~rc.stale
  /\ sock[rc.ws] # "open" \/ (inbox[rc.ws] = <<>> /\ asked[rc.ws] = {})
  /\ rc' = [rc EXCEPT !.stale = TRUE]
  /\ UNCHANGED <<sock, asked, inbox, reader, sockFaults>>

StopConn ==
  /\ ~rc.stopped
  /\ rc' = [rc EXCEPT !.stopped = TRUE]
  /\ UNCHANGED <<sock, asked, inbox, reader, sockFaults>>

RunLoop ==
  \/ DialFails \/ Dial \/ HandshakeFails \/ Handshake \/ BackOff
  \/ NotAlive \/ StopSeen \/ ReconnectNow \/ Tick

ReadLoop(g) ==
  ReadFails(g) \/ ReadFrame(g) \/ HandlePong(g) \/ HandlePing(g) \/ HandshakeRobbed(g)

ConnNext ==
  \/ RunLoop
  \/ \E g \in Readers : ReadLoop(g)
  \/ \E s \in Socks : Answer(s) \/ RelayPings(s) \/ LoseSock(s)
  \/ Silence \/ StopConn

ConnSpec == ConnInit /\ [][ConnNext]_connVars

-----------------------------------------------------------------------------
(* A connection that breaks or goes silent while it is in use is given up, *)
(* whatever its read loops do: one may have ended without a signal, and a  *)
(* ping may be outstanding that nobody answers.  The silence is looked at  *)
(* before the outstanding ping (irohrelay.go:415).  A broken socket never  *)
(* works again, so it is enough that none stays in use.                    *)
LossIsNoticed ==
  []<>(~\E s \in Socks : rc.state = "alive" /\ rc.ws = s /\ sock[s] \in {"lost", "dead"})

Gone ==
  /\ rc.run = "returned"
  /\ \A g \in Readers : reader[g].pc = "off"
  /\ \A s \in Socks : sock[s] \in {"free", "closed"}

(* A stop that finds runLoop outside connect ends everything: runLoop and  *)
(* all read loops return and no socket stays open.                         *)
StopEnds == (rc.stopped /\ rc.run \in {"top", "wait"}) ~> Gone

(* An Iroh relay connection (runLoop, readLoop): a loss is noticed, and a  *)
(* stop outside connect ends it.                                           *)
ConnLive == LossIsNoticed /\ StopEnds

(* Three statements the code does not keep.  A stop ends everything        *)
(* wherever runLoop is; unless it is stopped the connection comes back     *)
(* after every loss; an outstanding ping was sent on the connection in     *)
(* use (pendingPing is not reset by connect).                              *)
ConnStops == rc.stopped ~> Gone

Reconnects ==
  []<>(\/ rc.stopped
       \/ /\ rc.state = "alive" /\ sock[rc.ws] = "open"
          /\ \E g \in Readers : reader[g].pc # "off")

PendingIsCurrent ==
  rc.state = "alive" /\ rc.pending # 0 /\ sock[rc.ws] = "open" =>
    \/ rc.pending \in asked[rc.ws]
    \/ \E i \in DOMAIN inbox[rc.ws] : inbox[rc.ws][i] = Frame("pong", rc.pending)
    \/ \E g \in Readers : reader[g].frame = "pong" /\ reader[g].seq = rc.pending

=============================================================================
