------------------------------- MODULE DriftUdp -------------------------------
(***************************************************************************)
(* The DriftServer of pbtunnel/pbtunnel.go: ListenUDP gives every local    *)
(* address that sends a datagram a session, which is a stream to the peer  *)
(* and a goroutine that sends the answers back; reapUDP removes idle       *)
(* sessions, Listen starts a handler for every TCP connection (PbTunnel    *)
(* has what it does), and Close ends the server.                           *)
(***************************************************************************)
EXTENDS Naturals, FiniteSets

CONSTANTS
  Locals,      \* local addresses that send datagrams
  Sessions,    \* session slots; each is used once
  NoSession,
  MaxTcp       \* bound on TCP connections handled at once

ASSUME DriftAssumption == NoSession \notin Sessions \cup Locals

VARIABLES
  drift,    \* the ListenUDP goroutine
  sessions, \* udpSessions: the session of each address
  sess,     \* sess[s]: its stream, its goroutine, whether it is idle
  tcp,      \* the number of TCP connections being handled
  closer    \* the call of Close: its state and the sessions it has seen

driftVars == <<drift, sessions, sess, tcp, closer>>

DriftInit ==
  /\ drift = [pc |-> "recv", key |-> NoSession, s |-> NoSession]
  /\ sessions = [k \in Locals |-> NoSession]
  /\ sess = [s \in Sessions |-> [stream |-> "none", answers |-> FALSE, idle |-> FALSE]]
  /\ tcp = 0
  /\ closer = [pc |-> "idle", seen |-> {}]

Listed(s) == \E k \in Locals : sessions[k] = s

Serving == closer.pc \in {"idle", "snapshot"}

(* ListenUDP: a datagram from k; a known session is marked used.           *)
LocalDatagram(k) ==
  /\ drift.pc = "recv" /\ Serving
  /\ IF sessions[k] = NoSession
     THEN drift' = [drift EXCEPT !.pc = "open", !.key = k] /\ UNCHANGED sess
     ELSE /\ drift' = [drift EXCEPT !.pc = "write", !.key = k, !.s = sessions[k]]
          /\ sess' = [sess EXCEPT ![sessions[k]].idle = FALSE]
  /\ UNCHANGED <<sessions, tcp, closer>>

ListenEnds ==
  /\ drift.pc = "recv" /\ ~Serving
  /\ drift' = [drift EXCEPT !.pc = "ended"]
  /\ UNCHANGED <<sessions, sess, tcp, closer>>

(* newUDPSession: the stream and its goroutine first, the map afterwards.  *)
OpenFails ==
  /\ drift.pc = "open"
  /\ drift' = [drift EXCEPT !.pc = "recv"]
  /\ UNCHANGED <<sessions, sess, tcp, closer>>

OpenWorks ==
  /\ drift.pc = "open"
  /\ \E s \in Sessions :
       /\ sess[s].stream = "none"
       /\ sess' = [sess EXCEPT ![s] = [stream |-> "open", answers |-> TRUE, idle |-> FALSE]]
       /\ drift' = [drift EXCEPT !.pc = "put", !.s = s]
  /\ UNCHANGED <<sessions, tcp, closer>>

PutSession ==
  /\ drift.pc = "put"
  /\ sessions' = [sessions EXCEPT ![drift.key] = drift.s]
  /\ drift' = [drift EXCEPT !.pc = "write"]
  /\ UNCHANGED <<sess, tcp, closer>>

WriteSession ==
  /\ drift.pc = "write"
  /\ drift' = [drift EXCEPT !.pc = IF sess[drift.s].stream = "open" THEN "recv" ELSE "remove"]
  /\ UNCHANGED <<sessions, sess, tcp, closer>>

CloseStreams(ss) ==
  [s \in Sessions |-> IF s \in ss /\ sess[s].stream = "open" THEN [sess[s] EXCEPT !.stream = "ended"] ELSE sess[s]]

(* removeUDPSession, by key.                                               *)
RemoveSession ==
  /\ drift.pc = "remove"
  /\ sessions' = [sessions EXCEPT ![drift.key] = NoSession]
  /\ sess' = CloseStreams({sessions[drift.key]} \ {NoSession})
  /\ drift' = [drift EXCEPT !.pc = "recv"]
  /\ UNCHANGED <<tcp, closer>>

(* The session's goroutine: an answer for the local address, or the end of *)
(* the stream or of the socket.                                            *)
AnswerSession(s) ==
  /\ sess[s].answers
  /\ sess' = IF sess[s].stream # "open" \/ ~Serving THEN [sess EXCEPT ![s].answers = FALSE]
             ELSE [sess EXCEPT ![s].idle = @ /\ ~Listed(s)]
  /\ UNCHANGED <<drift, sessions, tcp, closer>>

(* Five minutes without a datagram either way.                             *)
Idle(s) ==
  /\ Listed(s) /\ ~sess[s].idle
  /\ sess' = [sess EXCEPT ![s].idle = TRUE]
  /\ UNCHANGED <<drift, sessions, tcp, closer>>

IdleSessions == {s \in Sessions : sess[s].idle /\ Listed(s)}

\* Mutant: an idle session leaves the map with its stream open.
ReapOnly ==
  /\ Serving /\ IdleSessions # {}
  /\ sessions' = [k \in Locals |-> IF sessions[k] \in IdleSessions THEN NoSession ELSE sessions[k]]
  /\ UNCHANGED <<drift, sess, tcp, closer>>

(* reapUDP, under the mutex.                                               *)
Reap ==
  /\ Serving /\ IdleSessions # {}
  /\ sessions' = [k \in Locals |-> IF sessions[k] \in IdleSessions THEN NoSession ELSE sessions[k]]
  /\ sess' = CloseStreams(IdleSessions)
  /\ UNCHANGED <<drift, tcp, closer>>

-----------------------------------------------------------------------------
(* Listen: a connection is accepted and counted in wg; its handler ends    *)
(* when the client or the peer does.                                       *)
AcceptTcp ==
  /\ Serving /\ tcp < MaxTcp
  /\ tcp' = tcp + 1
  /\ UNCHANGED <<drift, sessions, sess, closer>>

HandlerEnds ==
  /\ tcp > 0
  /\ tcp' = tcp - 1
  /\ UNCHANGED <<drift, sessions, sess, closer>>

(* Close: a snapshot of the sessions, then the sockets and the streams,    *)
(* then wg.Wait for the goroutines of sessions and TCP connections.  The   *)
(* connections themselves are not closed.                                  *)
Snapshot == {sessions[k] : k \in Locals} \ {NoSession}

CloseServer ==
  /\ \/ /\ closer.pc = "idle"
        /\ closer' = [pc |-> "snapshot", seen |-> Snapshot]
        /\ UNCHANGED sess
     \/ /\ closer.pc = "snapshot"
        /\ closer' = [closer EXCEPT !.pc = "waits"]
        /\ sess' = CloseStreams(closer.seen)
     \/ /\ closer.pc = "waits"
        /\ tcp = 0 /\ \A s \in Sessions : ~sess[s].answers
        /\ closer' = [closer EXCEPT !.pc = "returned"]
        /\ UNCHANGED sess
  /\ UNCHANGED <<drift, sessions, tcp>>

(* The peer or the network ends a stream.                                  *)
StreamLost(s) ==
  /\ sess[s].stream = "open"
  /\ sess' = [sess EXCEPT ![s].stream = "ended"]
  /\ UNCHANGED <<drift, sessions, tcp, closer>>

DriftNext ==
  \/ \E k \in Locals : LocalDatagram(k)
  \/ ListenEnds \/ OpenFails \/ OpenWorks \/ PutSession \/ WriteSession \/ RemoveSession
  \/ Reap \/ AcceptTcp \/ HandlerEnds \/ CloseServer
  \/ \E s \in Sessions : AnswerSession(s) \/ Idle(s) \/ StreamLost(s)

DriftSpec == DriftInit /\ [][DriftNext]_driftVars

-----------------------------------------------------------------------------
(* No UDP session is lost (ListenUDP, reapUDP, removeUDPSession, Close):   *)
(* one with an open stream is in the map, or ListenUDP is about to put it  *)
(* there, so the reaper or a failed write finds it; and no address has the *)
(* session of another.                                                     *)
SessionsKept ==
  /\ \A s \in Sessions : sess[s].stream = "open" => Listed(s) \/ (drift.pc = "put" /\ drift.s = s)
  /\ \A j, k \in Locals : sessions[j] = sessions[k] => j = k \/ sessions[j] = NoSession

(* Close leaves no session behind.  The code does not keep it, and no run  *)
(* checks it (see the README): ListenUDP may open a session after Close    *)
(* has taken its snapshot, and add it to wg after Wait has returned.       *)
CloseEndsSessions ==
  closer.pc = "returned" => \A s \in Sessions : sess[s].stream # "open" /\ ~sess[s].answers

=============================================================================
