---------------------------- MODULE IrohStreams ----------------------------
(***************************************************************************)
(* The streams two nodes multiplex over an Iroh relay: IrohRelayStream and *)
(* peerStreamManager of p2put/irohrelay.go, with the pool's OpenStream,    *)
(* AcceptStream, dispatchStreamFrame, removeStream and peerGone.  Each     *)
(* node has a manager for the other, which peerGone throws away together   *)
(* with its counter of stream ids; the next use makes a new one.           *)
(***************************************************************************)
EXTENDS Naturals, Sequences, FiniteSets

CONSTANTS
  NStreams,    \* bound on stream objects of both nodes
  AcceptCap,   \* capacity of acceptCh
  MaxStreamOps \* bound on calls of the two nodes, losses and reports of the relay

ASSUME StreamsAssumption == NStreams \in Nat /\ AcceptCap \in Nat \ {0} /\ MaxStreamOps \in Nat

VARIABLES
  str,     \* str[x]: a stream object and the goroutine that reads it
  mgr,     \* mgr[n]: the current manager of node n
  accept,  \* accept[n]: acceptCh
  wire,    \* wire[n]: datagrams on their way to node n
  streamOps, \* calls, losses and reports so far
  lossy    \* a datagram was lost

streamVars == <<str, mgr, accept, wire, streamOps, lossy>>

\* The key of "a" is the smaller one, which gives its ids the odd bit.
Nodes == {"a", "b"}
OtherEnd(n) == IF n = "a" THEN "b" ELSE "a"

Streams == 1..NStreams

NoStream ==
  [pc |-> "free", node |-> "a", id |-> 0, peer |-> 0, mgr |-> 0, listed |-> FALSE, closed |-> "no",
   reset |-> FALSE, buf |-> <<>>, wrote |-> 0, got |-> <<>>, reader |-> "idle"]

StreamsInit ==
  /\ str = [x \in Streams |-> NoStream]
  /\ mgr = [n \in Nodes |-> [gen |-> 0, next |-> 0]]
  /\ accept = [n \in Nodes |-> <<>>]
  /\ wire = [n \in Nodes |-> <<>>]
  /\ streamOps = 0
  /\ lossy = FALSE

Datagram(id, flag, data) == [id |-> id, flag |-> flag, data |-> data]
None == <<>>

(* The next stream object.                                                 *)
Fresh(x) == str[x].pc = "free" /\ \A y \in Streams : str[y].pc = "free" => x <= y

StreamOp == streamOps < MaxStreamOps /\ streamOps' = streamOps + 1

(* sendTo: the relay drops datagrams, and without a relay that is alive    *)
(* nothing is sent.                                                        *)
SendTo(n, f) ==
  \/ wire' = [wire EXCEPT ![n] = Append(@, f)] /\ UNCHANGED lossy
  \/ lossy' = TRUE /\ UNCHANGED wire

(* rxCond.Broadcast: a waiting Read looks again.                           *)
Broadcast(s) == [s EXCEPT !.reader = IF @ = "waits" THEN "looks" ELSE @]

Current(n, id) ==
  {x \in Streams : str[x].node = n /\ str[x].listed /\ str[x].id = id /\ str[x].mgr = mgr[n].gen}

(* removeStream looks up the current manager by id.                        *)
Unlist(n, id, g) == [x \in Streams |-> IF x \in Current(n, id) THEN [g[x] EXCEPT !.listed = FALSE]
                                       ELSE g[x]]

-----------------------------------------------------------------------------
(* OpenStream: the manager and an id first, the map afterwards.            *)
OddBit(n) == IF n = "a" THEN 1 ELSE 0
\* Mutant: both ends count alike.
AllocEven(n) == 2 * mgr[n].next
AllocID(n) == 2 * mgr[n].next + OddBit(n)

OpenStream(n) ==
  /\ StreamOp
  /\ \E x \in Streams :
       /\ Fresh(x)
       /\ str' = [str EXCEPT ![x] = [NoStream EXCEPT !.pc = "opening", !.node = n,
                                     !.id = AllocID(n), !.mgr = mgr[n].gen]]
  /\ mgr' = [mgr EXCEPT ![n].next = @ + 1]
  /\ UNCHANGED <<accept, wire, lossy>>

Opened(x) ==
  /\ str[x].pc = "opening"
  /\ str' = [str EXCEPT ![x].pc = "open", ![x].listed = TRUE]
  /\ UNCHANGED <<mgr, accept, wire, streamOps, lossy>>

AcceptStream(n) ==
  /\ accept[n] # <<>>
  /\ str' = [str EXCEPT ![Head(accept[n])].pc = "open"]
  /\ accept' = [accept EXCEPT ![n] = Tail(@)]
  /\ UNCHANGED <<mgr, wire, streamOps, lossy>>

(* Write does not look at closed or reset.                                 *)
WriteStream(x) ==
  /\ str[x].pc = "open" /\ StreamOp
  /\ str' = [str EXCEPT ![x].wrote = @ + 1]
  /\ SendTo(OtherEnd(str[x].node), Datagram(str[x].id, "DATA", <<x, str[x].wrote + 1>>))
  /\ UNCHANGED <<mgr, accept>>

(* Close does not wake a waiting Read, Reset does.                         *)
CloseStream(x) ==
  /\ str[x].pc = "open" /\ str[x].closed = "no" /\ StreamOp
  /\ str' = [str EXCEPT ![x].closed = "self", ![x].pc = "removing"]
  /\ SendTo(OtherEnd(str[x].node), Datagram(str[x].id, "CLOSE", None))
  /\ UNCHANGED <<mgr, accept>>

ResetStream(x) ==
  /\ str[x].pc = "open" /\ ~str[x].reset /\ StreamOp
  /\ str' = [str EXCEPT ![x] = Broadcast([@ EXCEPT !.reset = TRUE, !.buf = <<>>, !.pc = "removing"])]
  /\ SendTo(OtherEnd(str[x].node), Datagram(str[x].id, "RESET", None))
  /\ UNCHANGED <<mgr, accept>>

RemoveStream(x) ==
  /\ str[x].pc = "removing"
  /\ str' = [Unlist(str[x].node, str[x].id, str) EXCEPT ![x].pc = "open"]
  /\ UNCHANGED <<mgr, accept, wire, streamOps, lossy>>

(* Read: look, then either return or wait for a Broadcast.                 *)
ReadStream(x) ==
  LET s == str[x] IN
  /\ s.pc = "open" /\ s.reader \in {"idle", "looks"}
  /\ str' = [str EXCEPT ![x] =
        IF s.buf # <<>> THEN [s EXCEPT !.buf = Tail(@), !.got = Append(@, Head(s.buf)), !.reader = "idle"]
        ELSE [s EXCEPT !.reader = IF s.reset THEN "errclosed" ELSE IF s.closed # "no" THEN "eof" ELSE "waits"]]
  /\ UNCHANGED <<mgr, accept, wire, streamOps, lossy>>

-----------------------------------------------------------------------------
(* dispatch of a frame to a stream.                                        *)
Dispatch(s, f) ==
  CASE f.flag = "RESET" -> Broadcast([s EXCEPT !.reset = TRUE, !.buf = <<>>])
    [] f.flag = "CLOSE" -> Broadcast([s EXCEPT !.closed = "peer"])
    [] OTHER            -> Broadcast([s EXCEPT !.buf = Append(@, f.data)])

DeliverKnown(n) ==
  /\ wire[n] # <<>>
  /\ \E x \in Current(n, Head(wire[n]).id) : str' = [str EXCEPT ![x] = Dispatch(@, Head(wire[n]))]
  /\ wire' = [wire EXCEPT ![n] = Tail(@)]
  /\ UNCHANGED <<mgr, accept, streamOps, lossy>>

DeliverIgnored(n) ==
  /\ wire[n] # <<>> /\ Head(wire[n]).flag # "DATA" /\ Current(n, Head(wire[n]).id) = {}
  /\ wire' = [wire EXCEPT ![n] = Tail(@)]
  /\ UNCHANGED <<str, mgr, accept, streamOps, lossy>>

(* The first data of an unknown stream announces it; its payload is not    *)
(* stored.  With acceptCh full the stream is dropped and RESET sent.       *)
DeliverNew(n) ==
  LET f == Head(wire[n]) IN
  /\ wire[n] # <<>> /\ f.flag = "DATA" /\ Current(n, f.id) = {}
  /\ \/ /\ Len(accept[n]) < AcceptCap
        /\ \E x \in Streams :
             /\ Fresh(x)
             /\ str' = [str EXCEPT ![x] = [NoStream EXCEPT !.pc = "queued", !.node = n, !.id = f.id,
                                           !.peer = f.data[1], !.mgr = mgr[n].gen, !.listed = TRUE]]
             /\ accept' = [accept EXCEPT ![n] = Append(@, x)]
        /\ wire' = [wire EXCEPT ![n] = Tail(@)] /\ UNCHANGED lossy
     \/ /\ Len(accept[n]) = AcceptCap
        /\ \/ wire' = [wire EXCEPT ![n] = Tail(@), ![OtherEnd(n)] = Append(@, Datagram(f.id, "RESET", None))]
              /\ UNCHANGED lossy
           \/ wire' = [wire EXCEPT ![n] = Tail(@)] /\ lossy' = TRUE
        /\ UNCHANGED <<str, accept>>
  /\ UNCHANGED <<mgr, streamOps>>

(* peerGone: the manager leaves the map and its streams are reset.         *)
PeerGone(n) ==
  /\ StreamOp
  /\ str' = [x \in Streams |->
               IF str[x].node = n /\ str[x].listed /\ str[x].mgr = mgr[n].gen
               THEN [Dispatch(str[x], Datagram(str[x].id, "RESET", None)) EXCEPT !.listed = FALSE]
               ELSE str[x]]
  /\ mgr' = [mgr EXCEPT ![n] = [gen |-> @.gen + 1, next |-> 0]]
  /\ UNCHANGED <<accept, wire, lossy>>

StreamsNext ==
  \/ \E n \in Nodes : \/ OpenStream(n) \/ AcceptStream(n) \/ PeerGone(n)
                     \/ DeliverKnown(n) \/ DeliverIgnored(n) \/ DeliverNew(n)
  \/ \E x \in Streams : \/ Opened(x) \/ WriteStream(x) \/ CloseStream(x) \/ ResetStream(x)
                        \/ RemoveStream(x) \/ ReadStream(x)

StreamsSpec == StreamsInit /\ [][StreamsNext]_streamVars

-----------------------------------------------------------------------------
(* Every variable keeps its type, and a queued stream is in one acceptCh.  *)
StreamsTypeOK ==
  /\ \A x \in Streams :
       /\ str[x].pc \in {"free", "opening", "open", "queued", "removing"}
       /\ str[x].reader \in {"idle", "waits", "looks", "eof", "errclosed"}
       /\ str[x].pc = "queued" <=> \E n \in Nodes : \E i \in 1..Len(accept[n]) : accept[n][i] = x
  /\ \A n \in Nodes : Len(accept[n]) <= AcceptCap

(* The streams of node n with an id.                                       *)
Named(n, id) == {x \in Streams : str[x].pc # "free" /\ str[x].node = n /\ str[x].id = id}

(* x is the only stream of its id, and at most one of the other end has it.*)
Alone(x) ==
  /\ Named(str[x].node, str[x].id) = {x}
  /\ \A y, z \in Named(OtherEnd(str[x].node), str[x].id) : y = z

(* Until the relay reports a peer gone or loses a datagram:                *)
(*  - no two streams that were opened share an id, whichever end opened    *)
(*    them (the odd bit), and a stream receives only what streams of its   *)
(*    id at the other end wrote;                                           *)
(*  - while its id names one stream at each end, what a stream stores      *)
(*    (rxBuf) are consecutive writes of the other.  They begin after the   *)
(*    datagram that announced it, whose payload is dropped: an accepted    *)
(*    stream never reads its peer's first write (peerStreamManager.        *)
(*    dispatch, 316-333).  Data the other end still sends to a stream that *)
(*    was closed announce it again, under the same id; from then on        *)
(*    writers may mix.                                                     *)
PairedData ==
  (~lossy /\ mgr["a"].gen + mgr["b"].gen = 0) =>
    \A x \in Streams :
      LET in == str[x].got \o str[x].buf IN
      /\ \A y \in Streams : str[x].pc # "free" /\ str[y].pc # "free" /\ str[x].peer = 0 /\ str[y].peer = 0
                            /\ str[x].id = str[y].id => x = y
      /\ \A i \in 1..Len(in) : in[i][1] \in Named(OtherEnd(str[x].node), str[x].id)
      /\ str[x].pc # "free" /\ ~str[x].reset /\ Alone(x) =>
           \A i \in 1..(Len(in) - 1) : in[i + 1] = <<in[i][1], in[i][2] + 1>>

(* IrohRelayStream.dispatch wakes Read: one that waits has no data, and   *)
(* the other end neither reset nor closed the stream.                      *)
DispatchWakes ==
  \A x \in Streams : str[x].reader = "waits" =>
    str[x].buf = <<>> /\ ~str[x].reset /\ str[x].closed # "peer"

(* The streams of two nodes (dispatch, Read): what one end reads was       *)
(* written to its stream id at the other end, in consecutive writes while  *)
(* one stream has the id, and no Read sleeps over what arrived.            *)
StreamsSound == StreamsTypeOK /\ PairedData /\ DispatchWakes

(* "IrohRelayStream (implements net.Conn)" (irohrelay.go:155), whose Close *)
(* unblocks a blocked Read: a Read that waits has nothing to return.  Does *)
(* not hold: Close sets closed without a Broadcast and unlists the stream  *)
(* (233-238), so that no frame wakes the Read either.                      *)
CloseUnblocks ==
  \A x \in Streams : str[x].reader = "waits" => str[x].closed = "no" /\ ~str[x].reset

(* The same line, of the data: what an accepted stream reads begins with   *)
(* what its peer wrote first.  Does not hold (316-333).                    *)
FirstWriteArrives ==
  \A x \in Streams : str[x].peer # 0 /\ str[x].got # <<>> => str[x].got[1][2] = 1

=============================================================================
