------------------------------ MODULE PbTunnel ------------------------------
(***************************************************************************)
(* A TCP tunnel of pbtunnel/pbtunnel.go from end to end.  An application   *)
(* connects to the DriftServer of node A, whose handleP2x opens a stream   *)
(* to node B, whose handleTunnel dials the target:                         *)
(*                                                                         *)
(*    app  --socket--  handleP2x  --stream--  handleTunnel  --socket-- tgt *)
(*                                                                         *)
(* Each handler runs two copier goroutines and waits for both.  Read       *)
(* deadlines only repeat the read and are left out.                        *)
(***************************************************************************)
EXTENDS Naturals, Sequences, FiniteSetsExt

CONSTANTS
    MaxSend,      \* per application: chunks it may send
    Cap,          \* chunks a channel holds before a write blocks
    MaxFaults     \* losses of the stream

Links == {"app", "stream", "tgt"}
Directions == {"fwd", "bwd"}      \* towards the target, and back
Ends == {"app", "tgt"}            \* the applications, outside the program
Copiers == {"A1", "A2", "B1", "B2"}

ASSUME BoundsAssumption ==
    MaxSend \in [Ends -> Nat] /\ Cap \in Nat \ {0} /\ MaxFaults \in Nat

VARIABLES
    ch,       \* per link and direction: bytes under way, writer and reader ended
    broken,   \* links that were reset or lost
    pc,       \* per copier: where it is in its loop
    hold,     \* per copier: the chunk read and not yet written
    hA,       \* handleP2x
    hB,       \* handleTunnel
    sent,     \* per application: chunks sent
    got,      \* per application: chunks received
    ended,    \* per application: how its incoming side ended
    faults

pbVars == <<ch, broken, pc, hold, hA, hB, sent, got, ended, faults>>

Channels == Links \X Directions
Back(d) == IF d = "fwd" THEN "bwd" ELSE "fwd"

\* What each goroutine reads and writes.
InOf == [A1 |-> <<"app", "fwd">>, A2 |-> <<"stream", "bwd">>,
         B1 |-> <<"tgt", "bwd">>, B2 |-> <<"stream", "fwd">>]
OutOf == [A1 |-> <<"stream", "fwd">>, A2 |-> <<"app", "bwd">>,
          B1 |-> <<"stream", "bwd">>, B2 |-> <<"tgt", "fwd">>]
EndOut == [app |-> <<"app", "fwd">>, tgt |-> <<"tgt", "bwd">>]
EndIn == [app |-> <<"app", "bwd">>, tgt |-> <<"tgt", "fwd">>]

NoChunk == 0
Chunks == 1..Max({MaxSend[e] : e \in Ends})

-----------------------------------------------------------------------------
(* Sockets and streams *)

Ended(c) == ch[c].fin
Shut(c) == ch[c].shut
Broken(c) == c[1] \in broken

\* A read of channel c has something to return that is not data.
AtEnd(c) == \/ Shut(c)
            \/ Broken(c)
            \/ ch[c].buf = <<>> /\ ch[c].fin

Readable(c) == ch[c].buf /= <<>> /\ ~ Shut(c)

\* Close of the end that writes channel out: no more data out, none accepted
\* in.
Closed(chan, out) ==
    [chan EXCEPT ![out].fin = TRUE,
                 ![<<out[1], Back(out[2])>>].shut = TRUE,
                 ![<<out[1], Back(out[2])>>].buf = <<>>]

\* A socket closed with data unread is reset.
BrokenByClose(out) ==
    IF out[1] /= "stream" /\ ch[<<out[1], Back(out[2])>>].buf /= <<>>
    THEN {out[1]} ELSE {}

Close(out) == /\ ch' = Closed(ch, out)
              /\ broken' = broken \cup BrokenByClose(out)

\* A write when the other end no longer reads.  A socket answers with a reset.
\* A stream of yamux, the only muxer the node has, says nothing: the data are
\* taken as long as its window lasts, then the write blocks, as the reader
\* that would enlarge the window is gone.  How much is left of the window
\* depends on sizes, so that each write is taken or blocks for ever.
WriteOk(out, x) ==
    /\ ~ Ended(out) /\ ~ Broken(out)
    /\ \/ /\ ~ Shut(out)
          /\ Len(ch[out].buf) < Cap
          /\ ch' = [ch EXCEPT ![out].buf = Append(@, x)]
          /\ UNCHANGED broken
       \/ /\ Shut(out)
          /\ broken' = broken \cup ({out[1]} \ {"stream"})
          /\ UNCHANGED ch

WriteFails(out) ==
    Ended(out) \/ Broken(out) \/ (Shut(out) /\ out[1] # "stream")

WriteBlocks(out) == out[1] = "stream" /\ Shut(out) /\ ~ Ended(out) /\ ~ Broken(out)

-----------------------------------------------------------------------------
(* The copiers *)

ReadChunk(c) ==
    /\ pc[c] = "read"
    /\ Readable(InOf[c])
    /\ hold' = [hold EXCEPT ![c] = Head(ch[InOf[c]].buf)]
    /\ ch' = [ch EXCEPT ![InOf[c]].buf = Tail(@)]
       \* data and end of file may come in one read
    /\ \E next \in {"write"} \cup (IF Len(ch[InOf[c]].buf) = 1 /\ Ended(InOf[c])
                                    THEN {"writeLast"} ELSE {}) :
          pc' = [pc EXCEPT ![c] = next]
    /\ UNCHANGED <<broken, hA, hB, sent, got, ended, faults>>

ReadEnd(c) ==
    /\ pc[c] = "read"
    /\ AtEnd(InOf[c])
    /\ pc' = [pc EXCEPT ![c] = "exit"]
    /\ UNCHANGED <<ch, broken, hold, hA, hB, sent, got, ended, faults>>

WriteChunk(c) ==
    /\ pc[c] \in {"write", "writeLast"}
    /\ WriteOk(OutOf[c], hold[c])
    /\ pc' = [pc EXCEPT ![c] = IF pc[c] = "write" THEN "read" ELSE "exit"]
    /\ hold' = [hold EXCEPT ![c] = NoChunk]
    /\ UNCHANGED <<hA, hB, sent, got, ended, faults>>

WriteStuck(c) ==
    /\ pc[c] \in {"write", "writeLast"}
    /\ WriteBlocks(OutOf[c])
    /\ pc' = [pc EXCEPT ![c] = "stuck"]
    /\ UNCHANGED <<ch, broken, hold, hA, hB, sent, got, ended, faults>>

WriteError(c) ==
    /\ pc[c] \in {"write", "writeLast", "stuck"}
    /\ WriteFails(OutOf[c])
    /\ pc' = [pc EXCEPT ![c] = "exit"]
    /\ hold' = [hold EXCEPT ![c] = NoChunk]
    /\ UNCHANGED <<ch, broken, hA, hB, sent, got, ended, faults>>

\* Mutant: the client's copier leaves the stream open.
A1ExitKeepsStream ==
    /\ pc["A1"] = "exit"
    /\ pc' = [pc EXCEPT !["A1"] = "done"]
    /\ UNCHANGED <<ch, broken, hold, hA, hB, sent, got, ended, faults>>

\* Mutant: the deferred closeStream that is commented out is active.
B1ExitClosesStream ==
    /\ pc["B1"] = "exit"
    /\ Close(OutOf["B1"])
    /\ pc' = [pc EXCEPT !["B1"] = "done"]
    /\ UNCHANGED <<hold, hA, hB, sent, got, ended, faults>>

\* The deferred calls of each copier: A1 closes the stream, A2 and B2 the
\* socket.  The closeStream of B1 is commented out in the code.
A1Exit ==
    /\ pc["A1"] = "exit"
    /\ Close(OutOf["A1"])
    /\ pc' = [pc EXCEPT !["A1"] = "done"]
    /\ UNCHANGED <<hold, hA, hB, sent, got, ended, faults>>

A2Exit ==
    /\ pc["A2"] = "exit"
    /\ Close(OutOf["A2"])
    /\ pc' = [pc EXCEPT !["A2"] = "done"]
    /\ UNCHANGED <<hold, hA, hB, sent, got, ended, faults>>

B1Exit ==
    /\ pc["B1"] = "exit"
    /\ pc' = [pc EXCEPT !["B1"] = "done"]
    /\ UNCHANGED <<ch, broken, hold, hA, hB, sent, got, ended, faults>>

B2Exit ==
    /\ pc["B2"] = "exit"
    /\ Close(OutOf["B2"])
    /\ pc' = [pc EXCEPT !["B2"] = "done"]
    /\ UNCHANGED <<hold, hA, hB, sent, got, ended, faults>>

-----------------------------------------------------------------------------
(* The handlers *)

\* handleP2x: OpenStream, then the copiers, or an early return.
AOpens ==
    /\ hA = "new"
    /\ hA' = "open" /\ hB' = "new"
    /\ pc' = [pc EXCEPT !["A1"] = "read", !["A2"] = "read"]
    /\ UNCHANGED <<ch, broken, hold, sent, got, ended, faults>>

AFails ==
    /\ hA = "new"
    /\ hA' = "returned"
    /\ Close(OutOf["A2"])
    /\ UNCHANGED <<pc, hold, hB, sent, got, ended, faults>>

\* handleTunnel: ShouldReject, DialTimeout, then the copiers.
BRejects ==
    /\ hB = "new"
    /\ hB' = "returned"
    /\ broken' = broken \cup {"stream"}
    /\ UNCHANGED <<ch, pc, hold, hA, sent, got, ended, faults>>

BDialFails ==
    /\ hB = "new"
    /\ hB' = "returned"
    /\ Close(OutOf["B1"])
    /\ UNCHANGED <<pc, hold, hA, sent, got, ended, faults>>

BDials ==
    /\ hB = "new"
    /\ hB' = "open"
    /\ pc' = [pc EXCEPT !["B1"] = "read", !["B2"] = "read"]
    /\ UNCHANGED <<ch, broken, hold, hA, sent, got, ended, faults>>

\* wg.Wait returns and the deferred closes run.
AReturns ==
    /\ hA = "open" /\ pc["A1"] = "done" /\ pc["A2"] = "done"
    /\ hA' = "returned"
    /\ ch' = Closed(Closed(ch, OutOf["A1"]), OutOf["A2"])
    /\ broken' = broken \cup BrokenByClose(OutOf["A2"])
    /\ UNCHANGED <<pc, hold, hB, sent, got, ended, faults>>

BReturns ==
    /\ hB = "open" /\ pc["B1"] = "done" /\ pc["B2"] = "done"
    /\ hB' = "returned"
    /\ ch' = Closed(Closed(ch, OutOf["B1"]), OutOf["B2"])
    /\ broken' = broken \cup BrokenByClose(OutOf["B2"])
    /\ UNCHANGED <<pc, hold, hA, sent, got, ended, faults>>

-----------------------------------------------------------------------------
(* The applications and the network *)

Present(e) == e = "app" \/ pc["B1"] # "off"

Send(e) ==
    /\ Present(e) /\ sent[e] < MaxSend[e]
    /\ WriteOk(EndOut[e], sent[e] + 1)
    /\ sent' = [sent EXCEPT ![e] = @ + 1]
    /\ UNCHANGED <<pc, hold, hA, hB, got, ended, faults>>

Receive(e) ==
    /\ Present(e) /\ ended[e] = "no"
    /\ Readable(EndIn[e])
    /\ got' = [got EXCEPT ![e] = Append(@, Head(ch[EndIn[e]].buf))]
    /\ ch' = [ch EXCEPT ![EndIn[e]].buf = Tail(@)]
    /\ UNCHANGED <<broken, pc, hold, hA, hB, sent, ended, faults>>

SeesEnd(e) ==
    /\ Present(e) /\ ended[e] = "no"
    /\ AtEnd(EndIn[e])
    /\ ended' = [ended EXCEPT ![e] = IF Broken(EndIn[e]) \/ Shut(EndIn[e])
                                     THEN "reset" ELSE "eof"]
    /\ UNCHANGED <<ch, broken, pc, hold, hA, hB, sent, got, faults>>

HalfClose(e) ==
    /\ Present(e) /\ ~ Ended(EndOut[e])
    /\ ch' = [ch EXCEPT ![EndOut[e]].fin = TRUE]
    /\ UNCHANGED <<broken, pc, hold, hA, hB, sent, got, ended, faults>>

Leave(e) ==
    /\ Present(e) /\ ~ Shut(EndIn[e])
    /\ Close(EndOut[e])
    /\ UNCHANGED <<pc, hold, hA, hB, sent, got, ended, faults>>

LoseStream ==
    /\ faults < MaxFaults /\ hA = "open"
    /\ "stream" \notin broken
    /\ broken' = broken \cup {"stream"}
    /\ faults' = faults + 1
    /\ UNCHANGED <<ch, pc, hold, hA, hB, sent, got, ended>>

-----------------------------------------------------------------------------
PbInit ==
    /\ ch = [c \in Channels |-> [buf |-> <<>>, fin |-> FALSE, shut |-> FALSE]]
    /\ broken = {}
    /\ pc = [c \in Copiers |-> "off"]
    /\ hold = [c \in Copiers |-> NoChunk]
    /\ hA = "new" /\ hB = "none"
    /\ sent = [e \in Ends |-> 0]
    /\ got = [e \in Ends |-> <<>>]
    /\ ended = [e \in Ends |-> "no"]
    /\ faults = 0

Copy(c) ==
    ReadChunk(c) \/ ReadEnd(c) \/ WriteChunk(c) \/ WriteStuck(c) \/ WriteError(c)

Program ==
    \/ \E c \in Copiers : Copy(c)
    \/ A1Exit \/ A2Exit \/ B1Exit \/ B2Exit
    \/ AOpens \/ AFails \/ BRejects \/ BDialFails \/ BDials
    \/ AReturns \/ BReturns

Environment ==
    \/ \E e \in Ends : Send(e) \/ Receive(e) \/ SeesEnd(e) \/ HalfClose(e) \/ Leave(e)
    \/ LoseStream

PbNext == Program \/ Environment

PbSpec == PbInit /\ [][PbNext]_pbVars

\* A goroutine that can run does, and applications read what arrives.
PbFairSpec ==
    /\ PbSpec
    /\ WF_pbVars(Copy("A1") \/ A1Exit) /\ WF_pbVars(Copy("A2") \/ A2Exit)
    /\ WF_pbVars(Copy("B1") \/ B1Exit) /\ WF_pbVars(Copy("B2") \/ B2Exit)
    /\ WF_pbVars(AOpens \/ AFails \/ AReturns)
    /\ WF_pbVars(BRejects \/ BDialFails \/ BDials \/ BReturns)
    /\ \A e \in Ends : WF_pbVars(Receive(e))

-----------------------------------------------------------------------------
(* Properties *)

\* Every variable keeps its type, and a copier holds a chunk exactly while it
\* has one to write: none is dropped between the read and the write.
TypeOK ==
    /\ ch \in [Channels -> [buf : Seq(Chunks), fin : BOOLEAN, shut : BOOLEAN]]
    /\ \A c \in Channels : Len(ch[c].buf) <= Cap
    /\ broken \subseteq Links
    /\ pc \in [Copiers -> {"off", "read", "write", "writeLast", "stuck", "exit", "done"}]
    /\ \A c \in Copiers : hold[c] \in (IF pc[c] \in {"write", "writeLast", "stuck"}
                                       THEN Chunks ELSE {NoChunk})
    /\ hA \in {"new", "open", "returned"}
    /\ hB \in {"none", "new", "open", "returned"}
    /\ \A e \in Ends : sent[e] \in 0..MaxSend[e]
    /\ got \in [Ends -> Seq(Chunks)]
    /\ ended \in [Ends -> {"no", "eof", "reset"}]
    /\ faults \in 0..MaxFaults

\* A target that reads a clean end of file has received everything the client
\* sent, as long as neither the client's socket nor the stream was reset.  It
\* rests on the order of reads, writes and deferred closes of the copiers, and
\* on B1 not closing the stream when the target has only ended its own side.
RequestComplete ==
    ended["tgt"] = "eof" /\ broken \subseteq {"tgt"}
        => got["tgt"] = [i \in 1..sent["app"] |-> i]

Returned == hA = "returned" /\ hB \in {"none", "returned"}

\* When the stream is lost both handlers return.  When the client goes away
\* they do, unless a copier is stuck in a write to a stream that the other
\* side no longer reads: every other copier is woken by a close of what it
\* reads from or writes to (handleP2x, handleTunnel).
TunnelEnds ==
    /\ "stream" \in broken ~> Returned
    /\ Shut(EndIn["app"]) ~> (Returned \/ \E c \in Copiers : pc[c] = "stuck")

\* What the design says of goroutines that block for ever: none does, as
\* both directions are told (design.md:39).  When the client goes away
\* handleP2x and handleTunnel return.
ClientGoneEnds == Shut(EndIn["app"]) ~> Returned

(* A tunnel keeps its types and the request is complete (handleTunnel):    *)
(* the target sees no clean end of file before all of the request.         *)
TunnelSound == TypeOK /\ RequestComplete

=============================================================================
