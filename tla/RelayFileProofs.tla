-------------------------- MODULE RelayFileProofs --------------------------
(* Proofs about RelayFile, for every number of senders, streams, chunks    *)
(* and faults and every batch size.                                        *)
EXTENDS RelayFileTypeProofs

\* The provers tried, in this order, on a leaf that names none.
USE SMTT(20), ZenonT(20), SMTT(30), SMTT(60)

-----------------------------------------------------------------------------
(* The inductive invariant holds initially.                                *)
LEMMA InitIInv == Init => IInv
<1> SUFFICES ASSUME Init PROVE IInv
  OBVIOUS
<1> USE RelayFileAssumption DEF Init
<1>1. TypeOK
  BY DEF TypeOK, SndType, RcvType, NetType, DiskType, NodeType,
         SndRecord, RcvRecord, Idle, Returned
<1>2. SenderStream /\ UpShape /\ Aligned
  BY DEF SenderStream, UpShape, UpShapeAt, Aligned, Running, Returned, Idle
<1> QED
  BY <1>1, <1>2 DEF IInv

(* A sequence without elements.                                            *)
LEMMA EmptySeq ==
  ASSUME NEW S, NEW q \in Seq(S)
  PROVE  Len(q) = 0 <=> q = <<>>
OBVIOUS

(* Nothing is in flight on an empty stream.                                *)
LEMMA NoIndex ==
  ASSUME NEW q, q = <<>>
  PROVE  Len(q) = 0 /\ 1..Len(q) = {}
OBVIOUS

-----------------------------------------------------------------------------
(* What a step of one side leaves alone.                                   *)

(* The stream state of s is unchanged.                                     *)
Same(s) ==
  /\ owner'[s] = owner[s] /\ sOpen'[s] = sOpen[s]
  /\ up'[s] = up[s] /\ down'[s] = down[s]
  /\ rcv'[s] = rcv[s] /\ rOpen'[s] = rOpen[s] /\ broken'[s] = broken[s]

(* What a handler has to read is judged from its own stream.               *)
LEMMA SameKeepsShape ==
  ASSUME NEW s \in Streams, UpShapeAt(s), Same(s)
  PROVE  UpShapeAt(s)'
BY DEF UpShapeAt, Same

(* Agreement of a sender and its handler depends on nothing but them.      *)
LEMMA SameKeepsAligned ==
  ASSUME NEW p \in Senders, snd'[p] = snd[p], Same(snd[p].stream),
         ~UpLost(snd[p].stream) => AlignedOn(p, snd[p].stream)
  PROVE  ~UpLost(snd[p].stream)' => AlignedOn(p, snd[p].stream)'
<1> SUFFICES ASSUME ~UpLost(snd[p].stream)'
             PROVE  AlignedOn(p, snd[p].stream)'
  OBVIOUS
<1> DEFINE s == snd[p].stream
<1>1. /\ snd'[p] = snd[p] /\ up'[s] = up[s] /\ down'[s] = down[s] /\ rcv'[s] = rcv[s]
      /\ snd'[p].stream = s
  BY DEF Same
<1>2. AlignedOn(p, s)
  BY <1>1 DEF Same, UpLost
<1> HIDE DEF s
<1> QED
  BY <1>1, <1>2 DEF AlignedOn

(* A step of p leaves every stream alone but its own one and, when it      *)
(* opens one, a free slot.                                                 *)
LEMMA SenderFrame ==
  ASSUME IInv, NEW p \in Senders, SendFile(p) \/ CancelSend(p),
         NEW s \in Streams, s # snd[p].stream, sOpen[s] \/ rOpen[s]
  PROVE  Same(s)
<1> USE DEF IInv, TypeOK, NetType, RcvType, Same
<1>1. CASE Open(p)
  BY <1>1 DEF Open, Connect, FreeSlot, Return
<1>2. CASE WriteInit(p) \/ WriteData(p) \/ WriteFin(p)
  BY <1>2 DEF WriteInit, WriteData, WriteFin, WriteFrame, SendUp, Return
<1>3. CASE ReadAccept(p) \/ ReadAck(p) \/ ReadDone(p)
  BY <1>3, Zenon DEF ReadAccept, ReadAck, ReadDone, Consume, Return
<1>4. CASE Loop(p) \/ ReadFileFails(p)
  <2>1. UNCHANGED <<rcv, owner, down, rOpen, broken>>
    BY <1>4 DEF Loop, ReadFileFails
  <2>2. up'[s] = up[s]
    BY <1>4 DEF Loop, ReadFileFails, SendUp
  <2>3. sOpen'[s] = sOpen[s]
    BY <1>4 DEF Loop, ReadFileFails, Return
  <2> QED
    BY <2>1, <2>2, <2>3
<1>5. CASE Resume(p)
  <2>1. ASSUME NEW t \in Streams, Connect(p, t, [sOpen EXCEPT ![snd[p].stream] = FALSE])
        PROVE  Same(s)
    <3>1. s # t
      BY <2>1 DEF Connect, FreeSlot
    <3> QED
      BY <2>1, <3>1 DEF Connect
  <2>2. CASE /\ sOpen' = [sOpen EXCEPT ![snd[p].stream] = FALSE]
             /\ UNCHANGED <<rcv, owner, up, down, rOpen, broken>>
    BY <2>2
  <2> QED
    BY <1>5, <2>1, <2>2, Zenon DEF Resume
<1>6. CASE CancelSend(p)
  BY <1>6 DEF CancelSend, netVars
<1> QED
  BY <1>1, <1>2, <1>3, <1>4, <1>5, <1>6 DEF SendFile

(* A step of p leaves the locals of other SendFile calls alone.            *)
LEMMA SenderLocals ==
  ASSUME IInv, NEW p \in Senders, SendFile(p) \/ CancelSend(p),
         NEW q \in Senders, q # p
  PROVE  snd'[q] = snd[q]
<1> USE DEF IInv, TypeOK, SndType
<1>1. CASE Open(p)
  BY <1>1 DEF Open, Return, Goto
<1>2. CASE WriteInit(p) \/ WriteData(p) \/ WriteFin(p)
  BY <1>2 DEF WriteInit, WriteData, WriteFin, WriteFrame, Return, Goto
<1>3. CASE ReadAccept(p) \/ ReadAck(p) \/ ReadDone(p)
  BY <1>3, Zenon DEF ReadAccept, ReadAck, ReadDone, Return, Goto
<1>4. CASE Loop(p) \/ ReadFileFails(p)
  BY <1>4 DEF Loop, ReadFileFails, Return, Goto
<1>5. CASE Resume(p)
  BY <1>5, Zenon DEF Resume, Goto
<1>6. CASE CancelSend(p)
  BY <1>6 DEF CancelSend
<1> QED
  BY <1>1, <1>2, <1>3, <1>4, <1>5, <1>6 DEF SendFile

(* A step of the handler of s leaves the senders and other streams alone.  *)
LEMMA ReceiverFrame ==
  ASSUME IInv, NEW s \in Streams, HandleFileStream(s) \/ CancelRecv(s) \/ Break(s)
  PROVE  /\ UNCHANGED <<snd, owner, sOpen>>
         /\ \A t \in Streams \ {s} : Same(t)
<1> USE DEF IInv, TypeOK, NetType, RcvType, Same
<1>1. CASE RecvInit(s) \/ CreatePart(s) \/ WriteAccept(s)
  BY <1>1 DEF RecvInit, CreatePart, WriteAccept, EndHandler, ConsumeUp, SendDown
<1>2. CASE RecvData(s)
  BY <1>2 DEF RecvData, CleanupSession, EndHandler, ConsumeUp, SendDown
<1>3. CASE WriteFails(s) \/ RecvEnds(s) \/ RecvFin(s)
  BY <1>3 DEF WriteFails, RecvEnds, RecvFin, CleanupSession, EndHandler, ConsumeUp, SendDown
<1>4. CASE Verify(s) \/ Rename(s) \/ WriteDone(s)
  BY <1>4 DEF Verify, Rename, WriteDone, CleanupSession, EndHandler, SendDown
<1>5. CASE CancelRecv(s)
  BY <1>5 DEF CancelRecv, netVars
<1>6. CASE Break(s)
  BY <1>6 DEF Break
<1> QED
  BY <1>1, <1>2, <1>3, <1>4, <1>5, <1>6 DEF HandleFileStream

-----------------------------------------------------------------------------
(* The sender's steps.                                                     *)

(* The stream of another running sender is not touched.                    *)
LEMMA OthersKeepTheirStream ==
  ASSUME IInv, NEW p \in Senders, SendFile(p) \/ CancelSend(p),
         NEW q \in Senders, q # p, Running(q)
  PROVE  Same(snd[q].stream)
<1>1. snd[q].stream \in Streams /\ sOpen[snd[q].stream] /\ owner[snd[q].stream] = q
  BY RunningHasStream DEF IInv
<1>2. snd[p].pc \notin Returned
  BY Zenon DEF SendFile, CancelSend, Open, WriteInit, ReadAccept, Loop, WriteData, ReadFileFails,
         ReadAck, Resume, WriteFin, ReadDone, Returned
<1>3. snd[p].stream # snd[q].stream
  <2>1. CASE snd[p].pc = "open"
    BY <1>1, <2>1, RelayFileAssumption DEF IInv, SenderStream
  <2>2. CASE Running(p)
    BY <1>1, <2>2, RunningHasStream DEF IInv
  <2> QED
    BY <1>2, <2>1, <2>2 DEF Running
<1> QED
  BY <1>1, <1>3, SenderFrame

(* SenderStream, UpShape and Aligned after a step of p, from what the step *)
(* does to p and to the streams it touches.                                *)
LEMMA SenderStep ==
  ASSUME IInv, NEW p \in Senders, SendFile(p) \/ CancelSend(p),
         snd'[p].pc = "open" => snd'[p].stream = None,
         Running(p)' => /\ snd'[p].stream \in Streams
                        /\ sOpen'[snd'[p].stream]
                        /\ owner'[snd'[p].stream] = p
                        /\ ~UpLost(snd[p].stream)' => AlignedOn(p, snd[p].stream)',
         \A s \in Streams : UpShapeAt(s)'
  PROVE  SenderStream' /\ UpShape' /\ Aligned'
<1>1. ASSUME NEW q \in Senders, q # p
      PROVE  /\ Running(q)' => /\ snd'[q].stream \in Streams
                               /\ sOpen'[snd'[q].stream]
                               /\ owner'[snd'[q].stream] = q
                               /\ ~UpLost(snd[q].stream)' => AlignedOn(q, snd[q].stream)'
             /\ snd'[q].pc = "open" => snd'[q].stream = None
  <2>1. snd'[q] = snd[q]
    BY <1>1, SenderLocals
  <2>2. CASE ~Running(q)
    BY <2>1, <2>2 DEF Running, IInv, SenderStream
  <2>3. CASE Running(q)
    <3>1. Same(snd[q].stream)
      BY <1>1, <2>3, OthersKeepTheirStream
    <3>2. snd[q].stream \in Streams /\ sOpen[snd[q].stream] /\ owner[snd[q].stream] = q
      BY <2>3, RunningHasStream DEF IInv
    <3>3. ~UpLost(snd[q].stream)' => AlignedOn(q, snd[q].stream)'
      BY <2>1, <2>3, <3>1, SameKeepsAligned DEF IInv, Aligned
    <3> QED
      BY <2>1, <2>3, <3>1, <3>2, <3>3 DEF Same, Running
  <2> QED
    BY <2>2, <2>3
<1> QED
  BY <1>1 DEF SenderStream, UpShape, Aligned

(* A step that changes neither handlers nor what they read.                *)
LEMMA HandlersUntouched ==
  ASSUME IInv, UNCHANGED <<rcv, rOpen, owner, up>>
  PROVE  \A s \in Streams : UpShapeAt(s)'
BY DEF IInv, UpShape, UpShapeAt

(* A new stream starts with an empty handler.                              *)
LEMMA ConnectShape ==
  ASSUME IInv, NEW p \in Senders, NEW s \in Streams,
         NEW open \in [Streams -> BOOLEAN], Connect(p, s, open)
  PROVE  /\ \A t \in Streams : UpShapeAt(t)'
         /\ sOpen'[s] /\ owner'[s] = p
         /\ rcv'[s].pc = "init" /\ up'[s] = <<>> /\ down'[s] = <<>>
<1> USE DEF IInv, TypeOK, NetType, RcvType
<1>1. /\ sOpen'[s] /\ owner'[s] = p /\ rOpen'[s]
      /\ rcv'[s].pc = "init" /\ up'[s] = <<>> /\ down'[s] = <<>>
  BY DEF Connect, Idle
<1>2. UpShapeAt(s)'
  BY <1>1 DEF UpShapeAt
<1>3. ASSUME NEW t \in Streams \ {s}
      PROVE  UpShapeAt(t)'
  BY <1>3 DEF Connect, UpShape, UpShapeAt
<1> QED
  BY <1>1, <1>2, <1>3

(* The first stream starts with an idle handler.                           *)
LEMMA OpenStep ==
  ASSUME IInv, NEW p \in Senders, Open(p)
  PROVE  SenderStream' /\ UpShape' /\ Aligned'
<1> USE DEF IInv
<1>1. ASSUME NEW s \in Streams, Connect(p, s, sOpen),
             snd' = [snd EXCEPT ![p].pc = "init", ![p].stream = s]
      PROVE  SenderStream' /\ UpShape' /\ Aligned'
  <2>1. snd'[p].pc = "init" /\ snd'[p].stream = s
    BY <1>1 DEF TypeOK, SndType, SndRecord
  <2>2. /\ \A t \in Streams : UpShapeAt(t)'
        /\ sOpen'[s] /\ owner'[s] = p
        /\ rcv'[s].pc = "init" /\ up'[s] = <<>> /\ down'[s] = <<>>
    BY <1>1, ConnectShape DEF TypeOK, NetType
  <2>3. AlignedOn(p, snd[p].stream)'
    BY <2>1, <2>2 DEF AlignedOn
  <2> QED
    BY <2>1, <2>2, <2>3, SenderStep DEF SendFile
<1>2. CASE Return(p, "failed") /\ UNCHANGED <<rcv, owner, up, down, rOpen, broken>>
  <2>1. snd'[p].pc = "failed"
    BY <1>2 DEF Return, Goto, TypeOK, SndType, SndRecord
  <2>2. \A t \in Streams : UpShapeAt(t)'
    BY <1>2, HandlersUntouched
  <2> QED
    BY <2>1, <2>2, SenderStep DEF SendFile, Running, Returned
<1> QED
  BY <1>1, <1>2 DEF Open

(* A resume starts over with an idle handler on another stream.            *)
LEMMA ResumeStep ==
  ASSUME IInv, NEW p \in Senders, Resume(p)
  PROVE  SenderStream' /\ UpShape' /\ Aligned'
<1> USE DEF IInv
<1> DEFINE closed == [sOpen EXCEPT ![snd[p].stream] = FALSE]
<1>1. ASSUME NEW s \in Streams, Connect(p, s, closed),
             snd' = [snd EXCEPT ![p].pc = "init", ![p].stream = s, ![p].resumed = TRUE]
      PROVE  SenderStream' /\ UpShape' /\ Aligned'
  <2>1. snd'[p].pc = "init" /\ snd'[p].stream = s
    BY <1>1 DEF TypeOK, SndType, SndRecord
  <2>2. /\ \A t \in Streams : UpShapeAt(t)'
        /\ sOpen'[s] /\ owner'[s] = p
        /\ rcv'[s].pc = "init" /\ up'[s] = <<>> /\ down'[s] = <<>>
    BY <1>1, ConnectShape, ZenonT(60) DEF TypeOK, NetType
  <2>3. AlignedOn(p, snd[p].stream)'
    BY <2>1, <2>2 DEF AlignedOn
  <2> QED
    BY <2>1, <2>2, <2>3, SenderStep, Zenon DEF SendFile
<1>2. CASE Goto(p, "failed") /\ UNCHANGED <<rcv, owner, up, down, rOpen, broken>>
  <2>1. snd'[p].pc = "failed"
    BY <1>2 DEF Goto, TypeOK, SndType, SndRecord
  <2>2. \A t \in Streams : UpShapeAt(t)'
    BY <1>2, HandlersUntouched
  <2> QED
    BY <2>1, <2>2, SenderStep DEF SendFile, Running, Returned
<1> QED
  BY <1>1, <1>2, Zenon DEF Resume

(* The call returns and no handler is touched.                             *)
LEMMA ReturnStep ==
  ASSUME IInv, NEW p \in Senders, SendFile(p), NEW result \in Returned,
         Return(p, result), UNCHANGED <<rcv, owner, up, rOpen>>
  PROVE  SenderStream' /\ UpShape' /\ Aligned'
<1>1. snd'[p].pc = result
  BY DEF Return, Goto, IInv, TypeOK, SndType, SndRecord
<1>2. \A t \in Streams : UpShapeAt(t)'
  BY HandlersUntouched
<1> QED
  BY <1>1, <1>2, SenderStep DEF Running, Returned

(* A frame appended for a handler that expects it.                         *)
LEMMA AppendShape ==
  ASSUME IInv, NEW s \in Streams, NEW f, SendUp(s, f), UNCHANGED <<rcv, rOpen, owner>>,
         \/ UpLost(s)
         \/ rcv[s].pc = "init" /\ up[s] = <<>>
         \/ /\ rcv[s].pc = "loop"
            /\ f.t = "DATA" => f.n = rcv[s].pos + Len(up[s]) /\ f.n < TotalChunks
  PROVE  \A t \in Streams : UpShapeAt(t)'
<1> USE DEF IInv, UpShape
<1>1. up \in [Streams -> Seq(UpFrame)] /\ rcv[s].pos \in Nat
  BY DEF TypeOK, NetType, RcvType, RcvRecord
<1>2. ASSUME NEW t \in Streams, up'[t] = up[t]
      PROVE  UpShapeAt(t)'
  <2>1. UpShapeAt(t) /\ UNCHANGED <<rcv, rOpen, owner>>
    OBVIOUS
  <2> QED
    BY <1>2, <2>1 DEF UpShapeAt
<1>3. CASE UpLost(s)
  BY <1>2, <1>3 DEF SendUp
<1>4. ASSUME ~UpLost(s)
      PROVE  UpShapeAt(s)'
  <2>1. up'[s] = Append(up[s], f)
    BY <1>1, <1>4 DEF SendUp
  <2>2. up[s] \in Seq(UpFrame) /\ Len(up[s]) \in Nat
    BY <1>1
  <2>3. CASE rcv[s].pc = "init" /\ up[s] = <<>>
    <3>1. Len(up'[s]) <= 1
      BY <2>1, <2>3
    <3> QED
      BY <2>3, <3>1 DEF UpShapeAt
  <2>4. CASE rcv[s].pc = "loop"
    <3>1. f.t = "DATA" => f.n = rcv[s].pos + Len(up[s]) /\ f.n < TotalChunks
      BY <1>4, <2>4
    <3>2. ASSUME NEW i \in 1..Len(up'[s]), up'[s][i].t = "DATA"
          PROVE  up'[s][i].n = rcv[s].pos + i - 1 /\ up'[s][i].n < TotalChunks
      <4>1. Len(up'[s]) = Len(up[s]) + 1
        BY <2>1, <2>2
      <4>2. CASE i = Len(up[s]) + 1
        <5>1. up'[s][i] = f
          BY <2>1, <2>2, <4>2
        <5> QED
          BY <1>1, <2>2, <3>1, <3>2, <4>2, <5>1
      <4>3. CASE i \in 1..Len(up[s])
        <5>1. up'[s][i] = up[s][i]
          BY <2>1, <2>2, <4>3
        <5> QED
          BY <2>4, <3>2, <4>3, <5>1 DEF UpShapeAt
      <4> QED
        BY <2>2, <4>1, <4>2, <4>3
    <3> QED
      BY <2>4, <3>2 DEF UpShapeAt
  <2> QED
    BY <1>4, <2>3, <2>4
<1>5. \A t \in Streams \ {s} : up'[t] = up[t]
  BY <1>1 DEF SendUp
<1> QED
  BY <1>2, <1>3, <1>4, <1>5

(* INIT is the first frame of a stream.                                    *)
LEMMA WriteInitStep ==
  ASSUME IInv, NEW p \in Senders, WriteInit(p)
  PROVE  SenderStream' /\ UpShape' /\ Aligned'
<1> DEFINE s == snd[p].stream
           f == Frame("INIT", snd[p].seq)
<1>1. s \in Streams /\ sOpen[s] /\ owner[s] = p /\ Running(p)
  BY RunningHasStream DEF WriteInit, Running, Returned, IInv
<1>2. CASE SendUp(s, f) /\ snd' = [snd EXCEPT ![p].pc = "accept"] /\ UNCHANGED sOpen
  <2>1. snd'[p].pc = "accept" /\ snd'[p].stream = s
    BY <1>2 DEF IInv, TypeOK, SndType, SndRecord
  <2>2. ~UpLost(s) => rcv[s].pc = "init" /\ up[s] = <<>> /\ down[s] = <<>>
    BY <1>1 DEF IInv, Aligned, AlignedOn, WriteInit
  <2>3. \A t \in Streams : UpShapeAt(t)'
    BY <1>1, <1>2, <2>2, AppendShape DEF WriteInit, WriteFrame
  <2>4. ~UpLost(s) => Len(up'[s]) = 1
    BY <1>1, <1>2, <2>2 DEF SendUp, IInv, TypeOK, NetType
  <2>5. ~UpLost(snd[p].stream)' => AlignedOn(p, snd[p].stream)'
    BY <2>1, <2>2, <2>4 DEF WriteInit, WriteFrame, AlignedOn, UpLost
  <2> QED
    BY <1>1, <1>2, <2>1, <2>3, <2>5, SenderStep, ZenonT(60) DEF SendFile, WriteInit, WriteFrame
<1>3. CASE Return(p, "failed") /\ UNCHANGED up
  BY <1>3, ReturnStep DEF SendFile, WriteInit, WriteFrame, Returned
<1> QED
  BY <1>2, <1>3 DEF WriteInit, WriteFrame

(* FIN follows the last chunk.                                             *)
LEMMA WriteFinStep ==
  ASSUME IInv, NEW p \in Senders, WriteFin(p)
  PROVE  SenderStream' /\ UpShape' /\ Aligned'
<1> DEFINE s == snd[p].stream
           f == Frame("FIN", 0)
<1>1. s \in Streams /\ sOpen[s] /\ owner[s] = p /\ Running(p)
  BY RunningHasStream DEF WriteFin, Running, Returned, IInv
<1>2. CASE SendUp(s, f) /\ snd' = [snd EXCEPT ![p].pc = "done"] /\ UNCHANGED sOpen
  <2>1. snd'[p].pc = "done" /\ snd'[p].stream = s
    BY <1>2 DEF IInv, TypeOK, SndType, SndRecord
  <2>2. ~UpLost(s) => rcv[s].pc = "loop"
    BY <1>1 DEF IInv, Aligned, AlignedOn, WriteFin
  <2>3. f.t # "DATA"
    BY DEF Frame
  <2> HIDE DEF f
  <2>4. \A t \in Streams : UpShapeAt(t)'
    BY <1>1, <1>2, <2>2, <2>3, AppendShape DEF WriteFin, WriteFrame
  <2>5. AlignedOn(p, snd[p].stream)'
    BY <2>1 DEF AlignedOn
  <2> QED
    BY <1>1, <1>2, <2>1, <2>4, <2>5, SenderStep, ZenonT(60) DEF SendFile, WriteFin, WriteFrame
<1>3. CASE Return(p, "failed") /\ UNCHANGED up
  BY <1>3, ReturnStep DEF SendFile, WriteFin, WriteFrame, Returned
<1> QED
  BY <1>2, <1>3 DEF WriteFin, WriteFrame

(* DATA continues the chunks in flight and stays within the batch.         *)
LEMMA WriteDataStep ==
  ASSUME IInv, NEW p \in Senders, WriteData(p)
  PROVE  SenderStream' /\ UpShape' /\ Aligned'
<1> DEFINE s == snd[p].stream
           seq == snd[p].seq
           f == Frame("DATA", seq)
           next == [snd EXCEPT ![p].seq = seq + 1,
                      ![p].pc = IF seq + 1 = snd[p].end THEN "ack" ELSE "data"]
<1>1. s \in Streams /\ sOpen[s] /\ owner[s] = p /\ Running(p)
  BY RunningHasStream DEF WriteData, Running, Returned, IInv
<1>2. seq \in Nat /\ snd[p].end \in 0..TotalChunks /\ snd[p].pc = "data" /\ TotalChunks \in Nat
  BY RelayFileAssumption DEF IInv, TypeOK, SndType, SndRecord, WriteData
<1>3. CASE SendUp(s, f) /\ snd' = next /\ UNCHANGED sOpen
  <2>1. /\ snd'[p].pc = (IF seq + 1 = snd[p].end THEN "ack" ELSE "data")
        /\ snd'[p].seq = seq + 1
        /\ snd'[p].stream = s /\ snd'[p].end = snd[p].end
    BY <1>3 DEF IInv, TypeOK, SndType, SndRecord
  <2>2. ~UpLost(s) => /\ rcv[s].pc = "loop" /\ down[s] = <<>>
                      /\ seq = rcv[s].pos + Len(up[s])
                      /\ rcv[s].ack <= rcv[s].pos
                      /\ seq < snd[p].end /\ snd[p].end = BatchEnd(rcv[s].ack)
    BY <1>1, <1>2 DEF IInv, Aligned, AlignedOn
  <2>3. f.t = "DATA" /\ f.n = seq
    BY DEF Frame
  <2>4. ~UpLost(s) => seq < TotalChunks
    BY <1>2, <2>2
  <2>5. \A t \in Streams : UpShapeAt(t)'
    <3> HIDE DEF f
    <3> QED
      BY <1>1, <1>3, <2>2, <2>3, <2>4, AppendShape DEF WriteData, WriteFrame
  <2>6. ~UpLost(s) => Len(up'[s]) = Len(up[s]) + 1 /\ Len(up[s]) \in Nat
    BY <1>1, <1>3 DEF SendUp, IInv, TypeOK, NetType
  <2>7. rcv[s].pos \in Nat
    BY <1>1 DEF IInv, TypeOK, RcvType, RcvRecord
  <2>8. UNCHANGED <<rcv, rOpen, broken, down, owner>>
    BY DEF WriteData, WriteFrame
  <2>9. ~UpLost(s)' => AlignedOn(p, s)'
    <3>1. UpLost(s)' = UpLost(s)
      BY <2>1, <2>8 DEF UpLost
    <3>2. ASSUME ~UpLost(s)
          PROVE  AlignedOn(p, snd[p].stream)'
      <4>1. seq + 1 = rcv[s].pos + Len(up'[s])
        <5>1. /\ seq = rcv[s].pos + Len(up[s]) /\ Len(up'[s]) = Len(up[s]) + 1
              /\ Len(up[s]) \in Nat
          BY <2>2, <2>6, <3>2
        <5> HIDE DEF s, seq
        <5> QED
          BY <2>7, <5>1
      <4>2. seq + 1 # snd[p].end => seq + 1 < snd[p].end
        BY <1>2, <2>2, <3>2
      <4>3. seq + 1 = snd[p].end => rcv[s].pos < snd[p].end
        BY <1>2, <2>2, <2>6, <2>7, <3>2
      <4>4. ASSUME NEW i \in 1..Len(up'[s]) PROVE up'[s][i].t = "DATA"
        <5>1. up'[s] = Append(up[s], f) /\ up[s] \in Seq(UpFrame)
          BY <1>1, <1>3, <3>2 DEF SendUp, IInv, TypeOK, NetType
        <5>2. CASE i = Len(up[s]) + 1
          <6> HIDE DEF f
          <6> QED
            BY <2>3, <5>1, <5>2
        <5>3. CASE i \in 1..Len(up[s])
          <6>1. up'[s][i] = up[s][i]
            BY <5>1, <5>3
          <6>2. up[s][i].t = "DATA"
            BY <1>1, <1>2, <3>2, <5>3 DEF IInv, Aligned, AlignedOn
          <6> QED
            BY <6>1, <6>2
        <5> QED
          BY <2>6, <3>2, <5>2, <5>3, SMTT(30)
      <4> QED
        BY <2>1, <2>2, <2>8, <3>2, <4>1, <4>2, <4>3, <4>4, ZenonT(60) DEF AlignedOn
    <3> QED
      BY <2>1, <3>1, <3>2
  <2>10. snd'[p].pc # "open" /\ sOpen'[snd'[p].stream] /\ owner'[snd'[p].stream] = p
    BY <1>1, <1>3, <2>1, <2>8
  <2>11. SendFile(p)
    BY DEF SendFile
  <2>12. snd'[p].stream \in Streams
    BY <1>1, <2>1
  <2> HIDE DEF next, f
  <2> QED
    BY <2>5, <2>9, <2>10, <2>11, <2>12, SenderStep
<1>4. CASE Return(p, "failed") /\ UNCHANGED up
  BY <1>4, ReturnStep DEF SendFile, WriteData, WriteFrame, Returned
<1> QED
  BY <1>3, <1>4 DEF WriteData, WriteFrame

(* A batch starts where the handler stands.                                *)
LEMMA LoopStep ==
  ASSUME IInv, NEW p \in Senders, Loop(p)
  PROVE  SenderStream' /\ UpShape' /\ Aligned'
<1> DEFINE s == snd[p].stream
           seq == snd[p].seq
<1>1. /\ s \in Streams /\ sOpen[s] /\ owner[s] = p /\ Running(p)
      /\ SendFile(p) /\ snd[p].pc = "loop"
  BY RunningHasStream DEF Loop, Running, Returned, IInv, SendFile
<1>2. seq \in Nat /\ TotalChunks \in Nat /\ AckBatch \in Nat \ {0}
  BY RelayFileAssumption DEF IInv, TypeOK, SndType, SndRecord
<1>3. ~UpLost(s) => /\ rcv[s].pc = "loop" /\ up[s] = <<>> /\ down[s] = <<>>
                    /\ rcv[s].pos = seq /\ rcv[s].ack = seq
  BY <1>1 DEF IInv, Aligned, AlignedOn
<1>4. UNCHANGED <<rcv, owner, down, rOpen, broken>>
  BY DEF Loop
<1>5. CASE Goto(p, "fin") /\ UNCHANGED <<up, sOpen>>
  <2>1. snd'[p].pc = "fin" /\ snd'[p].stream = s
    BY <1>5 DEF Goto, IInv, TypeOK, SndType, SndRecord
  <2>2. \A t \in Streams : UpShapeAt(t)'
    BY <1>4, <1>5, HandlersUntouched
  <2>3. ~UpLost(snd[p].stream)' => AlignedOn(p, snd[p].stream)'
    BY <1>3, <1>4, <1>5, <2>1 DEF UpLost, AlignedOn
  <2> QED
    BY <1>1, <1>4, <1>5, <2>1, <2>2, <2>3, SenderStep, ZenonT(60)
<1>6. CASE SendUp(s, Frame("CANCEL", 0)) /\ Return(p, "cancelled")
  <2>1. snd'[p].pc = "cancelled"
    BY <1>6 DEF Return, Goto, IInv, TypeOK, SndType, SndRecord
  <2>2. Frame("CANCEL", 0).t # "DATA"
    BY DEF Frame
  <2>3. \A t \in Streams : UpShapeAt(t)'
    BY <1>1, <1>3, <1>4, <1>6, <2>2, AppendShape
  <2> QED
    BY <1>1, <2>1, <2>3, SenderStep, Zenon DEF Running, Returned
<1>7. CASE /\ seq < TotalChunks
           /\ snd' = [snd EXCEPT ![p].pc = "data", ![p].end = BatchEnd(seq)]
           /\ UNCHANGED <<up, sOpen>>
  <2>1. /\ snd'[p].pc = "data" /\ snd'[p].stream = s
        /\ snd'[p].seq = seq /\ snd'[p].end = BatchEnd(seq)
    BY <1>7 DEF IInv, TypeOK, SndType, SndRecord
  <2>2. \A t \in Streams : UpShapeAt(t)'
    BY <1>4, <1>7, HandlersUntouched
  <2>3. seq < BatchEnd(seq)
    BY <1>2, <1>7 DEF BatchEnd
  <2>4. ~UpLost(s) => seq = rcv[s].pos + Len(up[s])
    BY <1>2, <1>3
  <2>5. ~UpLost(s) => \A i \in 1..Len(up[s]) : up[s][i].t = "DATA"
    BY <1>3
  <2>6. ~UpLost(s) => rcv[s].ack <= rcv[s].pos
    BY <1>2, <1>3
  <2>7. ~UpLost(snd[p].stream)' => ~UpLost(s)
    BY <1>4, <2>1 DEF UpLost
  <2>8. ~UpLost(snd[p].stream)' => AlignedOn(p, snd[p].stream)'
    BY <1>3, <1>4, <1>7, <2>1, <2>3, <2>4, <2>5, <2>6, <2>7, ZenonT(60) DEF AlignedOn
  <2> QED
    BY <1>1, <1>4, <1>7, <2>1, <2>2, <2>8, SenderStep, ZenonT(60)
<1> QED
  BY <1>5, <1>6, <1>7 DEF Loop

(* CANCEL follows the chunks in flight.                                    *)
LEMMA ReadFileFailsStep ==
  ASSUME IInv, NEW p \in Senders, ReadFileFails(p)
  PROVE  SenderStream' /\ UpShape' /\ Aligned'
<1> DEFINE s == snd[p].stream
<1>1. s \in Streams /\ Running(p) /\ SendFile(p) /\ snd[p].pc = "data"
  BY RunningHasStream DEF ReadFileFails, Running, Returned, IInv, SendFile
<1>2. ~UpLost(s) => rcv[s].pc = "loop"
  BY <1>1, ZenonT(60) DEF IInv, Aligned, AlignedOn
<1>3. snd'[p].pc = "failed"
  BY DEF ReadFileFails, Return, Goto, IInv, TypeOK, SndType, SndRecord
<1>4. Frame("CANCEL", 0).t # "DATA"
  BY DEF Frame
<1>5. \A t \in Streams : UpShapeAt(t)'
  BY <1>1, <1>2, <1>4, AppendShape DEF ReadFileFails
<1> QED
  BY <1>1, <1>3, <1>5, SenderStep DEF Running, Returned

(* The sender continues at the offset of ACCEPT.                           *)
LEMMA ReadAcceptStep ==
  ASSUME IInv, NEW p \in Senders, ReadAccept(p)
  PROVE  SenderStream' /\ UpShape' /\ Aligned'
<1> DEFINE s == snd[p].stream
<1>1. /\ s \in Streams /\ sOpen[s] /\ owner[s] = p /\ Running(p)
      /\ SendFile(p) /\ snd[p].pc = "accept"
  BY RunningHasStream, Zenon DEF ReadAccept, Running, Returned, IInv, SendFile
<1>2. UNCHANGED <<rcv, owner, up, rOpen, broken>>
  BY DEF ReadAccept
<1>3. CASE /\ Reads(p, "ACCEPT") /\ Consume(p) /\ UNCHANGED sOpen
           /\ snd' = [snd EXCEPT ![p].pc = "loop", ![p].seq = Head(down[s]).n]
  <2>1. snd'[p].pc = "loop" /\ snd'[p].stream = s /\ snd'[p].seq = Head(down[s]).n
    BY <1>3 DEF IInv, TypeOK, SndType, SndRecord
  <2>2. \A t \in Streams : UpShapeAt(t)'
    BY <1>2, HandlersUntouched
  <2>3. ~UpLost(s) => /\ rcv[s].pc = "loop" /\ up[s] = <<>> /\ rcv[s].ack = rcv[s].pos
                      /\ down[s] = <<Frame("ACCEPT", rcv[s].pos)>>
    BY <1>1, <1>3 DEF IInv, Aligned, AlignedOn, Reads
  <2>4. ~UpLost(s) => Head(down[s]).n = rcv[s].pos /\ down'[s] = <<>>
    <3> SUFFICES ASSUME ~UpLost(s)
                 PROVE  Head(down[s]).n = rcv[s].pos /\ down'[s] = <<>>
      OBVIOUS
    <3>1. Head(down[s]) = Frame("ACCEPT", rcv[s].pos)
      BY <2>3
    <3>2. down'[s] = Tail(down[s])
      BY <1>1, <1>3 DEF Consume, IInv, TypeOK, NetType
    <3>3. down[s] = <<Frame("ACCEPT", rcv[s].pos)>>
      BY <2>3
    <3>4. Tail(down[s]) = <<>>
      BY <3>3
    <3> QED
      BY <3>1, <3>2, <3>4 DEF Frame
  <2>5. ~UpLost(snd[p].stream)' => AlignedOn(p, snd[p].stream)'
    BY <1>2, <2>1, <2>3, <2>4 DEF UpLost, AlignedOn
  <2> QED
    BY <1>1, <1>2, <1>3, <2>1, <2>2, <2>5, SenderStep, ZenonT(60)
<1>4. CASE Return(p, "failed") /\ UNCHANGED down
  BY <1>1, <1>2, <1>4, ReturnStep DEF Returned
<1> QED
  BY <1>3, <1>4, Zenon DEF ReadAccept

(* An ACK leaves both sides at the end of the batch.                       *)
LEMMA ReadAckStep ==
  ASSUME IInv, NEW p \in Senders, ReadAck(p)
  PROVE  SenderStream' /\ UpShape' /\ Aligned'
<1> DEFINE s == snd[p].stream
           n == Head(down[s]).n + 1
<1>1. /\ s \in Streams /\ sOpen[s] /\ owner[s] = p /\ Running(p)
      /\ SendFile(p) /\ snd[p].pc = "ack"
  BY RunningHasStream DEF ReadAck, Running, Returned, IInv, SendFile
<1>2. UNCHANGED <<rcv, owner, up, rOpen, broken, sOpen>>
  BY DEF ReadAck
<1>3. snd'[p].pc = "loop" /\ snd'[p].stream = s /\ snd'[p].seq = n
  BY DEF ReadAck, IInv, TypeOK, SndType, SndRecord
<1>4. \A t \in Streams : UpShapeAt(t)'
  BY <1>2, HandlersUntouched
<1>5. ASSUME ~UpLost(s)
      PROVE  AlignedOn(p, snd[p].stream)'
  <2>1. /\ rcv[s].pc = "loop" /\ snd[p].seq = rcv[s].pos + Len(up[s])
        /\ snd[p].seq = snd[p].end
        /\ down[s] = <<Frame("ACK", snd[p].end - 1)>>
        /\ rcv[s].pos = snd[p].end /\ rcv[s].ack = snd[p].end
    BY <1>1, <1>5, ZenonT(60) DEF IInv, Aligned, AlignedOn, ReadAck, Reads
  <2>2. snd[p].end \in Nat /\ Len(up[s]) \in Nat /\ up[s] \in Seq(UpFrame)
    BY <1>1, RelayFileAssumption DEF IInv, TypeOK, SndType, SndRecord, NetType
  <2>3. up[s] = <<>>
    <3>1. Len(up[s]) = 0
      BY <2>1, <2>2
    <3> HIDE DEF s
    <3> QED
      BY <2>2, <3>1, EmptySeq
  <2>4. n = snd[p].end
    BY <2>1, <2>2 DEF Frame
  <2>5. down'[s] = <<>>
    BY <1>1, <2>1 DEF ReadAck, Consume, IInv, TypeOK, NetType
  <2> QED
    BY <1>2, <1>3, <2>1, <2>3, <2>4, <2>5 DEF AlignedOn
<1>6. UpLost(snd[p].stream)' = UpLost(s)
  BY <1>2, <1>3 DEF UpLost
<1> QED
  BY <1>1, <1>2, <1>3, <1>4, <1>5, <1>6, SenderStep

(* Reading DONE, or failing to, returns from SendFile.                     *)
LEMMA ReadDoneStep ==
  ASSUME IInv, NEW p \in Senders, ReadDone(p)
  PROVE  SenderStream' /\ UpShape' /\ Aligned'
BY ReturnStep, ZenonT(60) DEF ReadDone, SendFile, Returned

(* Cancelling SendFile only sets a flag.                                   *)
LEMMA CancelSendStep ==
  ASSUME IInv, NEW p \in Senders, CancelSend(p)
  PROVE  SenderStream' /\ UpShape' /\ Aligned'
<1>1. /\ snd'[p].pc = snd[p].pc /\ snd'[p].stream = snd[p].stream
      /\ snd'[p].seq = snd[p].seq /\ snd'[p].end = snd[p].end
  BY DEF CancelSend, IInv, TypeOK, SndType, SndRecord
<1>2. UNCHANGED <<rcv, owner, up, down, sOpen, rOpen, broken>>
  BY DEF CancelSend, netVars
<1>3. \A t \in Streams : UpShapeAt(t)'
  BY <1>2, HandlersUntouched
<1>4. Running(p)' => Running(p)
  BY <1>1 DEF Running
<1>5. Running(p) => (~UpLost(snd[p].stream)' => AlignedOn(p, snd[p].stream)')
  <2> SUFFICES ASSUME Running(p), ~UpLost(snd[p].stream)'
               PROVE  AlignedOn(p, snd[p].stream)'
    OBVIOUS
  <2>1. ~UpLost(snd[p].stream)
    BY <1>1, <1>2 DEF UpLost
  <2>2. AlignedOn(p, snd[p].stream)
    BY <2>1 DEF IInv, Aligned
  <2> QED
    BY <1>1, <1>2, <2>2, ZenonT(60) DEF AlignedOn
<1>6. Running(p) => /\ snd[p].stream \in Streams
                    /\ sOpen[snd[p].stream]
                    /\ owner[snd[p].stream] = p
  BY RunningHasStream DEF IInv
<1>7. snd[p].pc = "open" => snd[p].stream = None
  BY DEF IInv, SenderStream
<1> QED
  BY <1>1, <1>2, <1>3, <1>4, <1>5, <1>6, <1>7, SenderStep

-----------------------------------------------------------------------------
(* The handler's steps.                                                    *)

(* SenderStream, UpShape and Aligned after a step on stream s, from what   *)
(* the step does to s.                                                     *)
LEMMA ReceiverStep ==
  ASSUME IInv, NEW s \in Streams, HandleFileStream(s) \/ CancelRecv(s) \/ Break(s),
         UpShapeAt(s)',
         \A p \in Senders :
           Running(p) /\ snd[p].stream = s /\ ~UpLost(s)' => AlignedOn(p, s)'
  PROVE  SenderStream' /\ UpShape' /\ Aligned'
<1>1. UNCHANGED <<snd, owner, sOpen>> /\ \A t \in Streams \ {s} : Same(t)
  BY ReceiverFrame
<1>2. SenderStream'
  BY <1>1 DEF IInv, SenderStream, Running
<1>3. UpShape'
  BY <1>1, SameKeepsShape DEF IInv, UpShape
<1>4. ASSUME NEW p \in Senders, Running(p)', ~UpLost(snd[p].stream)'
      PROVE  AlignedOn(p, snd[p].stream)'
  <2>1. snd' = snd /\ Running(p)
    BY <1>1, <1>4 DEF Running
  <2>2. snd[p].stream \in Streams
    BY <2>1, RunningHasStream DEF IInv
  <2>3. CASE snd[p].stream = s
    <3>1. snd'[p].stream = s
      BY <2>1, <2>3
    <3>2. ~UpLost(s)'
      BY <1>4, <3>1 DEF UpLost
    <3>3. AlignedOn(p, s)'
      BY <2>1, <2>3, <3>2
    <3> QED
      BY <3>1, <3>3, Zenon DEF AlignedOn
  <2>4. CASE snd[p].stream # s
    <3>1. Same(snd[p].stream)
      BY <1>1, <2>2, <2>4
    <3> QED
      BY <1>4, <2>1, <3>1, SameKeepsAligned DEF IInv, Aligned
  <2> QED
    BY <2>3, <2>4
<1> QED
  BY <1>2, <1>3, <1>4 DEF Aligned

(* The handler returns: nothing reaches it any more.                       *)
LEMMA EndedStep ==
  ASSUME IInv, NEW s \in Streams, HandleFileStream(s),
         CleanupSession(s) \/ \E state \in {"none", rcv[s].state} : EndHandler(s, state)
  PROVE  SenderStream' /\ UpShape' /\ Aligned'
<1>1. rcv'[s].pc = "idle" /\ ~rOpen'[s]
  BY DEF CleanupSession, EndHandler, Idle, IInv, TypeOK, RcvType, NetType
<1>2. UpShapeAt(s)'
  BY <1>1 DEF UpShapeAt
<1>3. UpLost(s)'
  BY <1>1 DEF UpLost
<1> QED
  BY <1>2, <1>3, ReceiverStep

(* A sender whose handler is past its loop, or about to leave it on FIN,   *)
(* waits for DONE.                                                         *)
LEMMA OnlyDone ==
  ASSUME IInv, NEW s \in Streams, NEW p \in Senders,
         Running(p), snd[p].stream = s, ~UpLost(s),
         \/ rcv[s].pc \in {"verify", "rename", "finish"}
         \/ rcv[s].pc = "loop" /\ NextIs(s, "FIN")
  PROVE  snd[p].pc = "done"
<1>1. AlignedOn(p, s)
  BY DEF IInv, Aligned
<1>2. snd[p].pc \in {"init", "accept", "loop", "data", "ack", "fin", "done"}
  BY DEF IInv, TypeOK, SndType, SndRecord, Running
<1>3. NextIs(s, "FIN") => ~ \A i \in 1..Len(up[s]) : up[s][i].t = "DATA"
  <2> SUFFICES ASSUME NextIs(s, "FIN")
               PROVE  \E i \in 1..Len(up[s]) : up[s][i].t # "DATA"
    OBVIOUS
  <2>1. 1 \in 1..Len(up[s]) /\ Head(up[s]) = up[s][1]
    BY DEF NextIs, IInv, TypeOK, NetType
  <2> QED
    BY <2>1 DEF NextIs
<1>4. NextIs(s, "FIN") => up[s] # <<>>
  BY DEF NextIs
<1> QED
  BY <1>1, <1>2, <1>3, <1>4 DEF AlignedOn

(* Steps from FIN to DONE.                                                 *)
LEMMA FinishStep ==
  ASSUME IInv, NEW s \in Streams, HandleFileStream(s),
         \/ rcv[s].pc \in {"verify", "rename", "finish"}
         \/ rcv[s].pc = "loop" /\ NextIs(s, "FIN"),
         UNCHANGED <<rOpen, broken>>,
         rcv'[s].pc \in {"verify", "rename", "finish"}
  PROVE  SenderStream' /\ UpShape' /\ Aligned'
<1>1. rOpen'[s] /\ owner[s] \in Senders
  BY DEF IInv, UpShape, UpShapeAt
<1>2. UpShapeAt(s)'
  BY <1>1, ReceiverFrame DEF UpShapeAt
<1>3. ASSUME NEW p \in Senders, Running(p), snd[p].stream = s, ~UpLost(s)'
      PROVE  AlignedOn(p, s)'
  <2>1. snd[p].pc = "done"
    BY <1>3, OnlyDone DEF UpLost
  <2>2. snd'[p].pc = "done"
    BY <2>1, ReceiverFrame
  <2> QED
    BY <2>2 DEF AlignedOn
<1> QED
  BY <1>2, <1>3, ReceiverStep

(* What is left of a sequence of one element.                              *)
LEMMA TailOfSingle ==
  ASSUME NEW S, NEW q \in Seq(S), q # <<>>, Len(q) <= 1
  PROVE  Tail(q) = <<>>
<1>1. Len(q) \in Nat /\ Len(q) # 0
  OBVIOUS
<1>2. Len(q) = 1
  BY <1>1
<1>3. Len(Tail(q)) = 0 /\ Tail(q) \in Seq(S)
  BY <1>2
<1> QED
  BY <1>3

(* INIT is taken from an otherwise empty stream.                           *)
LEMMA RecvInitStep ==
  ASSUME IInv, NEW s \in Streams, RecvInit(s)
  PROVE  SenderStream' /\ UpShape' /\ Aligned'
<1>1. HandleFileStream(s) /\ rcv[s].pc = "init"
  BY DEF HandleFileStream, RecvInit
<1>2. CASE EndHandler(s, "none")
  BY <1>1, <1>2, EndedStep
<1>3. CASE NextIs(s, "INIT") /\ ConsumeUp(s) /\ UNCHANGED rOpen
           /\ \E r \in RcvRecord :
                /\ rcv' = [rcv EXCEPT ![s] = r]
                /\ \/ /\ r.pc = "accept" /\ r.ino \in Inodes
                      /\ r.bits = {i \in 0..(TotalChunks - 1) : i < r.pos}
                   \/ r.pc = "create" /\ r.pos = 0 /\ r.bits = {}
  <2>1. up'[s] = <<>>
    <3>1. up[s] \in Seq(UpFrame) /\ up[s] # <<>> /\ Len(up[s]) <= 1
      BY <1>1, <1>3 DEF NextIs, IInv, TypeOK, NetType, UpShape, UpShapeAt
    <3>3. Tail(up[s]) = <<>>
      BY <3>1, TailOfSingle
    <3> QED
      BY <1>3, <3>3 DEF ConsumeUp, IInv, TypeOK, NetType
  <2>2. /\ rcv'[s].pc \in {"accept", "create"}
        /\ rcv'[s].pc = "accept" => /\ rcv'[s].ino \in Inodes
                                    /\ rcv'[s].bits = {i \in 0..(TotalChunks - 1) : i < rcv'[s].pos}
        /\ rcv'[s].pc = "create" => rcv'[s].pos = 0 /\ rcv'[s].bits = {}
    BY <1>3 DEF IInv, TypeOK, RcvType
  <2>3. rOpen'[s] /\ owner'[s] \in Senders
    BY <1>1, <1>3, ReceiverFrame DEF IInv, UpShape, UpShapeAt
  <2>4. UpShapeAt(s)'
    BY <2>1, <2>2, <2>3 DEF UpShapeAt
  <2>5. ASSUME NEW p \in Senders, Running(p), snd[p].stream = s, ~UpLost(s)'
        PROVE  AlignedOn(p, s)'
    <3>1. ~UpLost(s) /\ UNCHANGED <<snd, down>>
      BY <1>3, <2>5 DEF UpLost, RecvInit
    <3>2. AlignedOn(p, s)
      BY <2>5, <3>1 DEF IInv, Aligned
    <3>3. up[s] # <<>>
      BY <1>3 DEF NextIs
    <3>4. snd[p].pc \notin {"init", "loop", "fin", "data", "ack"}
          /\ (snd[p].pc = "accept" => down[s] = <<>>)
      BY <1>1, <3>2, <3>3 DEF AlignedOn
    <3> QED
      BY <2>2, <3>1, <3>4 DEF AlignedOn
  <2> QED
    BY <1>1, <2>4, <2>5, ReceiverStep
<1>4. CASE RecvInit(s) /\ ~EndHandler(s, "none")
  <2>1. NextIs(s, "INIT") /\ ConsumeUp(s) /\ UNCHANGED rOpen
    BY <1>4 DEF RecvInit
  <2>2. PICK r : /\ rcv' = [rcv EXCEPT ![s] = r]
                 /\ \/ /\ tmp # None
                       /\ r = [Idle EXCEPT !.pc = "accept", !.ino = tmp,
                                 !.pos = Len(data[tmp]),
                                 !.bits = ReopenedChunks(Head(up[s]).n, Len(data[tmp]))]
                    \/ r = [Idle EXCEPT !.pc = "create"]
    BY <1>4, Zenon DEF RecvInit
  <2>3. CASE r = [Idle EXCEPT !.pc = "create"]
    <3>1. r \in RcvRecord /\ r.pc = "create" /\ r.pos = 0 /\ r.bits = {}
      BY <2>3 DEF RcvRecord, Idle
    <3> QED
      BY <1>3, <2>1, <2>2, <3>1, Zenon
  <2>4. CASE /\ tmp # None
             /\ r = [Idle EXCEPT !.pc = "accept", !.ino = tmp,
                       !.pos = Len(data[tmp]),
                       !.bits = ReopenedChunks(Head(up[s]).n, Len(data[tmp]))]
    <3>1. tmp \in Inodes /\ Len(data[tmp]) \in Nat
      BY <2>4 DEF IInv, TypeOK, DiskType
    <3>2. ReopenedChunks(Head(up[s]).n, Len(data[tmp]))
            = {i \in 0..(TotalChunks - 1) : i < Len(data[tmp])}
      BY DEF ReopenedChunks
    <3>3. ReopenedChunks(Head(up[s]).n, Len(data[tmp])) \in SUBSET Nat
      BY <3>2, RelayFileAssumption
    <3>4. /\ r.pc = "accept" /\ r.ino = tmp /\ r.pos = Len(data[tmp])
          /\ r.bits = ReopenedChunks(Head(up[s]).n, Len(data[tmp]))
      BY <2>4 DEF Idle
    <3>5. r \in RcvRecord
      BY <2>4, <3>1, <3>3, Zenon DEF Idle, RcvRecord
    <3> QED
      BY <1>3, <2>1, <2>2, <3>1, <3>2, <3>4, <3>5, ZenonT(60)
  <2> QED
    BY <2>2, <2>3, <2>4
<1> QED
  BY <1>2, <1>4

(* A new part file: the handler starts at chunk 0.                         *)
LEMMA CreatePartStep ==
  ASSUME IInv, NEW s \in Streams, CreatePart(s)
  PROVE  SenderStream' /\ UpShape' /\ Aligned'
<1>1. HandleFileStream(s) /\ rcv[s].pc = "create"
  BY DEF HandleFileStream, CreatePart
<1>2. CASE EndHandler(s, "none")
  BY <1>1, <1>2, EndedStep
<1>3. ASSUME NEW i \in Inodes, UNCHANGED <<rOpen, down>>,
             rcv' = [rcv EXCEPT ![s].pc = "accept", ![s].ino = i]
      PROVE  SenderStream' /\ UpShape' /\ Aligned'
  <2>1. rcv'[s].pc = "accept" /\ rcv'[s].ino \in Inodes
        /\ rcv'[s].pos = rcv[s].pos /\ rcv'[s].bits = rcv[s].bits
    BY <1>3 DEF IInv, TypeOK, RcvType, RcvRecord
  <2>2. /\ rOpen[s] /\ owner[s] \in Senders /\ up[s] = <<>>
        /\ rcv[s].pos = 0 /\ rcv[s].bits = {}
    BY <1>1 DEF IInv, UpShape, UpShapeAt
  <2>3. {} = {j \in 0..(TotalChunks - 1) : j < 0}
    BY RelayFileAssumption
  <2>4. UNCHANGED <<up, owner, broken, snd>>
    BY DEF CreatePart
  <2>5. UpShapeAt(s)'
    BY <1>3, <2>1, <2>2, <2>3, <2>4, ZenonT(60) DEF UpShapeAt
  <2>6. ASSUME NEW p \in Senders, Running(p), snd[p].stream = s, ~UpLost(s)'
        PROVE  AlignedOn(p, s)'
    <3>1. ~UpLost(s)
      BY <1>3, <2>4, <2>6 DEF UpLost
    <3>2. AlignedOn(p, s)
      BY <2>6, <3>1 DEF IInv, Aligned
    <3>3. snd[p].pc \notin {"init", "loop", "fin", "data", "ack"}
          /\ (snd[p].pc = "accept" => down[s] = <<>>)
      BY <1>1, <3>2, Zenon DEF AlignedOn
    <3> QED
      BY <1>3, <2>1, <2>4, <3>3 DEF AlignedOn
  <2> QED
    BY <1>1, <2>5, <2>6, ReceiverStep
<1> QED
  BY <1>2, <1>3 DEF CreatePart

(* ACCEPT tells the sender the position of the handler.                    *)
LEMMA WriteAcceptStep ==
  ASSUME IInv, NEW s \in Streams, WriteAccept(s)
  PROVE  SenderStream' /\ UpShape' /\ Aligned'
<1> DEFINE pos == rcv[s].pos
<1>1. HandleFileStream(s) /\ rcv[s].pc = "accept"
  BY DEF HandleFileStream, WriteAccept
<1>2. CASE EndHandler(s, "none")
  BY <1>1, <1>2, EndedStep
<1>3. CASE /\ SendDown(s, Frame("ACCEPT", pos))
           /\ rcv' = [rcv EXCEPT ![s].pc = "loop", ![s].pos = pos, ![s].ack = pos,
                                 ![s].state = "transfer"]
           /\ UNCHANGED rOpen
  <2>1. rcv'[s].pc = "loop" /\ rcv'[s].ino = rcv[s].ino
        /\ rcv'[s].pos = pos /\ rcv'[s].bits = rcv[s].bits /\ rcv'[s].ack = pos
    BY <1>3 DEF IInv, TypeOK, RcvType, RcvRecord
  <2>2. /\ rOpen[s] /\ owner[s] \in Senders /\ up[s] = <<>> /\ rcv[s].ino \in Inodes
        /\ rcv[s].bits = {j \in 0..(TotalChunks - 1) : j < pos}
    BY <1>1 DEF IInv, UpShape, UpShapeAt
  <2>3. UNCHANGED <<up, owner, broken, snd>>
    BY DEF WriteAccept
  <2>4. UpShapeAt(s)'
    <3>1. up'[s] = <<>> /\ 1..Len(up'[s]) = {}
      BY <2>2, <2>3, NoIndex
    <3>2. /\ rcv'[s].bits = {j \in 0..(TotalChunks - 1) : j < rcv'[s].pos}
          /\ rcv'[s].ino \in Inodes /\ rOpen'[s] /\ owner'[s] \in Senders
      BY <1>3, <2>1, <2>2, <2>3, Zenon
    <3> QED
      BY <2>1, <3>1, <3>2 DEF UpShapeAt
  <2>5. ASSUME NEW p \in Senders, Running(p), snd[p].stream = s, ~UpLost(s)'
        PROVE  AlignedOn(p, s)'
    <3>1. ~UpLost(s)
      BY <1>3, <2>3, <2>5 DEF UpLost
    <3>2. AlignedOn(p, s)
      BY <2>5, <3>1 DEF IInv, Aligned
    <3>3. snd[p].pc \notin {"init", "loop", "fin", "data", "ack"}
          /\ (snd[p].pc = "accept" => down[s] = <<>>)
      BY <1>1, <3>2, Zenon DEF AlignedOn
    <3>4. ~DownLost(s)
      BY <2>5, <3>1, RunningHasStream, Zenon DEF IInv, UpLost, DownLost
    <3>5. down[s] = <<>> => down'[s] = <<Frame("ACCEPT", pos)>>
      BY <1>3, <3>4 DEF SendDown, IInv, TypeOK, NetType
    <3> QED
      BY <2>1, <2>2, <2>3, <3>3, <3>5, ZenonT(60) DEF AlignedOn
  <2> QED
    BY <1>1, <2>4, <2>5, ReceiverStep
<1> QED
  BY <1>1, <1>2, <1>3, AcceptOffset, ZenonT(60) DEF WriteAccept, IInv

(* The receiver acknowledges exactly when it reaches the end of the        *)
(* sender's batch: the two batch computations agree (relayfile.go:346,     *)
(* 543).                                                                   *)
LEMMA DueAtBatchEnd ==
  ASSUME NEW pos \in Nat, NEW ack \in Nat, ack <= pos, pos < BatchEnd(ack)
  PROVE  AckDue(pos + 1, ack) <=> pos + 1 = BatchEnd(ack)
BY RelayFileAssumption DEF AckDue, BatchEnd

(* The frames after a DATA frame still carry the chunks from the new       *)
(* position on.                                                            *)
LEMMA ShiftedShape ==
  ASSUME IInv, NEW s \in Streams, rcv[s].pc = "loop", up[s] # <<>>, ConsumeUp(s)
  PROVE  /\ Len(up'[s]) = Len(up[s]) - 1
         /\ \A i \in 1..Len(up'[s]) :
              /\ i + 1 \in 1..Len(up[s]) /\ up'[s][i] = up[s][i + 1]
              /\ up'[s][i].t = "DATA" =>
                   /\ up'[s][i].n = rcv[s].pos + 1 + i - 1
                   /\ up'[s][i].n < TotalChunks
<1>1. up[s] \in Seq(UpFrame) /\ up'[s] = Tail(up[s])
  BY DEF ConsumeUp, IInv, TypeOK, NetType
<1>2. rcv[s].pos \in Nat
  BY DEF IInv, TypeOK, RcvType, RcvRecord
<1>3. Len(up'[s]) = Len(up[s]) - 1 /\ Len(up[s]) \in Nat
  BY <1>1
<1>4. ASSUME NEW i \in 1..Len(up'[s])
      PROVE  /\ i + 1 \in 1..Len(up[s]) /\ up'[s][i] = up[s][i + 1]
             /\ up'[s][i].t = "DATA" =>
                  up'[s][i].n = rcv[s].pos + 1 + i - 1 /\ up'[s][i].n < TotalChunks
  <2>1. i + 1 \in 1..Len(up[s]) /\ up'[s][i] = up[s][i + 1]
    BY <1>1, <1>3
  <2>2. up[s][i + 1].t = "DATA" =>
          up[s][i + 1].n = rcv[s].pos + (i + 1) - 1 /\ up[s][i + 1].n < TotalChunks
    BY <2>1 DEF IInv, UpShape, UpShapeAt
  <2>3. rcv[s].pos + (i + 1) - 1 = rcv[s].pos + 1 + i - 1
    BY <1>2, <1>3
  <2> QED
    BY <2>1, <2>2, <2>3
<1> QED
  BY <1>3, <1>4

(* A chunk is received; the ACK goes out with the last chunk of the batch  *)
(* the sender waits for.                                                   *)
LEMMA RecvDataShape ==
  ASSUME IInv, NEW s \in Streams, RecvData(s)
  PROVE  SenderStream' /\ UpShape' /\ Aligned'
<1> DEFINE r == rcv[s]
           due == AckDue(r.pos + 1, r.ack)
           bits == {i \in 0..(TotalChunks - 1) : i < r.pos + 1}
           ack == IF due THEN r.pos + 1 ELSE r.ack
<1>1. /\ HandleFileStream(s) /\ r.pc = "loop" /\ NextIs(s, "DATA") /\ ConsumeUp(s)
      /\ UNCHANGED <<snd, owner, sOpen, broken>>
  BY RecvDataStep, ZenonT(60) DEF HandleFileStream, IInv
<1>2. r.pos \in Nat /\ r.ack \in Nat /\ Len(up[s]) \in Nat
  BY DEF IInv, TypeOK, RcvType, RcvRecord, NetType
<1>3. CASE CleanupSession(s)
  BY <1>1, <1>3, EndedStep
<1>4. CASE /\ rcv' = [rcv EXCEPT ![s].bits = bits, ![s].pos = r.pos + 1, ![s].ack = ack]
           /\ IF due THEN SendDown(s, Frame("ACK", r.pos)) ELSE UNCHANGED down
           /\ UNCHANGED rOpen
  <2>1. /\ rcv'[s].pc = "loop" /\ rcv'[s].ino = r.ino /\ rcv'[s].bits = bits
        /\ rcv'[s].pos = r.pos + 1 /\ rcv'[s].ack = ack
    BY <1>1, <1>4, ZenonT(60) DEF IInv, TypeOK, RcvType, RcvRecord
  <2>2. rOpen[s] /\ owner[s] \in Senders /\ r.ino \in Inodes
    BY <1>1 DEF IInv, UpShape, UpShapeAt
  <2>3. /\ Len(up'[s]) = Len(up[s]) - 1
        /\ \A i \in 1..Len(up'[s]) :
             /\ i + 1 \in 1..Len(up[s]) /\ up'[s][i] = up[s][i + 1]
             /\ up'[s][i].t = "DATA" =>
                  up'[s][i].n = r.pos + 1 + i - 1 /\ up'[s][i].n < TotalChunks
    BY <1>1, ShiftedShape DEF NextIs
  <2>4. UpShapeAt(s)'
    <3> HIDE DEF ack
    <3> QED
      BY <1>1, <1>4, <2>1, <2>2, <2>3, ZenonT(60) DEF UpShapeAt
  <2>5. ASSUME NEW p \in Senders, Running(p), snd[p].stream = s, ~UpLost(s)'
        PROVE  AlignedOn(p, s)'
    <3> DEFINE q == snd[p]
    <3>1. ~UpLost(s)
      BY <1>1, <1>4, <2>5, ZenonT(60) DEF UpLost
    <3>2. AlignedOn(p, s)
      BY <2>5, <3>1 DEF IInv, Aligned
    <3>3. up[s] # <<>> /\ Len(up[s]) > 0
      BY <1>1 DEF NextIs, IInv, TypeOK, NetType
    <3>4. q.pc \notin {"init", "accept", "loop", "fin"}
      BY <1>1, <3>2, <3>3, ZenonT(60) DEF AlignedOn
    <3>5. q.seq \in Nat /\ q.end \in Nat
      BY RelayFileAssumption DEF IInv, TypeOK, SndType, SndRecord
    <3>6. ASSUME q.pc \in {"data", "ack"}
          PROVE  /\ q.seq = r.pos + Len(up[s]) /\ r.ack <= r.pos
                 /\ \A i \in 1..Len(up[s]) : up[s][i].t = "DATA"
      BY <3>2, <3>6, Zenon DEF AlignedOn
    <3>7. ASSUME q.pc \in {"data", "ack"}
          PROVE  /\ q.seq = r.pos + 1 + Len(up'[s])
                 /\ ack <= r.pos + 1
                 /\ \A i \in 1..Len(up'[s]) : up'[s][i].t = "DATA"
      <4>1. q.seq = r.pos + Len(up[s]) /\ r.ack <= r.pos
        BY <3>6, <3>7
      <4>2. q.seq = r.pos + 1 + Len(up'[s])
        <5>1. Len(up'[s]) = Len(up[s]) - 1
          BY <2>3
        <5> QED
          BY <1>2, <4>1, <5>1, SMTT(30)
      <4>3. ack <= r.pos + 1
        BY <1>2, <4>1
      <4>4. \A i \in 1..Len(up'[s]) : up'[s][i].t = "DATA"
        BY <2>3, <3>6, <3>7
      <4> QED
        BY <4>2, <4>3, <4>4, ZenonT(60)
    <3>8. ASSUME q.pc = "data"
          PROVE  ~due /\ down'[s] = <<>> /\ q.seq < q.end /\ q.end = BatchEnd(r.ack)
      <4>1. down[s] = <<>> /\ q.seq < q.end /\ q.end = BatchEnd(r.ack)
        BY <3>2, <3>8 DEF AlignedOn
      <4>2. q.seq = r.pos + Len(up[s]) /\ r.ack <= r.pos
        BY <3>6, <3>8
      <4>3. r.pos < BatchEnd(r.ack) /\ r.pos + 1 # BatchEnd(r.ack)
        <5>1. ASSUME NEW a \in Nat, NEW l \in Nat, l > 0, NEW e \in Nat, a + l < e
              PROVE  a < e /\ a + 1 # e
          BY <5>1
        <5> QED
          BY <1>2, <3>3, <3>5, <4>1, <4>2, <5>1
      <4>4. ~due
        BY <1>2, <4>2, <4>3, DueAtBatchEnd
      <4> QED
        BY <1>4, <4>1, <4>4, Zenon
    <3>9. ASSUME q.pc = "ack"
          PROVE  /\ q.seq = q.end
                 /\ \/ /\ ~due /\ down'[s] = <<>>
                       /\ r.pos + 1 < q.end /\ q.end = BatchEnd(r.ack)
                    \/ /\ due /\ down'[s] = <<Frame("ACK", r.pos)>>
                       /\ r.pos + 1 = q.end
      <4>1. q.seq = r.pos + Len(up[s]) /\ r.ack <= r.pos /\ q.seq = q.end
        BY <3>2, <3>6, <3>9 DEF AlignedOn
      <4>2. down[s] = <<>> /\ r.pos < q.end /\ q.end = BatchEnd(r.ack)
        <5>1. r.pos # q.end
          BY <1>2, <3>3, <3>5, <4>1
        <5> QED
          BY <3>2, <3>9, <5>1 DEF AlignedOn
      <4>3. due <=> r.pos + 1 = q.end
        BY <1>2, <4>1, <4>2, DueAtBatchEnd
      <4>4. CASE due
        <5>1. ~DownLost(s)
          BY <2>5, <3>1, RunningHasStream DEF IInv, UpLost, DownLost
        <5>2. SendDown(s, Frame("ACK", r.pos))
          BY <1>4, <4>4, ZenonT(60)
        <5>3. down'[s] = <<Frame("ACK", r.pos)>>
          BY <4>2, <5>1, <5>2 DEF SendDown, IInv, TypeOK, NetType
        <5> QED
          BY <4>1, <4>3, <4>4, <5>3
      <4>5. CASE ~due
        <5>1. r.pos + 1 < q.end
          BY <1>2, <3>5, <4>2, <4>3, <4>5
        <5> QED
          BY <1>4, <4>1, <4>2, <4>5, <5>1, ZenonT(60)
      <4> QED
        BY <4>4, <4>5, ZenonT(60)
    <3>10. r.pos + 1 = q.end => r.pos = q.end - 1
      BY <1>2, <3>5
    <3>11. snd' = snd
      BY <1>1
    <3> HIDE DEF due, bits
    <3>12. CASE q.pc = "data"
      BY <2>1, <3>7, <3>8, <3>11, <3>12 DEF AlignedOn
    <3>13. CASE q.pc = "ack"
      BY <2>1, <3>7, <3>9, <3>10, <3>11, <3>13 DEF AlignedOn
    <3>14. CASE q.pc \notin {"data", "ack"}
      BY <3>4, <3>11, <3>14 DEF AlignedOn
    <3> QED
      BY <3>12, <3>13, <3>14
  <2> QED
    BY <1>1, <2>4, <2>5, ReceiverStep
<1> QED
  BY <1>3, <1>4, RecvDataStep, Zenon DEF IInv

(* The steps that end a handler or lead from FIN to DONE.                  *)
LEMMA RecvTailStep ==
  ASSUME IInv, NEW s \in Streams,
         \/ WriteFails(s) \/ RecvEnds(s) \/ RecvFin(s)
         \/ Verify(s) \/ Rename(s) \/ WriteDone(s)
  PROVE  SenderStream' /\ UpShape' /\ Aligned'
<1>1. HandleFileStream(s)
  BY DEF HandleFileStream
<1>2. CASE CleanupSession(s)
  BY <1>1, <1>2, EndedStep, ZenonT(60)
<1>3. CASE WriteDone(s)
  BY <1>1, <1>3, EndedStep DEF WriteDone
<1>4. ASSUME NEW pc \in {"verify", "rename", "finish"}, rcv'[s].pc = pc,
             UNCHANGED <<rOpen, broken>>,
             \/ rcv[s].pc \in {"verify", "rename", "finish"}
             \/ rcv[s].pc = "loop" /\ NextIs(s, "FIN")
      PROVE  SenderStream' /\ UpShape' /\ Aligned'
  BY <1>1, <1>4, FinishStep
<1>5. CASE RecvFin(s)
  <2>1. rcv'[s].pc = "verify"
    BY <1>5 DEF RecvFin, IInv, TypeOK, RcvType, RcvRecord
  <2> QED
    BY <1>4, <1>5, <2>1 DEF RecvFin
<1>6. CASE Verify(s) /\ VerifyFileHash(s)
  <2>1. rcv'[s].pc = "rename"
    BY <1>6 DEF Verify, IInv, TypeOK, RcvType, RcvRecord
  <2> QED
    BY <1>4, <1>6, <2>1 DEF Verify
<1>7. CASE Rename(s) /\ tmp # None
  <2>1. rcv'[s].pc = "finish"
    BY <1>7 DEF Rename, IInv, TypeOK, RcvType, RcvRecord
  <2> QED
    BY <1>4, <1>7, <2>1 DEF Rename
<1> QED
  BY <1>2, <1>3, <1>5, <1>6, <1>7 DEF WriteFails, RecvEnds, Verify, Rename

(* Cancelling a receiving session changes its state only.                  *)
LEMMA CancelRecvStep ==
  ASSUME IInv, NEW s \in Streams, CancelRecv(s)
  PROVE  SenderStream' /\ UpShape' /\ Aligned'
<1>1. UNCHANGED <<snd, owner, up, down, rOpen, broken>>
  BY DEF CancelRecv, netVars
<1>2. /\ rcv'[s].pc = rcv[s].pc /\ rcv'[s].pos = rcv[s].pos /\ rcv'[s].bits = rcv[s].bits
      /\ rcv'[s].ino = rcv[s].ino /\ rcv'[s].ack = rcv[s].ack
  BY DEF CancelRecv, IInv, TypeOK, RcvType, RcvRecord
<1>3. UpShapeAt(s)'
  <2>1. UpShapeAt(s)
    BY DEF IInv, UpShape
  <2> QED
    BY <1>1, <1>2, <2>1 DEF UpShapeAt
<1>4. ASSUME NEW p \in Senders, Running(p), snd[p].stream = s, ~UpLost(s)'
      PROVE  AlignedOn(p, s)'
  <2>1. ~UpLost(s)
    BY <1>1, <1>4, Zenon DEF UpLost
  <2>2. AlignedOn(p, s)
    BY <1>4, <2>1 DEF IInv, Aligned
  <2> QED
    BY <1>1, <1>2, <2>2, Zenon DEF AlignedOn
<1> QED
  BY <1>3, <1>4, ReceiverStep

(* A lost connection leaves a prefix of the frames in flight.              *)
LEMMA BreakStep ==
  ASSUME IInv, NEW s \in Streams, Break(s)
  PROVE  SenderStream' /\ UpShape' /\ Aligned'
<1>1. PICK n \in 0..Len(up[s]) : up' = [up EXCEPT ![s] = SubSeq(@, 1, n)]
  BY ZenonT(60) DEF Break
<1>2. up[s] \in Seq(UpFrame) /\ up'[s] = SubSeq(up[s], 1, n)
  BY <1>1 DEF IInv, TypeOK, NetType
<1>3. Len(up'[s]) = n /\ n <= Len(up[s]) /\ \A i \in 1..n : i \in 1..Len(up[s]) /\ up'[s][i] = up[s][i]
  BY <1>1, <1>2
<1>4. up[s] = <<>> => up'[s] = <<>>
  BY <1>1, <1>2
<1>5. UNCHANGED <<rcv, owner, rOpen>> /\ broken'[s]
  BY DEF Break, IInv, TypeOK, NetType
<1>6. UpShapeAt(s)'
  <2>1. UpShapeAt(s)
    BY DEF IInv, UpShape
  <2>2. Len(up[s]) <= 1 => Len(up'[s]) <= 1
    BY <1>1, <1>2, <1>3
  <2>3. rcv[s].pc = "loop" =>
          \A i \in 1..Len(up'[s]) : up'[s][i].t = "DATA" =>
            up'[s][i].n = rcv[s].pos + i - 1 /\ up'[s][i].n < TotalChunks
    BY <1>3, <2>1 DEF UpShapeAt
  <2> QED
    BY <1>4, <1>5, <2>1, <2>2, <2>3 DEF UpShapeAt
<1>7. UpLost(s)'
  BY <1>5 DEF UpLost
<1> QED
  BY <1>6, <1>7, ReceiverStep

(* A restart of the receiver cuts every stream.                            *)
LEMMA CrashStep ==
  ASSUME IInv, Crash
  PROVE  SenderStream' /\ UpShape' /\ Aligned'
<1>1. SenderStream'
  BY DEF Crash, IInv, SenderStream, Running
<1>2. UpShape'
  BY DEF Crash, UpShape, UpShapeAt, Idle
<1>3. ASSUME NEW p \in Senders, Running(p)'
      PROVE  UpLost(snd[p].stream)'
  <2>1. snd'[p].stream \in Streams
    BY <1>1, <1>3 DEF SenderStream
  <2> QED
    BY <2>1 DEF Crash, UpLost
<1> QED
  BY <1>1, <1>2, <1>3 DEF Aligned

(* A step that leaves sessions and streams alone.                          *)
LEMMA StutterStep ==
  ASSUME IInv, UNCHANGED <<snd, rcv, owner, up, down, sOpen, rOpen, broken>>
  PROVE  SenderStream' /\ UpShape' /\ Aligned'
<1>1. SenderStream'
  BY DEF IInv, SenderStream, Running
<1>2. UpShape'
  BY DEF IInv, UpShape, UpShapeAt
<1>3. ASSUME NEW p \in Senders, Running(p)', ~UpLost(snd[p].stream)'
      PROVE  AlignedOn(p, snd[p].stream)'
  <2>1. Running(p) /\ Same(snd[p].stream)
    BY <1>3, Zenon DEF Running, Same
  <2> QED
    BY <1>3, <2>1, SameKeepsAligned DEF IInv, Aligned
<1> QED
  BY <1>1, <1>2, <1>3 DEF Aligned

-----------------------------------------------------------------------------
(* The invariant is inductive.                                             *)
LEMMA NextIInv == IInv /\ [Next]_vars => IInv'
<1> SUFFICES ASSUME IInv, [Next]_vars
             PROVE  IInv'
  OBVIOUS
<1>1. TypeOK'
  BY NextType
<1>2. SenderStream' /\ UpShape' /\ Aligned'
  <2>1. ASSUME NEW p \in Senders, SendFile(p) \/ CancelSend(p)
        PROVE  SenderStream' /\ UpShape' /\ Aligned'
    BY <2>1, OpenStep, WriteInitStep, ReadAcceptStep, LoopStep, WriteDataStep, ReadFileFailsStep,
       ReadAckStep, ResumeStep, WriteFinStep, ReadDoneStep, CancelSendStep DEF SendFile
  <2>2. ASSUME NEW s \in Streams, HandleFileStream(s) \/ CancelRecv(s) \/ Break(s)
        PROVE  SenderStream' /\ UpShape' /\ Aligned'
    BY <2>2, RecvInitStep, CreatePartStep, WriteAcceptStep, RecvDataShape, RecvTailStep,
       CancelRecvStep, BreakStep DEF HandleFileStream
  <2>3. CASE SendBack \/ CancelBack \/ Poll \/ LoadSession \/ UNCHANGED vars
    BY <2>3, StutterStep DEF SendBack, CancelBack, Poll, LoadSession, vars, netVars
  <2> QED
    BY <2>1, <2>2, <2>3, CrashStep DEF Next, Finished
<1> QED
  BY <1>1, <1>2 DEF IInv

(* The inductive invariant of the file transfer: the handler's bitmap and  *)
(* file position, the frames in flight and the sender's batch agree.       *)
THEOREM Invariance == Spec => []IInv
BY InitIInv, NextIInv, PTL DEF Spec

(* Every variable keeps its type: the sender never computes a batch past   *)
(* the last chunk and the receiver never acknowledges chunk -1.            *)
THEOREM TypeCorrect == Spec => []TypeOK
<1>1. IInv => TypeOK
  BY DEF IInv
<1> QED
  BY <1>1, Invariance, PTL

(* SendFile waiting for an ACK and HandleFileStream waiting for DATA never *)
(* wait for each other, for every file size, batch size and resume offset. *)
THEOREM NeverMutualWait == Spec => []NoMutualWait
<1>1. IInv => NoMutualWait
  <2> SUFFICES ASSUME IInv, NEW p \in Senders, snd[p].pc = "ack",
                      up[snd[p].stream] = <<>>, down[snd[p].stream] = <<>>,
                      rOpen[snd[p].stream], ~broken[snd[p].stream]
               PROVE  FALSE
    BY ZenonT(60) DEF NoMutualWait
  <2> DEFINE s == snd[p].stream
  <2>1. Running(p) /\ s \in Streams
    BY RunningHasStream DEF IInv, Running, Returned
  <2>2. AlignedOn(p, s)
    BY <2>1 DEF IInv, Aligned, UpLost
  <2>3. snd[p].seq = rcv[s].pos + Len(up[s]) /\ snd[p].seq = snd[p].end
    BY <2>2, ZenonT(60) DEF AlignedOn
  <2>4. down[s] # <<Frame("ACK", snd[p].end - 1)>>
    OBVIOUS
  <2>5. rcv[s].pos < snd[p].end
    BY <2>2, <2>4, ZenonT(60) DEF AlignedOn
  <2>6. rcv[s].pos \in Nat
    BY <2>1 DEF IInv, TypeOK, RcvType, RcvRecord
  <2>7. Len(up[s]) = 0
    BY NoIndex
  <2> HIDE DEF s
  <2> QED
    BY <2>3, <2>5, <2>6, <2>7
<1> QED
  BY <1>1, Invariance, PTL

=============================================================================
