------------------------ MODULE RelayFileTypeProofs ------------------------
(* Type correctness of RelayFile: every step keeps TypeOK, given the rest  *)
(* of the inductive invariant (used in RelayFileProofs).                   *)
EXTENDS RelayFile, TLAPS

\* The provers tried, in this order, on a leaf that names none.
USE SMTT(20), ZenonT(20), SMTT(30), SMTT(60)

(* bitmapMaxContinuous of the bitmap of a prefix is its length.            *)
LEMMA MaxContinuousOfPrefix ==
  ASSUME NEW pos \in Nat
  PROVE  MaxContinuous({i \in 0..(TotalChunks - 1) : i < pos})
           = IF pos < TotalChunks THEN pos ELSE TotalChunks
<1> DEFINE m == IF pos < TotalChunks THEN pos ELSE TotalChunks
           bits == {i \in 0..(TotalChunks - 1) : i < pos}
           First(k) == /\ \A i \in 0..(k - 1) : i \in bits
                       /\ k = TotalChunks \/ k \notin bits
<1>1. TotalChunks \in Nat
  BY RelayFileAssumption
<1>2. m \in 0..TotalChunks /\ First(m)
  BY <1>1
<1>3. \A k \in 0..TotalChunks : First(k) => k = m
  <2> SUFFICES ASSUME NEW k \in 0..TotalChunks, First(k)
               PROVE  k = m
    OBVIOUS
  <2>1. CASE k < m
    BY <1>1, <2>1
  <2>2. CASE m < k
    <3>1. m \in 0..(k - 1)
      BY <1>1, <1>2, <2>2
    <3>2. m \in bits
      BY <3>1, Zenon
    <3> QED
      BY <1>1, <1>2, <2>2, <3>2
  <2> QED
    BY <1>1, <1>2, <2>1, <2>2
<1> HIDE DEF m, bits, First
<1>4. (CHOOSE k \in 0..TotalChunks : First(k)) = m
  BY <1>2, <1>3
<1> QED
  BY <1>4 DEF MaxContinuous, m, bits, First

(* A chunk written into a file of chunks leaves a file of chunks.          *)
LEMMA WriteAtType ==
  ASSUME NEW d \in Seq(Chunk), NEW pos \in Nat, NEW chunk \in Chunk
  PROVE  WriteAt(d, pos, chunk) \in Seq(Chunk)
<1> DEFINE n == IF pos >= Len(d) THEN pos + 1 ELSE Len(d)
           e(i) == IF i = pos + 1 THEN chunk
                   ELSE IF i <= Len(d) THEN d[i] ELSE <<"hole", 0>>
<1>1. n \in Nat
  OBVIOUS
<1>2. \A i \in 1..n : e(i) \in Chunk
  <2>1. <<"hole", 0>> \in Chunk
    BY DEF Chunk
  <2> QED
    BY <2>1
<1> HIDE DEF n, e
<1>3. [i \in 1..n |-> e(i)] \in Seq(Chunk)
  BY <1>1, <1>2
<1> QED
  BY <1>3 DEF WriteAt, n, e

-----------------------------------------------------------------------------
(* Type correctness of the sender's steps.                                 *)

(* Returning from SendFile keeps the types of its locals and stream ends.  *)
LEMMA ReturnType ==
  ASSUME SndType, NetType, NEW p \in Senders, NEW result \in Returned, Return(p, result)
  PROVE  SndType' /\ sOpen' \in [Streams -> BOOLEAN]
<1>1. SndType'
  BY DEF Return, Goto, SndType, SndRecord
<1>2. sOpen' \in [Streams -> BOOLEAN]
  BY Zenon DEF Return, NetType
<1> QED
  BY <1>1, <1>2

(* A new stream keeps the types of the network and of the handlers.        *)
LEMMA ConnectType ==
  ASSUME RcvType, NetType, NEW p \in Senders, NEW s \in Streams,
         NEW open \in [Streams -> BOOLEAN], Connect(p, s, open)
  PROVE  RcvType' /\ NetType'
<1>1. RcvType'
  <2>1. [Idle EXCEPT !.pc = "init"] \in RcvRecord
    BY DEF Idle, RcvRecord
  <2> QED
    BY <2>1 DEF Connect, RcvType
<1>2. NetType'
  BY DEF Connect, NetType
<1> QED
  BY <1>1, <1>2

(* Spending a fault keeps the budget within its bounds.                    *)
LEMMA FaultType ==
  ASSUME NodeType, Fault, UNCHANGED <<stored, waiter>>
  PROVE  NodeType'
BY RelayFileAssumption DEF Fault, NodeType

(* Opening the first stream keeps the types.                               *)
LEMMA OpenType ==
  ASSUME TypeOK, NEW p \in Senders, Open(p)
  PROVE  TypeOK'
<1>1. DiskType'
  BY DEF Open, DiskType, TypeOK, diskVars
<1>2. CASE \E s \in Streams : /\ Connect(p, s, sOpen)
                              /\ snd' = [snd EXCEPT ![p].pc = "init", ![p].stream = s]
                              /\ UNCHANGED budget
  <2> PICK s \in Streams : /\ Connect(p, s, sOpen)
                           /\ snd' = [snd EXCEPT ![p].pc = "init", ![p].stream = s]
    BY <1>2, Zenon
  <2>1. SndType'
    <3>1. ASSUME NEW r \in SndRecord
          PROVE  [r EXCEPT !.pc = "init", !.stream = s] \in SndRecord
      BY Zenon DEF SndRecord
    <3> QED
      BY <3>1, Zenon DEF SndType, TypeOK
  <2>2. RcvType' /\ NetType'
    BY ConnectType DEF TypeOK, NetType
  <2>3. NodeType'
    BY <1>2 DEF Open, TypeOK, NodeType
  <2> QED
    BY <1>1, <2>1, <2>2, <2>3 DEF TypeOK
<1>3. CASE /\ \/ Fault
              \/ snd[p].cancelled /\ UNCHANGED budget
           /\ Return(p, "failed")
           /\ UNCHANGED <<rcv, owner, up, down, rOpen, broken>>
  <2>1. SndType' /\ sOpen' \in [Streams -> BOOLEAN]
    BY <1>3, ReturnType DEF TypeOK, Returned
  <2>2. RcvType' /\ NetType'
    BY <1>3, <2>1 DEF TypeOK, RcvType, NetType
  <2>3. NodeType'
    BY <1>3, FaultType DEF Open, TypeOK, NodeType
  <2> QED
    BY <1>1, <2>1, <2>2, <2>3 DEF TypeOK
<1> QED
  BY <1>2, <1>3 DEF Open

(* Writing a frame keeps the types when frame and locals have theirs.      *)
LEMMA WriteFrameType ==
  ASSUME TypeOK, NEW p \in Senders, snd[p].stream \in Streams, NEW f \in UpFrame,
         NEW next \in [Senders -> SndRecord], WriteFrame(p, f, next)
  PROVE  TypeOK'
<1> DEFINE s == snd[p].stream
<1>1. RcvType' /\ DiskType' /\ NodeType'
  BY DEF WriteFrame, TypeOK, RcvType, DiskType, NodeType, diskVars
<1>2. CASE SendUp(s, f) /\ snd' = next /\ UNCHANGED sOpen
  <2>1. up' \in [Streams -> Seq(UpFrame)]
    BY <1>2 DEF SendUp, TypeOK, NetType
  <2>2. NetType'
    BY <1>2, <2>1 DEF WriteFrame, TypeOK, NetType
  <2>3. SndType'
    BY <1>2 DEF SndType
  <2> QED
    BY <1>1, <2>2, <2>3 DEF TypeOK
<1>3. CASE Return(p, "failed") /\ UNCHANGED up
  <2>1. SndType' /\ sOpen' \in [Streams -> BOOLEAN]
    BY <1>3, ReturnType DEF TypeOK, Returned
  <2>2. NetType'
    BY <1>3, <2>1 DEF WriteFrame, TypeOK, NetType
  <2> QED
    BY <1>1, <2>1, <2>2 DEF TypeOK
<1> QED
  BY <1>2, <1>3 DEF WriteFrame

(* A running SendFile works on a stream.                                   *)
LEMMA RunningHasStream ==
  ASSUME SenderStream, NEW p \in Senders, Running(p)
  PROVE  snd[p].stream \in Streams /\ sOpen[snd[p].stream] /\ owner[snd[p].stream] = p
BY DEF SenderStream

(* INIT, DATA and FIN keep the types: a chunk number stays a number.       *)
LEMMA WritesType ==
  ASSUME TypeOK, SenderStream, NEW p \in Senders,
         WriteInit(p) \/ WriteData(p) \/ WriteFin(p)
  PROVE  TypeOK'
<1>1. snd[p].stream \in Streams
  BY RunningHasStream DEF WriteInit, WriteData, WriteFin, Running, Returned
<1>2. snd[p] \in SndRecord /\ snd[p].seq \in Nat
  BY DEF TypeOK, SndType, SndRecord
<1>3. CASE WriteInit(p)
  <2>1. Frame("INIT", snd[p].seq) \in UpFrame
    BY <1>2 DEF Frame, UpFrame
  <2>2. [snd EXCEPT ![p].pc = "accept"] \in [Senders -> SndRecord]
    BY DEF TypeOK, SndType, SndRecord
  <2> QED
    BY <1>1, <1>3, <2>1, <2>2, WriteFrameType, Zenon DEF WriteInit
<1>4. CASE WriteData(p)
  <2> DEFINE seq == snd[p].seq
             next == [snd EXCEPT ![p].seq = seq + 1,
                        ![p].pc = IF seq + 1 = snd[p].end THEN "ack" ELSE "data"]
  <2>1. Frame("DATA", seq) \in UpFrame
    BY <1>2 DEF Frame, UpFrame
  <2>2. next \in [Senders -> SndRecord]
    <3>1. ASSUME NEW r \in SndRecord, NEW n \in Nat, NEW c \in {"ack", "data"}
          PROVE  [r EXCEPT !.seq = n, !.pc = c] \in SndRecord
      BY Zenon DEF SndRecord
    <3>2. seq + 1 \in Nat
      BY <1>2
    <3> QED
      BY <3>1, <3>2, Zenon DEF TypeOK, SndType
  <2>3. WriteFrame(p, Frame("DATA", seq), next)
    BY <1>4 DEF WriteData
  <2> QED
    BY <1>1, <2>1, <2>2, <2>3, WriteFrameType, Zenon
<1>5. CASE WriteFin(p)
  <2>1. Frame("FIN", 0) \in UpFrame
    BY DEF Frame, UpFrame
  <2>2. [snd EXCEPT ![p].pc = "done"] \in [Senders -> SndRecord]
    BY DEF TypeOK, SndType, SndRecord
  <2> QED
    BY <1>1, <1>5, <2>1, <2>2, WriteFrameType, Zenon DEF WriteFin
<1> QED
  BY <1>3, <1>4, <1>5

(* The frame read from a stream, and what is left on it.                   *)
LEMMA ConsumeType ==
  ASSUME NetType, NEW p \in Senders, snd[p].stream \in Streams,
         down[snd[p].stream] # <<>>, Consume(p)
  PROVE  /\ Head(down[snd[p].stream]).n \in Nat
         /\ down' \in [Streams -> Seq(DownFrame)]
<1> DEFINE d == down[snd[p].stream]
<1>1. d \in Seq(DownFrame)
  BY DEF NetType
<1>2. Head(d) \in DownFrame /\ Tail(d) \in Seq(DownFrame)
  BY <1>1
<1> QED
  BY <1>2 DEF Consume, NetType, DownFrame

(* The two ways of leaving a read: with the frame expected, or failing.    *)
LEMMA ReadsType ==
  ASSUME TypeOK, SenderStream, NEW p \in Senders,
         ReadAccept(p) \/ ReadAck(p) \/ ReadDone(p)
  PROVE  TypeOK'
<1> DEFINE s == snd[p].stream
<1>1. s \in Streams
  BY RunningHasStream, Zenon DEF ReadAccept, ReadAck, ReadDone, Running, Returned
<1>2. RcvType' /\ DiskType'
  BY ZenonT(60) DEF ReadAccept, ReadAck, ReadDone, TypeOK, RcvType, DiskType, diskVars
<1>3. NodeType'
  BY FaultType DEF ReadAccept, ReadAck, ReadDone, ReadFails, TypeOK, NodeType
<1>4. CASE /\ down[s] # <<>> /\ Consume(p)
           /\ UNCHANGED <<rcv, owner, up, rOpen, broken>>
           /\ \/ /\ snd' = [snd EXCEPT ![p].pc = "loop", ![p].seq = Head(down[s]).n]
                 /\ UNCHANGED sOpen
              \/ /\ snd' = [snd EXCEPT ![p].pc = "loop", ![p].seq = Head(down[s]).n + 1,
                                       ![p].acked = Head(down[s]).n + 1]
                 /\ UNCHANGED sOpen
              \/ Return(p, "ok")
  <2>1. /\ Head(down[s]).n \in Nat
        /\ down' \in [Streams -> Seq(DownFrame)]
    BY <1>1, <1>4, ConsumeType DEF TypeOK
  <2>2. SndType' /\ sOpen' \in [Streams -> BOOLEAN]
    <3>1. CASE Return(p, "ok")
      BY <3>1, ReturnType DEF TypeOK, Returned
    <3>2. CASE /\ snd' = [snd EXCEPT ![p].pc = "loop", ![p].seq = Head(down[s]).n]
               /\ UNCHANGED sOpen
      <4>1. ASSUME NEW r \in SndRecord, NEW n \in Nat
            PROVE  [r EXCEPT !.pc = "loop", !.seq = n] \in SndRecord
        BY Zenon DEF SndRecord
      <4> QED
        BY <2>1, <3>2, <4>1, Zenon DEF TypeOK, NetType, SndType
    <3>3. CASE /\ snd' = [snd EXCEPT ![p].pc = "loop", ![p].seq = Head(down[s]).n + 1,
                                     ![p].acked = Head(down[s]).n + 1]
               /\ UNCHANGED sOpen
      <4>1. ASSUME NEW r \in SndRecord, NEW n \in Nat
            PROVE  [r EXCEPT !.pc = "loop", !.seq = n, !.acked = n] \in SndRecord
        BY Zenon DEF SndRecord
      <4>2. Head(down[s]).n + 1 \in Nat
        BY <2>1
      <4> QED
        BY <3>3, <4>1, <4>2, Zenon DEF TypeOK, NetType, SndType
    <3> QED
      BY <1>4, <3>1, <3>2, <3>3
  <2>3. NetType'
    BY <1>4, <2>1, <2>2 DEF TypeOK, NetType
  <2> QED
    BY <1>2, <1>3, <2>2, <2>3 DEF TypeOK
<1>5. CASE Return(p, "failed") /\ UNCHANGED <<owner, up, down, rOpen, broken>>
  <2>1. SndType' /\ sOpen' \in [Streams -> BOOLEAN]
    BY <1>5, ReturnType DEF TypeOK, Returned
  <2>2. NetType'
    BY <1>5, <2>1 DEF TypeOK, NetType
  <2> QED
    BY <1>2, <1>3, <2>1, <2>2 DEF TypeOK
<1> QED
  BY <1>4, <1>5, Zenon DEF ReadAccept, ReadAck, ReadDone, Reads

(* The head of the transfer loop keeps the types: a batch never ends after *)
(* the last chunk.                                                         *)
LEMMA LoopType ==
  ASSUME TypeOK, SenderStream, NEW p \in Senders, Loop(p)
  PROVE  TypeOK'
<1> DEFINE s == snd[p].stream
<1>1. s \in Streams
  BY RunningHasStream DEF Loop, Running, Returned
<1>2. RcvType' /\ DiskType' /\ NodeType'
  BY DEF Loop, TypeOK, RcvType, DiskType, NodeType, diskVars
<1>3. CASE Goto(p, "fin") /\ UNCHANGED <<up, sOpen>>
  <2>1. SndType'
    BY <1>3 DEF Goto, TypeOK, SndType, SndRecord
  <2> QED
    BY <1>2, <1>3, <2>1 DEF Loop, TypeOK, NetType
<1>4. CASE SendUp(s, Frame("CANCEL", 0)) /\ Return(p, "cancelled")
  <2>1. SndType' /\ sOpen' \in [Streams -> BOOLEAN]
    BY <1>4, ReturnType DEF TypeOK, Returned
  <2>2. Frame("CANCEL", 0) \in UpFrame
    BY DEF Frame, UpFrame
  <2>3. up' \in [Streams -> Seq(UpFrame)]
    BY <1>1, <1>4, <2>2 DEF SendUp, TypeOK, NetType
  <2> QED
    BY <1>2, <2>1, <2>3 DEF Loop, TypeOK, NetType
<1>5. CASE /\ snd[p].seq < TotalChunks
           /\ snd' = [snd EXCEPT ![p].pc = "data", ![p].end = BatchEnd(snd[p].seq)]
           /\ UNCHANGED <<up, sOpen>>
  <2>1. BatchEnd(snd[p].seq) \in 0..TotalChunks
    BY RelayFileAssumption DEF BatchEnd, TypeOK, SndType, SndRecord
  <2>2. SndType'
    <3>1. ASSUME NEW r \in SndRecord, NEW n \in 0..TotalChunks
          PROVE  [r EXCEPT !.pc = "data", !.end = n] \in SndRecord
      BY Zenon DEF SndRecord
    <3> QED
      BY <1>5, <2>1, <3>1, Zenon DEF TypeOK, SndType
  <2> QED
    BY <1>2, <1>5, <2>2 DEF Loop, TypeOK, NetType
<1> QED
  BY <1>3, <1>4, <1>5 DEF Loop

(* A read error of the source file keeps the types.                        *)
LEMMA ReadFileFailsType ==
  ASSUME TypeOK, SenderStream, NEW p \in Senders, ReadFileFails(p)
  PROVE  TypeOK'
<1>1. snd[p].stream \in Streams
  BY RunningHasStream DEF ReadFileFails, Running, Returned
<1>2. RcvType' /\ DiskType' /\ NodeType'
  BY FaultType DEF ReadFileFails, TypeOK, RcvType, DiskType, diskVars
<1>3. SndType' /\ sOpen' \in [Streams -> BOOLEAN]
  BY ReturnType DEF ReadFileFails, TypeOK, Returned
<1>4. Frame("CANCEL", 0) \in UpFrame
  BY DEF Frame, UpFrame
<1>5. up' \in [Streams -> Seq(UpFrame)]
  BY <1>1, <1>4 DEF ReadFileFails, SendUp, TypeOK, NetType
<1> QED
  BY <1>2, <1>3, <1>5 DEF ReadFileFails, TypeOK, NetType

(* A resume keeps the types.                                               *)
LEMMA ResumeType ==
  ASSUME TypeOK, SenderStream, NEW p \in Senders, Resume(p)
  PROVE  TypeOK'
<1> DEFINE s == snd[p].stream
           closed == [sOpen EXCEPT ![s] = FALSE]
<1>1. closed \in [Streams -> BOOLEAN]
  BY Zenon DEF TypeOK, NetType
<1>2. DiskType'
  BY Zenon DEF Resume, TypeOK, DiskType, diskVars
<1>3. NodeType'
  BY FaultType, Zenon DEF Resume, ReadFails, TypeOK, NodeType
<1>4. ASSUME NEW t \in Streams, Connect(p, t, closed),
             snd' = [snd EXCEPT ![p].pc = "init", ![p].stream = t, ![p].resumed = TRUE]
      PROVE  TypeOK'
  <2>1. SndType'
    <3>1. ASSUME NEW r \in SndRecord
          PROVE  [r EXCEPT !.pc = "init", !.stream = t, !.resumed = TRUE] \in SndRecord
      BY Zenon DEF SndRecord
    <3> QED
      BY <1>4, <3>1, Zenon DEF TypeOK, SndType
  <2>2. RcvType' /\ NetType'
    BY <1>1, <1>4, ConnectType, Zenon DEF TypeOK
  <2> QED
    BY <1>2, <1>3, <2>1, <2>2 DEF TypeOK
<1>5. CASE /\ Goto(p, "failed") /\ sOpen' = closed
           /\ UNCHANGED <<rcv, owner, up, down, rOpen, broken>>
  <2>1. SndType'
    BY <1>5 DEF Goto, TypeOK, SndType, SndRecord, Returned
  <2>2. RcvType' /\ NetType'
    BY <1>1, <1>5 DEF TypeOK, RcvType, NetType
  <2> QED
    BY <1>2, <1>3, <2>1, <2>2 DEF TypeOK
<1> QED
  BY <1>4, <1>5, Zenon DEF Resume

(* Cancelling SendFile keeps the types.                                    *)
LEMMA CancelSendType ==
  ASSUME TypeOK, NEW p \in Senders, CancelSend(p)
  PROVE  TypeOK'
<1>1. SndType'
  <2>1. ASSUME NEW r \in SndRecord
        PROVE  [r EXCEPT !.cancelled = TRUE] \in SndRecord
    BY Zenon DEF SndRecord
  <2> QED
    BY <2>1 DEF CancelSend, SndType, TypeOK
<1>2. NodeType'
  BY RelayFileAssumption DEF CancelSend, NodeType, TypeOK
<1>3. RcvType' /\ NetType' /\ DiskType'
  BY DEF CancelSend, RcvType, NetType, DiskType, TypeOK, netVars, diskVars
<1> QED
  BY <1>1, <1>2, <1>3 DEF TypeOK

-----------------------------------------------------------------------------
(* Type correctness of the receiver's steps.                               *)

(* A handler that returns keeps the types.                                 *)
LEMMA EndHandlerType ==
  ASSUME RcvType, NetType, NEW s \in Streams,
         NEW state \in {"none", "transfer", "done", "error", "cancelled"},
         EndHandler(s, state)
  PROVE  RcvType' /\ rOpen' \in [Streams -> BOOLEAN]
<1>1. [Idle EXCEPT !.state = state] \in RcvRecord
  BY DEF Idle, RcvRecord
<1>2. RcvType'
  BY <1>1 DEF EndHandler, RcvType
<1>3. rOpen' \in [Streams -> BOOLEAN]
  BY DEF EndHandler, NetType
<1> QED
  BY <1>2, <1>3

(* cleanupSession keeps the types.                                         *)
LEMMA CleanupType ==
  ASSUME TypeOK, NEW s \in Streams, CleanupSession(s)
  PROVE  /\ RcvType'
         /\ rOpen' \in [Streams -> BOOLEAN]
         /\ tmp' \in Inodes \cup {None}
         /\ stored' \subseteq Streams
<1>1. rcv[s].state \in {"none", "transfer", "done", "error", "cancelled"}
  BY DEF TypeOK, RcvType, RcvRecord
<1>2. tmp' \in Inodes \cup {None} /\ stored' \subseteq Streams
  BY DEF CleanupSession, TypeOK, DiskType, NodeType
<1>3. EndHandler(s, rcv[s].state) \/ EndHandler(s, "error")
  BY DEF CleanupSession
<1> QED
  BY <1>1, <1>2, <1>3, EndHandlerType DEF TypeOK

(* A well-formed answer keeps the type of the answers in flight.           *)
LEMMA SendDownType ==
  ASSUME NetType, NEW s \in Streams, NEW f \in DownFrame, SendDown(s, f)
  PROVE  down' \in [Streams -> Seq(DownFrame)]
BY DEF NetType, SendDown

(* The frame a handler reads, and what is left on the stream.              *)
LEMMA ConsumeUpType ==
  ASSUME NetType, NEW s \in Streams, up[s] # <<>>, ConsumeUp(s)
  PROVE  /\ Head(up[s]).n \in Nat
         /\ up' \in [Streams -> Seq(UpFrame)]
<1>1. up[s] \in Seq(UpFrame)
  BY DEF NetType
<1>2. Head(up[s]) \in UpFrame /\ Tail(up[s]) \in Seq(UpFrame)
  BY <1>1
<1> QED
  BY <1>2 DEF ConsumeUp, NetType, UpFrame

(* A DATA frame carries the chunk at the file position.                    *)
LEMMA DataIsNext ==
  ASSUME TypeOK, UpShape, NEW s \in Streams, rcv[s].pc = "loop", NextIs(s, "DATA")
  PROVE  LET n == Head(up[s]).n
             bits == rcv[s].bits \cup {n} IN
         /\ n = rcv[s].pos /\ n < TotalChunks /\ n \notin rcv[s].bits
         /\ bits = {i \in 0..(TotalChunks - 1) : i < rcv[s].pos + 1}
         /\ MaxContinuous(bits) = rcv[s].pos + 1
<1> DEFINE n == Head(up[s]).n
           pos == rcv[s].pos
           bits == rcv[s].bits \cup {n}
<1>1. up[s] \in Seq(UpFrame) /\ up[s] # <<>> /\ Head(up[s]) = up[s][1] /\ 1 \in 1..Len(up[s])
  BY DEF NextIs, TypeOK, NetType
<1>2. pos \in Nat /\ TotalChunks \in Nat
  BY RelayFileAssumption DEF TypeOK, RcvType, RcvRecord
<1>3. n = pos + 1 - 1 /\ n < TotalChunks
  BY <1>1 DEF UpShape, UpShapeAt, NextIs
<1>4. n = pos
  BY <1>2, <1>3
<1>5. rcv[s].bits = {i \in 0..(TotalChunks - 1) : i < pos}
  BY DEF UpShape, UpShapeAt
<1>6. bits = {i \in 0..(TotalChunks - 1) : i < pos + 1}
  BY <1>2, <1>3, <1>4, <1>5
<1>7. MaxContinuous(bits) = pos + 1
  <2>1. pos + 1 \in Nat /\ (IF pos + 1 < TotalChunks THEN pos + 1 ELSE TotalChunks) = pos + 1
    BY <1>2, <1>3, <1>4
  <2>2. MaxContinuous({i \in 0..(TotalChunks - 1) : i < pos + 1})
          = IF pos + 1 < TotalChunks THEN pos + 1 ELSE TotalChunks
    BY <2>1, MaxContinuousOfPrefix
  <2> HIDE DEF bits, n, pos
  <2> QED
    BY <1>6, <2>1, <2>2
<1> QED
  BY <1>2, <1>3, <1>4, <1>5, <1>6, <1>7

(* Reading INIT keeps the types, also when a part file is reopened.        *)
LEMMA RecvInitType ==
  ASSUME TypeOK, NEW s \in Streams, RecvInit(s)
  PROVE  TypeOK'
<1>1. SndType' /\ DiskType' /\ NodeType'
  BY DEF RecvInit, TypeOK, SndType, DiskType, NodeType, diskVars
<1>2. CASE UpEnded(s) /\ EndHandler(s, "none") /\ UNCHANGED up
  <2>1. RcvType' /\ rOpen' \in [Streams -> BOOLEAN]
    BY <1>2, EndHandlerType DEF TypeOK
  <2> QED
    BY <1>1, <1>2, <2>1 DEF RecvInit, TypeOK, NetType
<1>3. CASE NextIs(s, "INIT") /\ ConsumeUp(s) /\ UNCHANGED rOpen
  <2> DEFINE size == Len(data[tmp])
             offset == Head(up[s]).n
             opened == [Idle EXCEPT !.pc = "accept", !.ino = tmp, !.pos = size,
                                    !.bits = ReopenedChunks(offset, size)]
             created == [Idle EXCEPT !.pc = "create"]
  <2>1. up' \in [Streams -> Seq(UpFrame)]
    BY <1>3, ConsumeUpType DEF TypeOK, NextIs
  <2>2. created \in RcvRecord
    BY DEF Idle, RcvRecord
  <2>3. ASSUME tmp # None
        PROVE  opened \in RcvRecord
    <3>1. size \in Nat
      BY <2>3 DEF TypeOK, DiskType
    <3>2. ReopenedChunks(offset, size) \in SUBSET Nat
      BY RelayFileAssumption DEF ReopenedChunks
    <3> HIDE DEF size
    <3> QED
      BY <3>1, <3>2, Zenon DEF Idle, RcvRecord, TypeOK, DiskType
  <2>4. rcv' = [rcv EXCEPT ![s] = IF offset > 0 /\ tmp # None THEN opened ELSE created]
    BY <1>3 DEF RecvInit, UpEnded, NextIs
  <2> HIDE DEF opened, created
  <2>5. RcvType'
    BY <2>2, <2>3, <2>4 DEF TypeOK, RcvType
  <2> QED
    BY <1>1, <1>3, <2>1, <2>5 DEF RecvInit, TypeOK, NetType
<1> QED
  BY <1>2, <1>3 DEF RecvInit

(* Creating the part file keeps the types.                                 *)
LEMMA CreatePartType ==
  ASSUME TypeOK, NEW s \in Streams, CreatePart(s)
  PROVE  TypeOK'
<1>1. SndType'
  BY DEF CreatePart, TypeOK, SndType
<1>2. ASSUME NEW i \in Inodes,
             tmp' = i, data' = [data EXCEPT ![i] = <<>>],
             rcv' = [rcv EXCEPT ![s].pc = "accept", ![s].ino = i],
             UNCHANGED <<rOpen, down, budget>>
      PROVE  TypeOK'
  <2>1. RcvType'
    <3>1. ASSUME NEW r \in RcvRecord
          PROVE  [r EXCEPT !.pc = "accept", !.ino = i] \in RcvRecord
      BY Zenon DEF RcvRecord
    <3> QED
      BY <1>2, <3>1, Zenon DEF TypeOK, RcvType
  <2>2. DiskType'
    BY <1>2 DEF CreatePart, TypeOK, DiskType
  <2>3. NetType' /\ NodeType'
    BY <1>2 DEF CreatePart, TypeOK, NetType, NodeType
  <2> QED
    BY <1>1, <2>1, <2>2, <2>3 DEF TypeOK
<1>3. CASE /\ Fault /\ SendDown(s, Frame("REJECT", 0))
           /\ EndHandler(s, "none") /\ UNCHANGED <<tmp, data>>
  <2>1. Frame("REJECT", 0) \in DownFrame
    BY DEF Frame, DownFrame
  <2>2. /\ RcvType' /\ rOpen' \in [Streams -> BOOLEAN]
        /\ down' \in [Streams -> Seq(DownFrame)]
    BY <1>3, <2>1, EndHandlerType, SendDownType DEF TypeOK
  <2>3. NodeType'
    BY <1>3, FaultType DEF CreatePart, TypeOK
  <2>4. NetType' /\ DiskType'
    BY <1>3, <2>2 DEF CreatePart, TypeOK, NetType, DiskType
  <2> QED
    BY <1>1, <2>2, <2>3, <2>4 DEF TypeOK
<1> QED
  BY <1>2, <1>3 DEF CreatePart

(* The offset of ACCEPT is the file position.                              *)
LEMMA AcceptOffset ==
  ASSUME TypeOK, UpShape, NEW s \in Streams, rcv[s].pc = "accept"
  PROVE  LET resume == MaxContinuous(rcv[s].bits) IN
         (IF resume > rcv[s].pos THEN resume ELSE rcv[s].pos) = rcv[s].pos
<1>1. rcv[s].pos \in Nat /\ TotalChunks \in Nat
  BY RelayFileAssumption DEF TypeOK, RcvType, RcvRecord
<1>2. rcv[s].bits = {i \in 0..(TotalChunks - 1) : i < rcv[s].pos}
  BY DEF UpShape, UpShapeAt
<1> QED
  BY <1>1, <1>2, MaxContinuousOfPrefix

(* Writing ACCEPT keeps the types.                                         *)
LEMMA WriteAcceptType ==
  ASSUME TypeOK, UpShape, NEW s \in Streams, WriteAccept(s)
  PROVE  TypeOK'
<1> DEFINE pos == rcv[s].pos
<1>1. SndType'
  BY DEF WriteAccept, TypeOK, SndType
<1>2. pos \in Nat
  BY DEF TypeOK, RcvType, RcvRecord
<1>3. CASE /\ SendDown(s, Frame("ACCEPT", pos))
           /\ rcv' = [rcv EXCEPT ![s].pc = "loop", ![s].pos = pos, ![s].ack = pos,
                                 ![s].state = "transfer"]
           /\ stored' = stored \cup {s}
           /\ UNCHANGED <<rOpen, tmp>>
  <2>1. Frame("ACCEPT", pos) \in DownFrame
    BY <1>2 DEF Frame, DownFrame
  <2>2. down' \in [Streams -> Seq(DownFrame)]
    BY <1>3, <2>1, SendDownType DEF TypeOK
  <2>3. RcvType'
    <3>1. ASSUME NEW r \in RcvRecord, NEW n \in Nat
          PROVE  [r EXCEPT !.pc = "loop", !.pos = n, !.ack = n, !.state = "transfer"]
                   \in RcvRecord
      BY ZenonT(60) DEF RcvRecord
    <3> QED
      BY <1>2, <1>3, <3>1, Zenon DEF TypeOK, RcvType
  <2>4. NetType' /\ DiskType' /\ NodeType'
    BY <1>3, <2>2 DEF WriteAccept, TypeOK, NetType, DiskType, NodeType
  <2> QED
    BY <1>1, <2>3, <2>4 DEF TypeOK
<1>4. CASE /\ EndHandler(s, "none") /\ tmp' = None /\ UNCHANGED <<stored, down>>
  <2>1. RcvType' /\ rOpen' \in [Streams -> BOOLEAN]
    BY <1>4, EndHandlerType DEF TypeOK
  <2>2. NetType' /\ DiskType' /\ NodeType'
    BY <1>4, <2>1 DEF WriteAccept, TypeOK, NetType, DiskType, NodeType
  <2> QED
    BY <1>1, <2>1, <2>2 DEF TypeOK
<1> QED
  BY <1>3, <1>4, AcceptOffset, ZenonT(60) DEF WriteAccept

(* What RecvData does, given that the frame carries the next chunk.        *)
LEMMA RecvDataStep ==
  ASSUME TypeOK, UpShape, NEW s \in Streams, RecvData(s)
  PROVE  LET r == rcv[s]
             due == AckDue(r.pos + 1, r.ack) IN
         /\ r.pc = "loop" /\ NextIs(s, "DATA") /\ ConsumeUp(s)
         /\ data' = [data EXCEPT ![r.ino] = WriteAt(@, r.pos, <<Checksum(s), r.pos>>)]
         /\ \/ /\ rcv' = [rcv EXCEPT
                            ![s].bits = {i \in 0..(TotalChunks - 1) : i < r.pos + 1},
                            ![s].pos = r.pos + 1,
                            ![s].ack = IF due THEN r.pos + 1 ELSE r.ack]
               /\ IF due THEN SendDown(s, Frame("ACK", r.pos)) ELSE UNCHANGED down
               /\ UNCHANGED <<rOpen, tmp, stored>>
            \/ CleanupSession(s) /\ UNCHANGED down
         /\ UNCHANGED <<snd, owner, sOpen, broken, final, waiter, budget>>
<1>1. rcv[s].pc = "loop" /\ NextIs(s, "DATA")
  BY DEF RecvData
<1>2. rcv[s].pos \in Nat /\ rcv[s].pos + 1 - 1 = rcv[s].pos
  BY DEF TypeOK, RcvType, RcvRecord
<1> DEFINE r == rcv[s]
           n == Head(up[s]).n
           bits == r.bits \cup {n}
           newSeq == MaxContinuous(bits)
<1>3. /\ n = r.pos /\ n \notin r.bits
      /\ bits = {i \in 0..(TotalChunks - 1) : i < r.pos + 1}
      /\ newSeq = r.pos + 1
  BY <1>1, DataIsNext
<1>4. data' = [data EXCEPT ![r.ino] = WriteAt(@, r.pos, <<Checksum(s), r.pos>>)]
  BY <1>3, Zenon DEF RecvData
<1> DEFINE Effect(b, pos, q, cs) ==
             \/ /\ rcv' = [rcv EXCEPT ![s].bits = b, ![s].pos = pos,
                                      ![s].ack = IF AckDue(q, r.ack) THEN q ELSE r.ack]
                /\ IF AckDue(q, r.ack) THEN SendDown(s, Frame("ACK", cs)) ELSE UNCHANGED down
                /\ UNCHANGED <<rOpen, tmp, stored>>
             \/ CleanupSession(s) /\ UNCHANGED down
<1>5. Effect(bits, IF n \notin r.bits THEN r.pos + 1 ELSE r.pos, newSeq, newSeq - 1)
  BY Zenon DEF RecvData
<1>6. Effect({i \in 0..(TotalChunks - 1) : i < r.pos + 1}, r.pos + 1, r.pos + 1, r.pos)
  <2> HIDE DEF Effect, bits, n, newSeq
  <2>1. newSeq - 1 = r.pos
    BY <1>2, <1>3
  <2> QED
    BY <1>3, <1>5, <2>1
<1>7. ConsumeUp(s) /\ UNCHANGED <<snd, owner, sOpen, broken, final, waiter, budget>>
  BY DEF RecvData
<1> QED
  BY <1>1, <1>4, <1>6, <1>7, Zenon

(* Receiving a chunk keeps the types: an ACK carries at least 0.           *)
LEMMA RecvDataType ==
  ASSUME TypeOK, UpShape, NEW s \in Streams, RecvData(s)
  PROVE  TypeOK'
<1> DEFINE r == rcv[s]
           due == AckDue(r.pos + 1, r.ack)
           bits == {i \in 0..(TotalChunks - 1) : i < r.pos + 1}
           ack == IF due THEN r.pos + 1 ELSE r.ack
<1>1. /\ r.pc = "loop" /\ NextIs(s, "DATA") /\ ConsumeUp(s)
      /\ data' = [data EXCEPT ![r.ino] = WriteAt(@, r.pos, <<Checksum(s), r.pos>>)]
      /\ UNCHANGED <<snd, owner, sOpen, broken, final, waiter, budget>>
  BY RecvDataStep, Zenon
<1>2. r.pos \in Nat /\ r.ack \in Nat /\ ack \in Nat /\ bits \in SUBSET Nat
  BY RelayFileAssumption DEF TypeOK, RcvType, RcvRecord
<1>3. SndType'
  BY <1>1 DEF TypeOK, SndType
<1>4. up' \in [Streams -> Seq(UpFrame)]
  BY <1>1, ConsumeUpType DEF TypeOK, NextIs
<1>5. data' \in [Inodes -> Seq(Chunk)]
  <2>1. rcv[s].ino \in Inodes /\ owner[s] \in Senders
    BY <1>1 DEF UpShape, UpShapeAt
  <2>2. <<Checksum(s), r.pos>> \in Chunk
    BY <1>2, <2>1 DEF Checksum, Chunk
  <2> QED
    BY <1>1, <1>2, <2>1, <2>2, WriteAtType, ZenonT(60) DEF TypeOK, DiskType
<1>6. CASE /\ rcv' = [rcv EXCEPT ![s].bits = bits, ![s].pos = r.pos + 1, ![s].ack = ack]
           /\ IF due THEN SendDown(s, Frame("ACK", r.pos)) ELSE UNCHANGED down
           /\ UNCHANGED <<rOpen, tmp, stored>>
  <2>1. RcvType'
    <3>1. ASSUME NEW q \in RcvRecord, NEW b \in SUBSET Nat, NEW n \in Nat, NEW a \in Nat
          PROVE  [q EXCEPT !.bits = b, !.pos = n, !.ack = a] \in RcvRecord
      BY Zenon DEF RcvRecord
    <3>2. r.pos + 1 \in Nat
      BY <1>2
    <3> HIDE DEF bits, ack
    <3> QED
      BY <1>2, <1>6, <3>1, <3>2, Zenon DEF TypeOK, RcvType
  <2>2. Frame("ACK", r.pos) \in DownFrame
    BY <1>2 DEF Frame, DownFrame
  <2>3. down' \in [Streams -> Seq(DownFrame)]
    BY <1>6, <2>2, SendDownType, Zenon DEF TypeOK, NetType
  <2>4. NetType' /\ DiskType' /\ NodeType'
    BY <1>1, <1>4, <1>5, <1>6, <2>3, Zenon DEF TypeOK, NetType, DiskType, NodeType
  <2> QED
    BY <1>3, <2>1, <2>4 DEF TypeOK
<1>7. CASE CleanupSession(s) /\ UNCHANGED down
  <2>1. /\ RcvType' /\ rOpen' \in [Streams -> BOOLEAN]
        /\ tmp' \in Inodes \cup {None} /\ stored' \subseteq Streams
    BY <1>7, CleanupType
  <2>2. NetType' /\ DiskType' /\ NodeType'
    BY <1>1, <1>4, <1>5, <1>7, <2>1, ZenonT(60) DEF TypeOK, NetType, DiskType, NodeType
  <2> QED
    BY <1>3, <2>1, <2>2 DEF TypeOK
<1> QED
  BY <1>6, <1>7, RecvDataStep, Zenon

(* Steps that only end the session, perhaps with an ERROR frame.           *)
LEMMA EndsType ==
  ASSUME TypeOK, NEW s \in Streams, CleanupSession(s),
         up' = up \/ (up[s] # <<>> /\ ConsumeUp(s)),
         down' = down \/ SendDown(s, Frame("ERROR", 0)),
         budget' = budget \/ Fault,
         UNCHANGED <<snd, owner, sOpen, broken, final, data, waiter>>
  PROVE  TypeOK'
<1>1. /\ RcvType' /\ rOpen' \in [Streams -> BOOLEAN]
      /\ tmp' \in Inodes \cup {None} /\ stored' \subseteq Streams
  BY CleanupType
<1>2. Frame("ERROR", 0) \in DownFrame
  BY DEF Frame, DownFrame
<1>3. down' \in [Streams -> Seq(DownFrame)]
  BY <1>2, SendDownType DEF TypeOK, NetType
<1>4. up' \in [Streams -> Seq(UpFrame)]
  BY ConsumeUpType DEF TypeOK, NetType
<1>5. NodeType'
  BY <1>1, RelayFileAssumption DEF Fault, TypeOK, NodeType
<1> QED
  BY <1>1, <1>3, <1>4, <1>5 DEF TypeOK, SndType, NetType, DiskType

(* The steps after the loop, and cancelling a session, keep the types.     *)
LEMMA RecvTailType ==
  ASSUME TypeOK, NEW s \in Streams,
         \/ WriteFails(s) \/ RecvEnds(s) \/ RecvFin(s) \/ Verify(s)
         \/ Rename(s) \/ WriteDone(s) \/ CancelRecv(s)
  PROVE  TypeOK'
<1>1. CASE WriteFails(s)
  BY <1>1, EndsType DEF WriteFails, NextIs
<1>2. CASE RecvEnds(s)
  BY <1>2, EndsType DEF RecvEnds, NextIs
<1>3. CASE RecvFin(s)
  <2>1. RcvType'
    <3>1. ASSUME NEW r \in RcvRecord
          PROVE  [r EXCEPT !.pc = "verify", !.ino = None] \in RcvRecord
      BY Zenon DEF RcvRecord
    <3> QED
      BY <1>3, <3>1, Zenon DEF RecvFin, TypeOK, RcvType
  <2>2. up' \in [Streams -> Seq(UpFrame)]
    BY <1>3, ConsumeUpType DEF RecvFin, NextIs, TypeOK
  <2> QED
    BY <1>3, <2>1, <2>2 DEF RecvFin, TypeOK, SndType, NetType, DiskType, NodeType, diskVars
<1>4. CASE Verify(s)
  <2>1. CASE rcv' = [rcv EXCEPT ![s].pc = "rename"] /\ UNCHANGED <<down, rOpen, tmp, stored>>
    <3>1. RcvType'
      BY <2>1 DEF TypeOK, RcvType, RcvRecord
    <3> QED
      BY <1>4, <2>1, <3>1 DEF Verify, TypeOK, SndType, NetType, DiskType, NodeType
  <2>2. CASE SendDown(s, Frame("ERROR", 0)) /\ CleanupSession(s)
    BY <1>4, <2>2, EndsType DEF Verify
  <2> QED
    BY <1>4, <2>1, <2>2 DEF Verify
<1>5. CASE Rename(s)
  <2>1. CASE /\ final' = tmp /\ tmp' = None
             /\ rcv' = [rcv EXCEPT ![s].pc = "finish", ![s].state = "done"]
             /\ UNCHANGED <<down, rOpen, stored>>
    <3>1. RcvType'
      <4>1. ASSUME NEW r \in RcvRecord
            PROVE  [r EXCEPT !.pc = "finish", !.state = "done"] \in RcvRecord
        BY Zenon DEF RcvRecord
      <4> QED
        BY <2>1, <4>1, Zenon DEF TypeOK, RcvType
    <3> QED
      BY <1>5, <2>1, <3>1 DEF Rename, TypeOK, SndType, NetType, DiskType, NodeType
  <2>2. CASE SendDown(s, Frame("ERROR", 0)) /\ CleanupSession(s) /\ UNCHANGED final
    BY <1>5, <2>2, EndsType DEF Rename
  <2> QED
    BY <1>5, <2>1, <2>2 DEF Rename
<1>6. CASE WriteDone(s)
  <2>1. rcv[s].state \in {"none", "transfer", "done", "error", "cancelled"}
    BY DEF TypeOK, RcvType, RcvRecord
  <2>2. RcvType' /\ rOpen' \in [Streams -> BOOLEAN]
    BY <1>6, <2>1, EndHandlerType DEF WriteDone, TypeOK
  <2>3. Frame("DONE", 0) \in DownFrame
    BY DEF Frame, DownFrame
  <2>4. down' \in [Streams -> Seq(DownFrame)]
    BY <1>6, <2>3, SendDownType DEF WriteDone, TypeOK, NetType
  <2>5. NodeType'
    BY <1>6 DEF WriteDone, TypeOK, NodeType
  <2> QED
    BY <1>6, <2>2, <2>4, <2>5, ZenonT(60) DEF WriteDone, TypeOK, SndType, NetType, DiskType, diskVars
<1>7. CASE CancelRecv(s)
  <2>1. RcvType'
    BY <1>7 DEF CancelRecv, TypeOK, RcvType, RcvRecord
  <2>2. NodeType'
    BY <1>7, RelayFileAssumption DEF CancelRecv, TypeOK, NodeType
  <2> QED
    BY <1>7, <2>1, <2>2 DEF CancelRecv, TypeOK, SndType, NetType, DiskType, netVars, diskVars
<1> QED
  BY <1>1, <1>2, <1>3, <1>4, <1>5, <1>6, <1>7

(* A lost connection keeps the types.                                      *)
LEMMA BreakType ==
  ASSUME TypeOK, NEW s \in Streams, Break(s)
  PROVE  TypeOK'
<1>1. PICK i \in 0..Len(up[s]), j \in 0..Len(down[s]) :
        /\ up' = [up EXCEPT ![s] = SubSeq(@, 1, i)]
        /\ down' = [down EXCEPT ![s] = SubSeq(@, 1, j)]
  BY Zenon DEF Break
<1>2. up[s] \in Seq(UpFrame) /\ down[s] \in Seq(DownFrame)
  BY DEF TypeOK, NetType
<1>3. SubSeq(up[s], 1, i) \in Seq(UpFrame) /\ SubSeq(down[s], 1, j) \in Seq(DownFrame)
  BY <1>2
<1>4. NetType'
  BY <1>1, <1>3 DEF Break, TypeOK, NetType
<1>5. NodeType'
  BY FaultType DEF Break, TypeOK
<1> QED
  BY <1>4, <1>5 DEF Break, TypeOK, SndType, RcvType, DiskType, diskVars

(* A restart of the receiver keeps the types.                              *)
LEMMA CrashType ==
  ASSUME TypeOK, UpShape, Crash
  PROVE  TypeOK'
<1>1. RcvType'
  <2>1. Idle \in RcvRecord
    BY DEF Idle, RcvRecord
  <2> QED
    BY <2>1 DEF Crash, RcvType
<1>2. data' \in [Inodes -> Seq(Chunk)]
  <2>1. CASE UNCHANGED data
    BY <2>1 DEF TypeOK, DiskType
  <2>2. ASSUME NEW s \in Streams, Writing(s),
               data' = [data EXCEPT ![tmp] = WriteAt(@, rcv[s].pos, <<"torn", 0>>)]
        PROVE  data' \in [Inodes -> Seq(Chunk)]
    <3>1. rcv[s].pos \in Nat /\ tmp \in Inodes
      BY <2>2 DEF Writing, UpShape, UpShapeAt, TypeOK, RcvType, RcvRecord
    <3>2. <<"torn", 0>> \in Chunk
      BY DEF Chunk
    <3> QED
      BY <2>2, <3>1, <3>2, WriteAtType, ZenonT(60) DEF TypeOK, DiskType
  <2> QED
    BY <2>1, <2>2 DEF Crash
<1>3. NodeType'
  BY RelayFileAssumption DEF Crash, TypeOK, NodeType
<1>4. NetType'
  BY DEF Crash, TypeOK, NetType
<1> QED
  BY <1>1, <1>2, <1>3, <1>4 DEF Crash, TypeOK, SndType, DiskType

(* ReceiveFile and the file sent back keep the types.                      *)
LEMMA WaiterType ==
  ASSUME TypeOK, SendBack \/ CancelBack \/ Poll \/ LoadSession
  PROVE  TypeOK'
<1>1. SndType' /\ RcvType' /\ NetType' /\ DiskType'
  BY DEF SendBack, CancelBack, Poll, LoadSession, TypeOK, SndType, RcvType, NetType, DiskType, netVars, diskVars
<1>2. CASE Poll \/ LoadSession
  BY <1>1, <1>2 DEF Poll, LoadSession, TypeOK, NodeType
<1>3. CASE SendBack \/ CancelBack
  BY <1>1, <1>3, RelayFileAssumption DEF SendBack, CancelBack, TypeOK, NodeType
<1> QED
  BY <1>2, <1>3

-----------------------------------------------------------------------------
(* Every step keeps the types.                                             *)
LEMMA NextType ==
  ASSUME IInv, [Next]_vars
  PROVE  TypeOK'
<1> USE DEF IInv
<1>1. ASSUME NEW p \in Senders, SendFile(p) \/ CancelSend(p)
      PROVE  TypeOK'
  BY <1>1, OpenType, WritesType, ReadsType, LoopType, ReadFileFailsType, ResumeType,
     CancelSendType DEF SendFile
<1>2. ASSUME NEW s \in Streams, HandleFileStream(s) \/ CancelRecv(s) \/ Break(s)
      PROVE  TypeOK'
  BY <1>2, RecvInitType, CreatePartType, WriteAcceptType, RecvDataType, RecvTailType,
     BreakType DEF HandleFileStream
<1>3. CASE UNCHANGED vars
  BY <1>3 DEF vars, netVars, diskVars, TypeOK, SndType, RcvType, NetType, DiskType, NodeType
<1> QED
  BY <1>1, <1>2, <1>3, CrashType, WaiterType DEF Next, Finished

=============================================================================
