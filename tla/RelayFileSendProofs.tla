------------------------ MODULE RelayFileSendProofs ------------------------
(***************************************************************************)
(* The inductive invariant DiskInv of RelayFile, for one SendFile call     *)
(* with any number of chunks, streams, inodes, faults, cancellations and   *)
(* restarts: the steps of SendFile keep it, and no step of a handler       *)
(* leaves the phases it knows of.                                          *)
(***************************************************************************)
EXTENDS RelayFileProofs

\* The provers tried, in this order, on a leaf that names none.
USE SMTT(20), ZenonT(20), SMTT(30), SMTT(60)

-----------------------------------------------------------------------------
(* A stream or the call that are not touched keep their phases.            *)
LEMMA SamePhases ==
  ASSUME NEW p \in Senders, NEW s \in Streams, PhasesAt(p, s), Same(s), snd' = snd
  PROVE  PhasesAt(p, s)'
BY DEF PhasesAt, Same, Early, Late, HasFin

(* A frame appended to a stream is its last.                               *)
LEMMA AppendFin ==
  ASSUME NEW q \in Seq(UpFrame), NEW f \in UpFrame, f.t # "FIN",
         NEW i \in 1..Len(Append(q, f)), Append(q, f)[i].t = "FIN"
  PROVE  \E j \in 1..Len(q) : q[j].t = "FIN"
OBVIOUS

(* What is left of a stream was on it.                                     *)
LEMMA TailHas ==
  ASSUME NEW S, NEW q \in Seq(S), q # <<>>, NEW i \in 1..Len(Tail(q))
  PROVE  i + 1 \in 1..Len(q) /\ Tail(q)[i] = q[i + 1]
OBVIOUS

(* What a call of SendFile leaves alone.                                   *)
LEMMA SenderEffects ==
  ASSUME IInv, NEW p \in Senders, SendFile(p) \/ CancelSend(p)
  PROVE  /\ UNCHANGED <<stored, tmp, final, data, waiter>>
         /\ \A s \in Streams :
              \/ /\ rcv'[s] = rcv[s] /\ rOpen'[s] = rOpen[s]
                 /\ \/ down'[s] = down[s]
                    \/ down[s] # <<>> /\ down'[s] = Tail(down[s])
              \/ /\ rcv'[s] = [Idle EXCEPT !.pc = "init"] /\ up'[s] = <<>> /\ down'[s] = <<>>
                 /\ snd'[p].stream = s /\ snd'[p].pc = "init" /\ snd[p].pc \in {"open", "ack"}
<1> USE DEF IInv, TypeOK, NetType, RcvType
<1>0. UNCHANGED <<stored, tmp, final, data, waiter>>
  BY Zenon DEF SendFile, CancelSend, Open, WriteInit, ReadAccept, Loop, WriteData, ReadFileFails, ReadAck,
         Resume, WriteFin, ReadDone, WriteFrame, diskVars
<1> DEFINE Quiet(s) == /\ rcv'[s] = rcv[s] /\ rOpen'[s] = rOpen[s]
                       /\ \/ down'[s] = down[s]
                          \/ down[s] # <<>> /\ down'[s] = Tail(down[s])
           New(s) == /\ rcv'[s] = [Idle EXCEPT !.pc = "init"] /\ up'[s] = <<>> /\ down'[s] = <<>>
                     /\ snd'[p].stream = s /\ snd'[p].pc = "init" /\ snd[p].pc \in {"open", "ack"}
<1> SUFFICES \A t \in Streams : Quiet(t) \/ New(t)
  BY <1>0, Zenon
<1>1. ASSUME NEW s \in Streams, NEW open, Connect(p, s, open), snd[p].pc \in {"open", "ack"},
             snd'[p].stream = s /\ snd'[p].pc = "init"
      PROVE  \A t \in Streams : Quiet(t) \/ New(t)
  BY <1>1, Zenon DEF Connect
<1>2. CASE Open(p)
  <2>1. ASSUME NEW s \in Streams, Connect(p, s, sOpen), snd' = [snd EXCEPT ![p].pc = "init", ![p].stream = s]
        PROVE  \A t \in Streams : Quiet(t) \/ New(t)
    <3>1. snd'[p].stream = s /\ snd'[p].pc = "init"
      BY <2>1 DEF SndType, SndRecord
    <3>2. snd[p].pc \in {"open", "ack"}
      BY <1>2 DEF Open
    <3> QED BY <1>1, <2>1, <3>1, <3>2, ZenonT(60)
  <2>2. CASE UNCHANGED <<rcv, down, rOpen>>
    BY <2>2
  <2> QED BY <1>2, <2>1, <2>2, Zenon DEF Open
<1>3. CASE Resume(p)
  <2>1. ASSUME NEW s \in Streams, NEW open, Connect(p, s, open),
               snd' = [snd EXCEPT ![p].pc = "init", ![p].stream = s, ![p].resumed = TRUE]
        PROVE  \A t \in Streams : Quiet(t) \/ New(t)
    <3>1. snd'[p].stream = s /\ snd'[p].pc = "init"
      BY <2>1 DEF SndType, SndRecord
    <3>2. snd[p].pc \in {"open", "ack"}
      BY <1>3, ZenonT(60) DEF Resume
    <3> QED BY <1>1, <2>1, <3>1, <3>2, ZenonT(60)
  <2>2. CASE UNCHANGED <<rcv, down, rOpen>>
    BY <2>2
  <2> QED BY <1>3, <2>1, <2>2, ZenonT(60) DEF Resume
<1>4. CASE ReadAccept(p) \/ ReadAck(p) \/ ReadDone(p)
  BY <1>4, ZenonT(60) DEF ReadAccept, ReadAck, ReadDone, Consume, Reads
<1>5. CASE \/ WriteInit(p) \/ Loop(p) \/ WriteData(p) \/ ReadFileFails(p) \/ WriteFin(p) \/ CancelSend(p)
  BY <1>5 DEF WriteInit, Loop, WriteData, ReadFileFails, WriteFin, CancelSend, WriteFrame, netVars
<1> QED BY <1>2, <1>3, <1>4, <1>5, ZenonT(60) DEF SendFile

(* The files after a step of the call.                                     *)
LEMMA SenderKeepsFiles ==
  ASSUME IInv, DiskInv, NEW p \in Senders, SendFile(p) \/ CancelSend(p)
  PROVE  Files' /\ Pure'
<1>1. UNCHANGED <<tmp, final, data>>
  BY SenderEffects
<1>2. \A s \in Streams : rcv'[s] = rcv[s] \/ rcv'[s].pc = "init"
  BY SenderEffects DEF Idle
<1>3. Files'
  BY <1>1, <1>2 DEF Files, DiskInv, Whole
<1>4. Pure'
  <2>1. ASSUME NEW i, Clean(i) PROVE Clean(i)'
    BY <1>1, <2>1 DEF Clean
  <2> QED BY <1>1, <1>2, <2>1 DEF Pure, DiskInv
<1> QED BY <1>3, <1>4

(* SendFile reports success on DONE only.                                  *)
LEMMA OkAfterDone ==
  ASSUME IInv, NEW p \in Senders, SendFile(p) \/ CancelSend(p), snd'[p].pc = "ok"
  PROVE  snd[p].pc = "ok" \/ (snd[p].pc = "done" /\ Reads(p, "DONE") /\ snd[p].stream \in Streams)
<1> USE DEF IInv, TypeOK, SndType, SndRecord
<1>1. CASE ReadDone(p)
  <2>1. snd[p].stream \in Streams
    BY <1>1, RunningHasStream DEF ReadDone, Running, Returned
  <2>2. snd[p].pc = "done" /\ (Reads(p, "DONE") \/ snd' = [snd EXCEPT ![p].pc = "failed"])
    BY <1>1, Zenon DEF ReadDone, Return, Goto
  <2> QED BY <2>1, <2>2
<1>2. CASE CancelSend(p)
  <2>1. snd' = [snd EXCEPT ![p].cancelled = TRUE]
    BY <1>2 DEF CancelSend
  <2>2. snd'[p].pc = snd[p].pc
    BY <2>1
  <2> QED BY <2>2
<1>3. CASE Open(p) \/ Resume(p)
  <2>1. CASE snd' = [snd EXCEPT ![p].pc = "failed"]
    BY <2>1
  <2>2. CASE \E s \in Streams : snd' = [snd EXCEPT ![p].pc = "init", ![p].stream = s]
    BY <2>2
  <2>3. CASE \E s \in Streams : snd' = [snd EXCEPT ![p].pc = "init", ![p].stream = s, ![p].resumed = TRUE]
    BY <2>3
  <2> QED BY <1>3, <2>1, <2>2, <2>3, ZenonT(60) DEF Open, Resume, Return, Goto
<1>5. CASE ReadAccept(p) \/ ReadAck(p)
  BY <1>5, ZenonT(30) DEF ReadAccept, ReadAck, Return, Goto
<1>6. CASE Loop(p) \/ ReadFileFails(p)
  BY <1>6 DEF Loop, ReadFileFails, Return, Goto
<1>4. CASE WriteInit(p) \/ WriteData(p) \/ WriteFin(p)
  BY <1>4 DEF WriteInit, WriteData, WriteFin, WriteFrame, Return, Goto
<1> QED BY <1>1, <1>2, <1>3, <1>4, <1>5, <1>6 DEF SendFile

(* What a step of the call reports.                                        *)
LEMMA SenderKeepsSaved ==
  ASSUME IInv, DiskInv, NEW p \in Senders, SendFile(p) \/ CancelSend(p)
  PROVE  Saved'
<1> SUFFICES ASSUME final' = None PROVE Saved'
  BY DEF Saved
<1>1. final = None /\ waiter' = waiter
  BY SenderEffects
<1>2. ASSUME NEW s \in Streams
      PROVE  /\ rcv'[s].state # "done" /\ rcv'[s].pc # "finish"
             /\ \A i \in 1..Len(down'[s]) : down'[s][i].t # "DONE"
  <2>1. /\ rcv[s].state # "done" /\ rcv[s].pc # "finish"
        /\ \A i \in 1..Len(down[s]) : down[s][i].t # "DONE"
    BY <1>1 DEF DiskInv, Saved
  <2>2. CASE rcv'[s] = rcv[s] /\ down'[s] = down[s]
    BY <2>1, <2>2
  <2>3. CASE rcv'[s] = rcv[s] /\ down[s] # <<>> /\ down'[s] = Tail(down[s])
    <3>1. down[s] \in Seq(DownFrame)
      BY DEF IInv, TypeOK, NetType
    <3> QED BY <2>1, <2>3, <3>1, TailHas
  <2>4. CASE rcv'[s] = [Idle EXCEPT !.pc = "init"] /\ down'[s] = <<>>
    BY <2>4 DEF Idle
  <2> QED BY <2>2, <2>3, <2>4, SenderEffects
<1>3. ASSUME NEW q \in Senders PROVE snd'[q].pc # "ok"
  <2>1. snd[q].pc # "ok"
    BY <1>1 DEF DiskInv, Saved
  <2>2. CASE q = p
    <3> SUFFICES ASSUME snd'[p].pc = "ok" PROVE FALSE
      BY <2>2
    <3>1. PICK s \in Streams : s = snd[p].stream /\ down[s] # <<>> /\ Head(down[s]).t = "DONE"
      BY <2>1, <2>2, OkAfterDone DEF Reads
    <3>2. down[s] \in Seq(DownFrame)
      BY DEF IInv, TypeOK, NetType
    <3>3. 1 \in 1..Len(down[s]) /\ down[s][1] = Head(down[s])
      BY <3>1, <3>2
    <3> QED BY <1>1, <3>1, <3>3 DEF DiskInv, Saved
  <2>3. CASE q # p
    BY <2>1, <2>3, SenderLocals
  <2> QED BY <2>2, <2>3
<1> QED BY <1>1, <1>2, <1>3 DEF DiskInv, Saved

(* A call in its transfer loop has no handler that is early or late.       *)
LEMMA NeitherPhase ==
  ASSUME DiskInv, NEW p \in Senders, snd[p].pc \in {"loop", "data", "ack", "fin"}
  PROVE  \A s \in Streams : ~Early(s) /\ ~Late(s)
BY DEF DiskInv, Phases, PhasesAt, Returned

(* The call returns, or moves on without a frame of its own.               *)
LEMMA QuietPhases ==
  ASSUME DiskInv, NEW p \in Senders, UNCHANGED <<rcv, rOpen, up>>, snd'[p].stream = snd[p].stream,
         \A s \in Streams : down'[s] = down[s] \/ down[s] # <<>>,
         \/ snd'[p].pc = "failed"
         \/ snd'[p].pc = snd[p].pc
         \/ snd[p].pc = "done" /\ snd'[p].pc = "ok"
         \/ snd[p].pc \in {"loop", "data", "ack", "fin"}
         \/ \A s \in Streams : ~Early(s) /\ ~Late(s)
  PROVE  \A s \in Streams : PhasesAt(p, s)'
<1> SUFFICES ASSUME NEW s \in Streams PROVE PhasesAt(p, s)'
  OBVIOUS
<1>0. PhasesAt(p, s)
  BY DEF DiskInv, Phases
<1>1. Early(s)' = Early(s) /\ Late(s)' = Late(s)
  BY DEF Early, Late, HasFin
<1>2. CASE ~Early(s) /\ ~Late(s)
  BY <1>1, <1>2 DEF PhasesAt
<1>3. CASE snd'[p].pc \in {"failed", snd[p].pc} \/ (snd[p].pc = "done" /\ snd'[p].pc = "ok")
  BY <1>0, <1>1, <1>3 DEF PhasesAt, Returned
<1> QED BY <1>2, <1>3, NeitherPhase

(* A new stream has the only early handler.                                *)
LEMMA ConnectPhases ==
  ASSUME IInv, NEW p \in Senders, NEW s \in Streams, NEW open, Connect(p, s, open),
         snd'[p].stream = s, snd'[p].pc = "init", \A t \in Streams : ~Early(t) /\ ~Late(t)
  PROVE  \A t \in Streams : PhasesAt(p, t)'
<1> USE DEF IInv, TypeOK, NetType, RcvType
<1> SUFFICES ASSUME NEW t \in Streams PROVE PhasesAt(p, t)'
  OBVIOUS
<1>1. CASE t = s
  <2>1. rcv'[s].pc = "init" /\ up'[s] = <<>> /\ down'[s] = <<>>
    BY DEF Connect, Idle
  <2>2. ~Late(s)'
    BY <2>1 DEF Late, HasFin
  <2> QED BY <1>1, <2>1, <2>2 DEF PhasesAt
<1>2. CASE t # s
  <2>1. rcv'[t] = rcv[t] /\ up'[t] = up[t] /\ rOpen'[t] = rOpen[t]
    BY <1>2 DEF Connect
  <2>2. ~Early(t)' /\ ~Late(t)'
    BY <2>1 DEF Early, Late, HasFin
  <2> QED BY <2>2 DEF PhasesAt
<1> QED BY <1>1, <1>2

(* A frame other than FIN.                                                 *)
LEMMA FramePhases ==
  ASSUME IInv, DiskInv, NEW p \in Senders, snd[p].stream \in Streams, NEW f \in UpFrame, f.t # "FIN",
         SendUp(snd[p].stream, f), UNCHANGED <<rcv, rOpen, down>>, snd'[p].stream = snd[p].stream,
         \/ snd[p].pc = "init" /\ snd'[p].pc = "accept"
         \/ snd[p].pc \in {"loop", "data", "ack", "fin"}
  PROVE  \A s \in Streams : PhasesAt(p, s)'
<1> USE DEF IInv, TypeOK, NetType, RcvType
<1> SUFFICES ASSUME NEW s \in Streams PROVE PhasesAt(p, s)'
  OBVIOUS
<1>0. PhasesAt(p, s)
  BY DEF DiskInv, Phases
<1>1. Early(s)' = Early(s)
  BY DEF Early
<1>2. ~Late(s)
  BY <1>0, NeitherPhase DEF PhasesAt
<1>3. up'[s] = up[s] \/ up'[s] = Append(up[s], f)
  BY DEF SendUp
<1>4. ~Late(s)'
  <2>1. HasFin(s)' => HasFin(s)
    <3>1. CASE up'[s] = up[s]
      BY <3>1 DEF HasFin
    <3>2. CASE up'[s] = Append(up[s], f)
      <4>1. up[s] \in Seq(UpFrame)
        OBVIOUS
      <4> SUFFICES ASSUME NEW i \in 1..Len(up'[s]), up'[s][i].t = "FIN" PROVE HasFin(s)
        BY ZenonT(60) DEF HasFin
      <4> QED BY <3>2, <4>1, AppendFin DEF HasFin
    <3> QED BY <1>3, <3>1, <3>2
  <2> QED BY <1>2, <2>1 DEF Late
<1>5. CASE snd[p].pc = "init" /\ snd'[p].pc = "accept"
  BY <1>0, <1>1, <1>4, <1>5 DEF PhasesAt
<1>6. CASE snd[p].pc \in {"loop", "data", "ack", "fin"}
  BY <1>1, <1>4, <1>6, NeitherPhase DEF PhasesAt
<1> QED BY <1>5, <1>6

(* Only the call itself takes a part in the phases.                        *)
LEMMA SenderKeepsPhases ==
  ASSUME IInv, DiskInv, NEW p \in Senders, SendFile(p) \/ CancelSend(p)
  PROVE  \A s \in Streams : PhasesAt(p, s)'
<1> USE DEF IInv, TypeOK, SndType, NetType
<1>t. snd[p] \in SndRecord /\ p \in DOMAIN snd
  OBVIOUS
<1>p. snd[p].pc \in {"init", "accept", "loop", "data", "ack", "fin", "done"} => snd[p].stream \in Streams
  BY RunningHasStream DEF Running, Returned
<1>1. CASE Open(p)
  <2>1. snd[p].pc = "open" /\ snd[p].stream = None
    BY <1>1 DEF Open, SenderStream
  <2>2. \A t \in Streams : ~Early(t) /\ ~Late(t)
    BY <2>1, RelayFileAssumption DEF DiskInv, Phases, PhasesAt, Returned
  <2>3. ASSUME NEW s \in Streams, Connect(p, s, sOpen), snd' = [snd EXCEPT ![p].pc = "init", ![p].stream = s]
        PROVE  \A t \in Streams : PhasesAt(p, t)'
    <3>1. snd'[p].stream = s /\ snd'[p].pc = "init"
      BY <2>3 DEF SndRecord
    <3> QED BY <2>2, <2>3, <3>1, ConnectPhases
  <2>4. CASE Return(p, "failed") /\ UNCHANGED <<rcv, up, down, rOpen>>
    <3>1. snd'[p].pc = "failed" /\ snd'[p].stream = snd[p].stream
      BY <2>4 DEF Return, Goto, SndRecord
    <3> QED BY <2>4, <3>1, QuietPhases
  <2> QED BY <1>1, <2>3, <2>4, Zenon DEF Open
<1>2. CASE Resume(p)
  <2>1. \A t \in Streams : ~Early(t) /\ ~Late(t)
    BY <1>2, NeitherPhase, ZenonT(60) DEF Resume
  <2>2. ASSUME NEW s \in Streams, NEW open, Connect(p, s, open),
               snd' = [snd EXCEPT ![p].pc = "init", ![p].stream = s, ![p].resumed = TRUE]
        PROVE  \A t \in Streams : PhasesAt(p, t)'
    <3>1. snd'[p].stream = s /\ snd'[p].pc = "init"
      BY <2>2 DEF SndRecord
    <3> QED BY <2>1, <2>2, <3>1, ConnectPhases
  <2>3. CASE Goto(p, "failed") /\ UNCHANGED <<rcv, up, down, rOpen>>
    <3>1. snd'[p].pc = "failed" /\ snd'[p].stream = snd[p].stream
      BY <2>3 DEF Goto, SndRecord
    <3> QED BY <2>3, <3>1, QuietPhases
  <2> QED BY <1>2, <2>2, <2>3, ZenonT(60) DEF Resume
<1>3. CASE WriteInit(p)
  <2>0. snd[p].pc = "init" /\ snd[p].stream \in Streams /\ UNCHANGED <<rcv, rOpen, down>>
    BY <1>3, <1>p DEF WriteInit, WriteFrame
  <2>1. CASE SendUp(snd[p].stream, Frame("INIT", snd[p].seq)) /\ snd' = [snd EXCEPT ![p].pc = "accept"]
    <3>1. snd'[p].pc = "accept" /\ snd'[p].stream = snd[p].stream
      BY <2>1 DEF SndRecord
    <3>2. PICK f : f = Frame("INIT", snd[p].seq)
      OBVIOUS
    <3>3. f \in UpFrame /\ f.t # "FIN"
      BY <1>t, <3>2 DEF Frame, UpFrame, SndRecord
    <3> QED BY <2>0, <2>1, <3>1, <3>2, <3>3, FramePhases, ZenonT(60)
  <2>2. CASE Return(p, "failed") /\ UNCHANGED up
    <3>1. snd'[p].pc = "failed" /\ snd'[p].stream = snd[p].stream
      BY <2>2 DEF Return, Goto, SndRecord
    <3> QED BY <2>0, <2>2, <3>1, QuietPhases
  <2> QED BY <1>3, <2>1, <2>2 DEF WriteInit, WriteFrame
<1>4. CASE ReadAccept(p)
  <2>0. snd[p].pc = "accept" /\ snd[p].stream \in Streams /\ UNCHANGED <<rcv, rOpen, up>>
    BY <1>4, <1>p DEF ReadAccept
  <2>1. CASE /\ Reads(p, "ACCEPT") /\ Consume(p)
             /\ snd' = [snd EXCEPT ![p].pc = "loop", ![p].seq = Head(down[snd[p].stream]).n]
    <3>1. snd'[p].stream = snd[p].stream
      BY <2>1 DEF SndRecord
    <3>2. down[snd[p].stream] # <<>>
      BY <2>1 DEF Reads
    <3>3. \A s \in Streams : ~Early(s) /\ ~Late(s)
      BY <2>0, <3>2, ZenonT(60) DEF DiskInv, Phases, PhasesAt
    <3>4. \A s \in Streams : down'[s] = down[s] \/ down[s] # <<>>
      BY <2>1, <3>2 DEF Consume
    <3> QED BY <2>0, <3>1, <3>3, <3>4, QuietPhases
  <2>2. CASE Return(p, "failed") /\ UNCHANGED down
    <3>1. snd'[p].pc = "failed" /\ snd'[p].stream = snd[p].stream
      BY <2>2 DEF Return, Goto, SndRecord
    <3> QED BY <2>0, <2>2, <3>1, QuietPhases
  <2> QED BY <1>4, <2>1, <2>2, ZenonT(60) DEF ReadAccept
<1>5. CASE ReadAck(p) \/ ReadDone(p)
  <2>0. snd[p].pc \in {"ack", "done"} /\ snd[p].stream \in Streams /\ UNCHANGED <<rcv, rOpen, up>>
    BY <1>5, <1>p, ZenonT(60) DEF ReadAck, ReadDone
  <2>1. \A s \in Streams : down'[s] = down[s] \/ down[s] # <<>>
    BY <1>5, ZenonT(60) DEF ReadAck, ReadDone, Consume, Reads
  <2>2. CASE ReadAck(p)
    <3>1. snd'[p].stream = snd[p].stream /\ snd[p].pc = "ack"
      BY <2>2 DEF ReadAck, SndRecord
    <3> QED BY <2>0, <2>1, <3>1, QuietPhases
  <2>3. CASE ReadDone(p)
    <3>1. snd'[p].stream = snd[p].stream /\ snd[p].pc = "done" /\ snd'[p].pc \in {"ok", "failed"}
      <4>1. PICK r \in {"ok", "failed"} : snd' = [snd EXCEPT ![p].pc = r]
        BY <2>3, ZenonT(60) DEF ReadDone, Return, Goto
      <4>2. snd[p].pc = "done"
        BY <2>3, ZenonT(60) DEF ReadDone
      <4> QED BY <4>1, <4>2 DEF SndRecord
    <3> QED BY <2>0, <2>1, <3>1, QuietPhases
  <2> QED BY <1>5, <2>2, <2>3
<1>6. CASE Loop(p) \/ ReadFileFails(p)
  <2>0. snd[p].pc \in {"loop", "data"} /\ snd[p].stream \in Streams /\ UNCHANGED <<rcv, rOpen, down>>
    BY <1>6, <1>p DEF Loop, ReadFileFails
  <2>1. snd'[p].stream = snd[p].stream
    BY <1>6 DEF Loop, ReadFileFails, Return, Goto, SndRecord
  <2>2. CASE SendUp(snd[p].stream, Frame("CANCEL", 0))
    <3>1. Frame("CANCEL", 0) \in UpFrame /\ Frame("CANCEL", 0).t # "FIN"
      BY DEF Frame, UpFrame
    <3> QED BY <2>0, <2>1, <2>2, <3>1, FramePhases
  <2>3. CASE UNCHANGED up
    BY <2>0, <2>1, <2>3, QuietPhases
  <2> QED BY <1>6, <2>2, <2>3 DEF Loop, ReadFileFails
<1>7. CASE WriteData(p)
  <2>0. snd[p].pc = "data" /\ snd[p].stream \in Streams /\ UNCHANGED <<rcv, rOpen, down>>
    BY <1>7, <1>p DEF WriteData, WriteFrame
  <2>1. snd'[p].stream = snd[p].stream
    BY <1>7 DEF WriteData, WriteFrame, Return, Goto, SndRecord
  <2>2. CASE SendUp(snd[p].stream, Frame("DATA", snd[p].seq))
    <3>1. PICK f : f = Frame("DATA", snd[p].seq)
      OBVIOUS
    <3>2. f \in UpFrame /\ f.t # "FIN"
      BY <1>t, <3>1 DEF Frame, UpFrame, SndRecord
    <3> QED BY <2>0, <2>1, <2>2, <3>1, <3>2, FramePhases
  <2>3. CASE UNCHANGED up
    BY <2>0, <2>1, <2>3, QuietPhases
  <2> QED BY <1>7, <2>2, <2>3 DEF WriteData, WriteFrame
<1>8. CASE WriteFin(p)
  <2>0. snd[p].pc = "fin" /\ snd[p].stream \in Streams /\ UNCHANGED <<rcv, rOpen, down>>
    BY <1>8, <1>p DEF WriteFin, WriteFrame
  <2>1. snd'[p].stream = snd[p].stream /\ snd'[p].pc \in {"done", "failed"}
    BY <1>8 DEF WriteFin, WriteFrame, Return, Goto, SndRecord
  <2>2. ASSUME NEW s \in Streams PROVE PhasesAt(p, s)'
    <3>1. ~Early(s) /\ ~Late(s) /\ Early(s)' = Early(s)
      BY <2>0, NeitherPhase DEF Early
    <3>2. CASE s = snd[p].stream
      BY <2>1, <3>1, <3>2 DEF PhasesAt
    <3>3. CASE s # snd[p].stream
      <4>1. up'[s] = up[s]
        BY <1>8, <3>3 DEF WriteFin, WriteFrame, SendUp
      <4>2. ~Late(s)'
        BY <2>0, <3>1, <4>1 DEF Late, HasFin
      <4> QED BY <3>1, <4>2 DEF PhasesAt
    <3> QED BY <3>2, <3>3
  <2> QED BY <2>2
<1>9. CASE CancelSend(p)
  <2>1. snd' = [snd EXCEPT ![p].cancelled = TRUE] /\ UNCHANGED <<rcv, rOpen, up, down>>
    BY <1>9 DEF CancelSend, netVars
  <2>2. snd'[p].stream = snd[p].stream /\ snd'[p].pc = snd[p].pc
    BY <2>1 DEF SndRecord
  <2> QED BY <2>1, <2>2, QuietPhases, ZenonT(60)
<1> QED BY <1>1, <1>2, <1>3, <1>4, <1>5, <1>6, <1>7, <1>8, <1>9 DEF SendFile

(* A step of the call after its first INIT never sends one without offset. *)
LEMMA SenderKeepsFirst ==
  ASSUME IInv, DiskInv, OneSender, NEW p \in Senders, SendFile(p) \/ CancelSend(p)
  PROVE  FirstFile'
<1>r. \A s \in Streams : rcv'[s] = rcv[s] \/ rcv'[s].pc = "init"
  BY SenderEffects DEF Idle
<1> USE DEF IInv, TypeOK, SndType, NetType
<1>0. tmp' = tmp /\ \A q \in Senders : q = p
  BY SenderEffects DEF OneSender
<1>t. snd[p] \in SndRecord /\ p \in DOMAIN snd /\ snd[p].seq \in Nat
  BY DEF SndRecord
<1>f. /\ snd[p].pc = "ack" => snd[p].seq > 0
      /\ snd[p].pc \in {"open", "init"} /\ snd[p].seq = 0 => tmp = None
  BY DEF DiskInv, FirstFile
<1>1. /\ snd'[p].pc = "ack" => snd'[p].seq > 0
      /\ snd'[p].pc \in {"open", "init"} /\ snd'[p].seq = 0 => tmp = None
  <2>1. CASE Open(p) \/ Resume(p)
    <3>0. snd[p].pc \in {"open", "ack"}
      BY <2>1, ZenonT(60) DEF Open, Resume
    <3>1. snd'[p].pc \in {"init", "failed"} /\ snd'[p].seq = snd[p].seq
      <4>1. CASE snd' = [snd EXCEPT ![p].pc = "failed"]
        BY <1>t, <4>1, ZenonT(60) DEF SndRecord
      <4>2. CASE \E s \in Streams : snd' = [snd EXCEPT ![p].pc = "init", ![p].stream = s]
        BY <1>t, <4>2 DEF SndRecord
      <4>3. CASE \E s \in Streams : snd' = [snd EXCEPT ![p].pc = "init", ![p].stream = s, ![p].resumed = TRUE]
        BY <1>t, <4>3 DEF SndRecord
      <4> QED BY <2>1, <4>1, <4>2, <4>3, ZenonT(60) DEF Open, Resume, Return, Goto
    <3> QED BY <1>t, <1>f, <3>0, <3>1
  <2>2. CASE WriteData(p)
    <3>1. \/ snd'[p].pc = "failed"
          \/ snd'[p].seq = snd[p].seq + 1 /\ snd'[p].pc \in {"ack", "data"}
      BY <1>t, <2>2 DEF WriteData, WriteFrame, Return, Goto, SndRecord
    <3> QED BY <1>t, <3>1
  <2>3. CASE WriteInit(p) \/ WriteFin(p)
    <3>1. snd'[p].pc \in {"failed", "accept", "done"}
      BY <1>t, <2>3 DEF WriteInit, WriteFin, WriteFrame, Return, Goto, SndRecord
    <3> QED BY <3>1
  <2>4. CASE ReadAccept(p) \/ ReadAck(p) \/ ReadDone(p)
    <3>1. snd'[p].pc \in {"failed", "ok", "loop"}
      <4>1. CASE ReadAccept(p)
        <5>1. CASE snd' = [snd EXCEPT ![p].pc = "failed"]
          BY <1>t, <5>1 DEF SndRecord
        <5>2. CASE snd' = [snd EXCEPT ![p].pc = "loop", ![p].seq = Head(down[snd[p].stream]).n]
          BY <1>t, <5>2 DEF SndRecord
        <5> QED BY <4>1, <5>1, <5>2, ZenonT(60) DEF ReadAccept, Return, Goto
      <4>2. CASE ReadAck(p)
        BY <1>t, <4>2 DEF ReadAck, SndRecord
      <4>3. CASE ReadDone(p)
        <5>1. PICK r \in {"ok", "failed"} : snd' = [snd EXCEPT ![p].pc = r]
          BY <4>3, ZenonT(60) DEF ReadDone, Return, Goto
        <5> QED BY <1>t, <5>1 DEF SndRecord
      <4> QED BY <2>4, <4>1, <4>2, <4>3
    <3> QED BY <3>1
  <2>5. CASE Loop(p) \/ ReadFileFails(p)
    <3>1. snd'[p].pc \in {"failed", "cancelled", "fin", "data"}
      BY <1>t, <2>5 DEF Loop, ReadFileFails, Return, Goto, SndRecord
    <3> QED BY <3>1
  <2>6. CASE CancelSend(p)
    <3>1. snd'[p].pc = snd[p].pc /\ snd'[p].seq = snd[p].seq
      BY <1>t, <2>6 DEF CancelSend, SndRecord
    <3> QED BY <1>f, <3>1
  <2> QED BY <2>1, <2>2, <2>3, <2>4, <2>5, <2>6 DEF SendFile
<1>2. ASSUME NEW s \in Streams, rcv'[s].pc = "init", up'[s] # <<>>, Head(up'[s]).n = 0
      PROVE  tmp = None
  <2>1. rcv'[s] = rcv[s] /\ rcv[s].pc = "init" /\ Early(s)
    BY <1>2, SenderEffects DEF Early
  <2>2. snd[p].stream = s /\ snd[p].pc \in {"init", "accept"} \cup Returned /\ (up[s] # <<>> => snd[p].pc # "init")
    BY <2>1 DEF DiskInv, Phases, PhasesAt
  <2>3. CASE up'[s] = up[s]
    BY <1>2, <2>1, <2>3 DEF DiskInv, FirstFile
  <2>4. CASE up'[s] # up[s]
    <3>1. WriteInit(p)
      BY <2>2, <2>4, ZenonT(60) DEF SendFile, CancelSend, Open, ReadAccept, Loop, WriteData, ReadFileFails, ReadAck,
                        Resume, WriteFin, ReadDone, WriteFrame, netVars, Returned
    <3>2. snd[p].pc = "init" /\ up[s] = <<>>
      BY <2>2, <3>1 DEF WriteInit
    <3>3. up'[s] = Append(<<>>, Frame("INIT", snd[p].seq))
      BY <2>2, <2>4, <3>1, <3>2 DEF WriteInit, WriteFrame, SendUp
    <3>4. Head(up'[s]).n = snd[p].seq
      BY <3>3 DEF Frame
    <3> QED BY <1>2, <1>f, <3>2, <3>4
  <2> QED BY <2>3, <2>4
<1>3. ASSUME NEW s \in Streams, rcv'[s].pc = "create" PROVE tmp = None
  <2>1. rcv[s].pc = "create"
    BY <1>3, <1>r, ZenonT(60)
  <2> QED BY <2>1 DEF DiskInv, FirstFile
<1> QED BY <1>0, <1>1, <1>2, <1>3 DEF FirstFile

-----------------------------------------------------------------------------
(* A chunk written where it belongs.                                       *)
LEMMA WriteAtIs ==
  ASSUME NEW d \in Seq(Chunk), NEW pos \in Nat, pos <= Len(d), NEW chunk \in Chunk,
         NEW w, w = WriteAt(d, pos, chunk)
  PROVE  /\ Len(w) \in Nat /\ Len(w) >= Len(d) /\ Len(w) >= pos + 1
         /\ \A k \in 1..Len(w) : w[k] = IF k = pos + 1 THEN chunk ELSE d[k]
         /\ \A k \in 1..Len(w) : k # pos + 1 => k \in 1..Len(d)
<1> DEFINE n == IF pos >= Len(d) THEN pos + 1 ELSE Len(d)
<1>1. n \in Nat /\ w \in Seq(Chunk) /\ DOMAIN w = 1..n
  <2>1. n \in Nat
    OBVIOUS
  <2>2. w \in Seq(Chunk)
    BY WriteAtType
  <2>3. DOMAIN w = 1..n
    BY DEF WriteAt
  <2> QED BY <2>1, <2>2, <2>3
<1>2. Len(w) = n
  <2>1. DOMAIN w = 1..Len(w) /\ Len(w) \in Nat
    BY <1>1
  <2> HIDE DEF n
  <2>2. CASE Len(w) < n
    BY <1>1, <2>1, <2>2
  <2>3. CASE n < Len(w)
    BY <1>1, <2>1, <2>3
  <2> QED BY <1>1, <2>1, <2>2, <2>3
<1>3. ASSUME NEW k \in 1..n PROVE w[k] = IF k = pos + 1 THEN chunk ELSE d[k]
  BY <1>3 DEF WriteAt
<1>4. Len(w) >= Len(d) /\ Len(w) >= pos + 1
  BY <1>2
<1>5. \A k \in 1..n : k # pos + 1 => k \in 1..Len(d)
  OBVIOUS
<1> HIDE DEF n
<1> QED BY <1>1, <1>2, <1>3, <1>4, <1>5

(* A whole file stays whole when one of its chunks is written again.       *)
LEMMA WholeStays ==
  ASSUME NEW c, NEW pos \in Nat, pos < TotalChunks, File(c) \in Seq(Chunk), <<c, pos>> \in Chunk
  PROVE  WriteAt(File(c), pos, <<c, pos>>) = File(c)
<1> USE RelayFileAssumption
<1>1. DOMAIN File(c) = 1..TotalChunks /\ Len(File(c)) = TotalChunks
  <2>1. DOMAIN File(c) = 1..TotalChunks
    BY DEF File
  <2>2. DOMAIN File(c) = 1..Len(File(c)) /\ Len(File(c)) \in Nat
    OBVIOUS
  <2>3. CASE Len(File(c)) < TotalChunks
    BY <2>1, <2>2, <2>3
  <2>4. CASE TotalChunks < Len(File(c))
    BY <2>1, <2>2, <2>4
  <2> QED BY <2>1, <2>2, <2>3, <2>4
<1>2. \A i \in 1..TotalChunks : File(c)[i] = <<c, i - 1>>
  BY DEF File
<1>3. WriteAt(File(c), pos, <<c, pos>>) = [i \in 1..TotalChunks |-> IF i = pos + 1 THEN <<c, pos>> ELSE File(c)[i]]
  BY <1>1 DEF WriteAt
<1>4. \A i \in 1..TotalChunks : (IF i = pos + 1 THEN <<c, pos>> ELSE File(c)[i]) = <<c, i - 1>>
  BY <1>2
<1> QED BY <1>3, <1>4, ZenonT(60) DEF File

(* The content of a call is a file of chunks.                              *)
LEMMA FileIsSeq ==
  ASSUME NEW p \in Senders
  PROVE  File(Content[p]) \in Seq(Chunk) /\ \A n \in Nat : <<Content[p], n>> \in Chunk
<1>1. \A n \in Nat : <<Content[p], n>> \in Chunk
  BY DEF Chunk
<1>2. \A i \in 1..TotalChunks : i - 1 \in Nat
  BY RelayFileAssumption
<1> QED BY <1>1, <1>2, RelayFileAssumption DEF File

-----------------------------------------------------------------------------
(* A handler that ends, or gets no further than it was, keeps the phases.  *)
LEMMA ReceiverPhases ==
  ASSUME IInv, DiskInv, NEW s \in Streams, HandleFileStream(s) \/ CancelRecv(s) \/ Break(s),
         Early(s)' => /\ Early(s) /\ (down[s] = <<>> => down'[s] = <<>>)
                      /\ rcv'[s].pc # "init" \/ up'[s] # <<>> => rcv[s].pc # "init" \/ up[s] # <<>>,
         Late(s)' => Late(s)
  PROVE  Phases'
<1>1. snd' = snd /\ \A t \in Streams \ {s} : Same(t)
  BY ReceiverFrame
<1>2. ASSUME NEW p \in Senders, NEW t \in Streams PROVE PhasesAt(p, t)'
  <2>0. PhasesAt(p, t)
    BY DEF DiskInv, Phases
  <2>1. CASE t # s
    BY <1>1, <2>0, <2>1, SamePhases
  <2>2. CASE t = s
    BY <1>1, <2>0, <2>2 DEF PhasesAt
  <2> QED BY <2>1, <2>2
<1> QED BY <1>2 DEF Phases

(* A handler that ended is in no phase.                                    *)
LEMMA EndedIsNeither ==
  ASSUME IInv, NEW s \in Streams, NEW state, EndHandler(s, state)
  PROVE  /\ ~Early(s)' /\ ~Late(s)'
         /\ rcv'[s].pc = "idle" /\ rcv'[s].state = state
<1>1. rcv'[s] = [Idle EXCEPT !.state = state] /\ ~rOpen'[s]
  BY DEF IInv, TypeOK, NetType, RcvType, EndHandler
<1> QED BY <1>1 DEF Early, Late, Idle

LEMMA CleanedIsNeither ==
  ASSUME IInv, NEW s \in Streams, CleanupSession(s)
  PROVE  /\ ~Early(s)' /\ ~Late(s)' /\ tmp' \in {tmp, None}
         /\ rcv'[s].pc = "idle" /\ rcv'[s].state \in {rcv[s].state, "error"}
<1>1. CASE rcv[s].state \in {"done", "error", "cancelled"}
  <2>1. EndHandler(s, rcv[s].state) /\ tmp' = tmp
    BY <1>1 DEF CleanupSession
  <2>2. PICK st : st = rcv[s].state
    OBVIOUS
  <2>3. EndHandler(s, st)
    BY <2>1, <2>2
  <2> QED BY <2>1, <2>2, <2>3, EndedIsNeither
<1>2. CASE rcv[s].state \notin {"done", "error", "cancelled"}
  <2>1. EndHandler(s, "error") /\ tmp' = None
    BY <1>2 DEF CleanupSession
  <2> QED BY <2>1, EndedIsNeither
<1> QED BY <1>1, <1>2

(* The frames left after one was read.                                     *)
LEMMA FinLeft ==
  ASSUME IInv, NEW s \in Streams, up[s] # <<>>, ConsumeUp(s), HasFin(s)'
  PROVE  HasFin(s)
<1>1. up[s] \in Seq(UpFrame) /\ up'[s] = Tail(up[s])
  BY DEF IInv, TypeOK, NetType, ConsumeUp
<1>2. PICK i \in 1..Len(up'[s]) : up'[s][i].t = "FIN"
  BY DEF HasFin
<1>3. i + 1 \in 1..Len(up[s]) /\ up[s][i + 1] = up'[s][i]
  BY <1>1, <1>2, TailHas
<1> QED BY <1>2, <1>3 DEF HasFin

(* A step of a handler in the phases.                                      *)
LEMMA ReceiverKeepsPhases ==
  ASSUME IInv, DiskInv, NEW s \in Streams, HandleFileStream(s) \/ CancelRecv(s) \/ Break(s)
  PROVE  Phases'
<1> DEFINE Goal == /\ Early(s)' => /\ Early(s) /\ (down[s] = <<>> => down'[s] = <<>>)
                                   /\ rcv'[s].pc # "init" \/ up'[s] # <<>> => rcv[s].pc # "init" \/ up[s] # <<>>
                   /\ Late(s)' => Late(s)
<1> SUFFICES Goal
  BY ReceiverPhases, ZenonT(60)
<1>t. up[s] \in Seq(UpFrame) /\ down[s] \in Seq(DownFrame) /\ rcv[s] \in RcvRecord /\ s \in DOMAIN rcv
  BY DEF IInv, TypeOK, NetType, RcvType
<1>u. UpShapeAt(s)
  BY DEF IInv, UpShape
<1>1. CASE RecvInit(s)
  <2>1. CASE EndHandler(s, "none")
    BY <2>1, EndedIsNeither
  <2>2. CASE /\ NextIs(s, "INIT") /\ ConsumeUp(s) /\ UNCHANGED rOpen
             /\ rcv'[s].pc \in {"accept", "create"}
    <3>1. Early(s) /\ up[s] # <<>> /\ down' = down
      BY <1>1, <2>2 DEF RecvInit, NextIs, Early
    <3>2. ~Late(s)' \/ Late(s)
      BY <2>2, <3>1, FinLeft DEF Late
    <3> QED BY <3>1, <3>2
  <2>3. EndHandler(s, "none") \/
        (/\ NextIs(s, "INIT") /\ ConsumeUp(s) /\ UNCHANGED rOpen
         /\ rcv'[s].pc \in {"accept", "create"})
    BY <1>1, <1>t, ZenonT(60) DEF RecvInit, Idle
  <2> QED BY <2>1, <2>2, <2>3
<1>2. CASE CreatePart(s)
  <2>1. CASE EndHandler(s, "none")
    BY <2>1, EndedIsNeither
  <2>2. CASE \E i \in Inodes : rcv' = [rcv EXCEPT ![s].pc = "accept", ![s].ino = i] /\ UNCHANGED <<rOpen, down>>
    <3>1. rcv[s].pc = "create" /\ Early(s) /\ up' = up /\ down' = down /\ rOpen' = rOpen
      BY <1>2, <2>2 DEF CreatePart, Early
    <3>2. rcv'[s].pc = "accept"
      BY <1>t, <2>2 DEF RcvRecord
    <3> QED BY <3>1, <3>2 DEF Late, HasFin
  <2> QED BY <1>2, <2>1, <2>2 DEF CreatePart
<1>3. CASE WriteAccept(s)
  <2>1. CASE EndHandler(s, "none")
    BY <2>1, EndedIsNeither
  <2>2. CASE ~EndHandler(s, "none")
    <3>1. rcv'[s].pc = "loop" /\ UNCHANGED <<rOpen, up>>
      BY <1>3, <1>t, <2>2 DEF WriteAccept, RcvRecord
    <3> QED BY <3>1 DEF Late, HasFin, Early
  <2> QED BY <2>1, <2>2
<1>4. CASE RecvData(s)
  <2>1. rcv[s].pc = "loop" /\ NextIs(s, "DATA") /\ ConsumeUp(s)
    BY <1>4 DEF RecvData
  <2>2. CASE CleanupSession(s)
    BY <2>2, CleanedIsNeither
  <2>3. CASE ~CleanupSession(s)
    <3>1. rcv'[s].pc = "loop" /\ UNCHANGED rOpen
      BY <1>4, <1>t, <2>1, <2>3 DEF RecvData, RcvRecord
    <3> QED BY <2>1, <3>1, FinLeft DEF Late, Early, NextIs
  <2> QED BY <2>2, <2>3, ZenonT(60)
<1>5. CASE WriteFails(s) \/ RecvEnds(s)
  BY <1>5, CleanedIsNeither DEF WriteFails, RecvEnds
<1>6. CASE RecvFin(s)
  <2>1. rcv[s].pc = "loop" /\ up[s] # <<>> /\ Head(up[s]).t = "FIN" /\ UNCHANGED rOpen
    BY <1>6 DEF RecvFin, NextIs
  <2>2. rcv'[s].pc = "verify"
    BY <1>6, <1>t DEF RecvFin, RcvRecord
  <2>3. 1 \in 1..Len(up[s]) /\ up[s][1].t = "FIN"
    BY <1>t, <2>1
  <2>4. Late(s)
    BY <1>u, <2>1, <2>3 DEF Late, HasFin, UpShapeAt
  <2> QED BY <2>2, <2>4 DEF Early
<1>7. CASE Verify(s)
  <2>1. CASE CleanupSession(s)
    BY <2>1, CleanedIsNeither
  <2>2. CASE ~CleanupSession(s)
    <3>1. rcv[s].pc = "verify" /\ rcv'[s].pc = "rename" /\ UNCHANGED rOpen
      BY <1>7, <1>t, <2>2 DEF Verify, RcvRecord
    <3> QED BY <3>1 DEF Late, Early
  <2> QED BY <2>1, <2>2
<1>8. CASE Rename(s)
  <2>1. CASE CleanupSession(s)
    BY <2>1, CleanedIsNeither
  <2>2. CASE ~CleanupSession(s)
    <3>1. rcv[s].pc = "rename" /\ rcv'[s].pc = "finish" /\ UNCHANGED rOpen
      BY <1>8, <1>t, <2>2 DEF Rename, RcvRecord
    <3> QED BY <3>1 DEF Late, Early
  <2> QED BY <2>1, <2>2
<1>9. CASE WriteDone(s)
  <2>1. PICK st : st = rcv[s].state
    OBVIOUS
  <2>2. EndHandler(s, st)
    BY <1>9, <2>1 DEF WriteDone
  <2> QED BY <2>2, EndedIsNeither
<1>10. CASE CancelRecv(s)
  <2>1. rcv'[s].pc = rcv[s].pc /\ UNCHANGED <<rOpen, up, down>>
    BY <1>10, <1>t DEF CancelRecv, netVars, RcvRecord
  <2> QED BY <2>1 DEF Early, Late, HasFin
<1>11. CASE Break(s)
  <2>1. PICK i \in 0..Len(up[s]), j \in 0..Len(down[s]) :
               up'[s] = SubSeq(up[s], 1, i) /\ down'[s] = SubSeq(down[s], 1, j)
    BY <1>11, ZenonT(60) DEF Break, IInv, TypeOK, NetType
  <2>2. UNCHANGED <<rcv, rOpen>>
    BY <1>11 DEF Break
  <2>3. HasFin(s)' => HasFin(s)
    BY <1>t, <2>1 DEF HasFin
  <2>4. down[s] = <<>> => down'[s] = <<>>
    BY <1>t, <2>1
  <2>5. up'[s] # <<>> => up[s] # <<>>
    BY <1>t, <2>1
  <2> QED BY <2>2, <2>3, <2>4, <2>5 DEF Early, Late
<1> QED BY <1>1, <1>2, <1>3, <1>4, <1>5, <1>6, <1>7, <1>8, <1>9, <1>10, <1>11, ZenonT(60) DEF HandleFileStream

=============================================================================
