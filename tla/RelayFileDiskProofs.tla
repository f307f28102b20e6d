------------------------ MODULE RelayFileDiskProofs ------------------------
(***************************************************************************)
(* What relayfile.go leaves on the receiver's disk and what it reports,    *)
(* for one SendFile call: the steps of the handlers, of ReceiveFile and a  *)
(* restart keep DiskInv, which gives the invariants of RelayFile and its   *)
(* refinement of FileDelivery.                                             *)
(***************************************************************************)
EXTENDS RelayFileSendProofs

\* The provers tried, in this order, on a leaf that names none.
USE SMTT(20), ZenonT(20), SMTT(30), SMTT(60)

-----------------------------------------------------------------------------
(* A DONE frame is waiting for the call on s.                              *)
HasDone(s) == \E i \in 1..Len(down[s]) : down[s][i].t = "DONE"

(* A handler that saves nothing and reports nothing.                       *)
LEMMA ReceiverSaved ==
  ASSUME IInv, DiskInv, NEW s \in Streams, HandleFileStream(s) \/ CancelRecv(s) \/ Break(s),
         \/ final' # None
         \/ /\ final' = final /\ waiter' = waiter
            /\ rcv'[s].state = "done" => rcv[s].state = "done"
            /\ rcv'[s].pc = "finish" => rcv[s].pc = "finish"
            /\ HasDone(s)' => HasDone(s) \/ rcv[s].pc = "finish"
  PROVE  Saved'
<1> SUFFICES ASSUME final' = None PROVE Saved'
  BY DEF Saved
<1>1. /\ final = None /\ waiter' = waiter
      /\ rcv'[s].state = "done" => rcv[s].state = "done"
      /\ rcv'[s].pc = "finish" => rcv[s].pc = "finish"
      /\ HasDone(s)' => HasDone(s) \/ rcv[s].pc = "finish"
  OBVIOUS
<1>2. snd' = snd /\ \A t \in Streams \ {s} : Same(t)
  BY ReceiverFrame
<1>3. /\ \A t \in Streams : rcv[t].state # "done" /\ rcv[t].pc # "finish" /\ ~HasDone(t)
      /\ (waiter.sid \in Streams => waiter.pc # "ok") /\ \A p \in Senders : snd[p].pc # "ok"
  BY <1>1 DEF DiskInv, Saved, HasDone
<1>4. ASSUME NEW t \in Streams
      PROVE  rcv'[t].state # "done" /\ rcv'[t].pc # "finish" /\ ~HasDone(t)'
  <2>1. CASE t = s
    BY <1>1, <1>3, <2>1
  <2>2. CASE t # s
    BY <1>2, <1>3, <2>2 DEF Same, HasDone
  <2> QED BY <2>1, <2>2
<1> QED BY <1>1, <1>2, <1>3, <1>4 DEF Saved, HasDone

(* A frame other than DONE.                                                *)
LEMMA DownHas ==
  ASSUME IInv, NEW s \in Streams, NEW f \in DownFrame, f.t # "DONE", SendDown(s, f), HasDone(s)'
  PROVE  HasDone(s)
<1>1. down[s] \in Seq(DownFrame) /\ (down'[s] = down[s] \/ down'[s] = Append(down[s], f))
  BY DEF IInv, TypeOK, NetType, SendDown
<1>2. CASE down'[s] = down[s]
  BY <1>2 DEF HasDone
<1>3. CASE down'[s] = Append(down[s], f)
  <2>1. PICK i \in 1..Len(down'[s]) : down'[s][i].t = "DONE"
    BY DEF HasDone
  <2>2. i \in 1..Len(down[s]) /\ down[s][i] = down'[s][i]
    BY <1>1, <1>3, <2>1
  <2> QED BY <2>1, <2>2 DEF HasDone
<1> QED BY <1>1, <1>2, <1>3

(* ACCEPT announces the file position.                                     *)
LEMMA AcceptStep ==
  ASSUME IInv, NEW s \in Streams, WriteAccept(s)
  PROVE  \/ /\ SendDown(s, Frame("ACCEPT", rcv[s].pos))
            /\ rcv' = [rcv EXCEPT ![s].pc = "loop", ![s].pos = rcv[s].pos, ![s].ack = rcv[s].pos,
                                  ![s].state = "transfer"]
            /\ UNCHANGED <<rOpen, tmp>>
         \/ EndHandler(s, "none") /\ tmp' = None /\ UNCHANGED down
<1> DEFINE resume == MaxContinuous(rcv[s].bits)
           start == IF resume > rcv[s].pos THEN resume ELSE rcv[s].pos
<1>1. start = rcv[s].pos
  BY AcceptOffset DEF WriteAccept, IInv
<1>2. \/ /\ SendDown(s, Frame("ACCEPT", start))
         /\ rcv' = [rcv EXCEPT ![s].pc = "loop", ![s].pos = start, ![s].ack = start,
                               ![s].state = "transfer"]
         /\ UNCHANGED <<rOpen, tmp>>
      \/ EndHandler(s, "none") /\ tmp' = None /\ UNCHANGED down
  BY DEF WriteAccept
<1> HIDE DEF start
<1> QED BY <1>1, <1>2

(* A handler leaves "done" to Rename and DONE to WriteDone.                *)
LEMMA ReceiverKeepsSaved ==
  ASSUME IInv, DiskInv, NEW s \in Streams, HandleFileStream(s) \/ CancelRecv(s) \/ Break(s)
  PROVE  Saved'
<1> DEFINE Goal == \/ final' # None
                   \/ /\ final' = final /\ waiter' = waiter
                      /\ rcv'[s].state = "done" => rcv[s].state = "done"
                      /\ rcv'[s].pc = "finish" => rcv[s].pc = "finish"
                      /\ HasDone(s)' => HasDone(s) \/ rcv[s].pc = "finish"
<1> SUFFICES Goal
  BY ReceiverSaved
<1>t. up[s] \in Seq(UpFrame) /\ down[s] \in Seq(DownFrame) /\ rcv[s] \in RcvRecord /\ s \in DOMAIN rcv
  BY DEF IInv, TypeOK, NetType, RcvType
<1>n. rcv[s].pos \in Nat /\ 0 \in Nat
  BY <1>t DEF RcvRecord
<1>q. down' = down => (HasDone(s)' => HasDone(s))
  BY DEF HasDone
<1>f. \A t \in {"ACCEPT", "REJECT", "ACK", "ERROR"}, n \in Nat :
        Frame(t, n) \in DownFrame /\ Frame(t, n).t # "DONE"
  BY DEF Frame, DownFrame
<1>1. CASE RecvInit(s)
  <2>1. UNCHANGED <<final, waiter, down>>
    BY <1>1 DEF RecvInit, diskVars
  <2>2. CASE EndHandler(s, "none")
    BY <1>q, <2>1, <2>2, EndedIsNeither
  <2>3. CASE ~EndHandler(s, "none")
    <3>1. rcv'[s].pc \in {"accept", "create"} /\ rcv'[s].state = "none"
      BY <1>1, <1>t, <2>3, ZenonT(60) DEF RecvInit, Idle
    <3> QED BY <1>q, <2>1, <3>1
  <2> QED BY <2>2, <2>3
<1>2. CASE CreatePart(s)
  <2>1. UNCHANGED <<final, waiter>>
    BY <1>2 DEF CreatePart
  <2>2. CASE EndHandler(s, "none") /\ SendDown(s, Frame("REJECT", 0))
    <3>1. PICK f : f = Frame("REJECT", 0)
      OBVIOUS
    <3>2. HasDone(s)' => HasDone(s)
      BY <1>n, <1>f, <2>2, <3>1, DownHas
    <3> QED BY <2>1, <2>2, <3>2, EndedIsNeither
  <2>3. CASE \E i \in Inodes : rcv' = [rcv EXCEPT ![s].pc = "accept", ![s].ino = i] /\ UNCHANGED <<rOpen, down>>
    <3>1. rcv'[s].pc = "accept" /\ rcv'[s].state = rcv[s].state
      BY <1>t, <2>3 DEF RcvRecord
    <3> QED BY <1>q, <2>1, <2>3, <3>1
  <2> QED BY <1>2, <2>2, <2>3 DEF CreatePart
<1>3. CASE WriteAccept(s)
  <2>0. rcv[s].pc = "accept" /\ UNCHANGED <<final, waiter>>
    BY <1>3 DEF WriteAccept
  <2>1. CASE EndHandler(s, "none") /\ UNCHANGED down
    BY <1>q, <2>0, <2>1, EndedIsNeither
  <2>2. CASE ~(EndHandler(s, "none") /\ UNCHANGED down)
    <3>0. /\ SendDown(s, Frame("ACCEPT", rcv[s].pos))
          /\ rcv' = [rcv EXCEPT ![s].pc = "loop", ![s].pos = rcv[s].pos, ![s].ack = rcv[s].pos,
                                ![s].state = "transfer"]
      BY <1>3, <2>2, AcceptStep, Zenon
    <3>1. SendDown(s, Frame("ACCEPT", rcv[s].pos)) /\ rcv'[s].pc = "loop" /\ rcv'[s].state = "transfer"
      BY <1>t, <3>0 DEF RcvRecord
    <3>2. PICK f : f = Frame("ACCEPT", rcv[s].pos)
      OBVIOUS
    <3>3. HasDone(s)' => HasDone(s)
      BY <1>n, <1>f, <3>1, <3>2, DownHas
    <3> QED BY <2>0, <3>1, <3>3
  <2> QED BY <2>1, <2>2
<1>4. CASE RecvData(s)
  <2>0. UNCHANGED <<final, waiter>>
    BY <1>4 DEF RecvData
  <2>1. CASE CleanupSession(s) /\ UNCHANGED down
    BY <1>q, <2>0, <2>1, CleanedIsNeither
  <2>2. CASE ~(CleanupSession(s) /\ UNCHANGED down)
    <3>1. /\ UNCHANGED down \/ SendDown(s, Frame("ACK", rcv[s].pos))
          /\ rcv' = [rcv EXCEPT
                       ![s].bits = {i \in 0..(TotalChunks - 1) : i < rcv[s].pos + 1},
                       ![s].pos = rcv[s].pos + 1,
                       ![s].ack = IF AckDue(rcv[s].pos + 1, rcv[s].ack) THEN rcv[s].pos + 1 ELSE rcv[s].ack]
      BY <1>4, <2>2, RecvDataStep, Zenon DEF IInv
    <3>2. rcv'[s].pc = rcv[s].pc /\ rcv'[s].state = rcv[s].state
      BY <1>t, <3>1, Zenon DEF RcvRecord
    <3>3. PICK f : f = Frame("ACK", rcv[s].pos)
      OBVIOUS
    <3>4. HasDone(s)' => HasDone(s)
      BY <1>n, <1>f, <1>q, <3>1, <3>3, DownHas, ZenonT(60)
    <3> QED BY <2>0, <3>2, <3>4
  <2> QED BY <2>1, <2>2
<1>5. ASSUME CleanupSession(s), UNCHANGED <<final, waiter>>,
             UNCHANGED down \/ SendDown(s, Frame("ERROR", 0))
      PROVE  Goal
  <2>1. PICK f : f = Frame("ERROR", 0)
    OBVIOUS
  <2>2. HasDone(s)' => HasDone(s)
    BY <1>n, <1>f, <1>q, <1>5, <2>1, DownHas
  <2> QED BY <1>5, <2>2, CleanedIsNeither
<1>6. CASE WriteFails(s) \/ RecvEnds(s)
  BY <1>5, <1>6 DEF WriteFails, RecvEnds
<1>7. CASE RecvFin(s)
  <2>1. rcv'[s].pc = "verify" /\ rcv'[s].state = rcv[s].state
    BY <1>7, <1>t DEF RecvFin, RcvRecord
  <2> QED BY <1>7, <1>q, <2>1 DEF RecvFin, diskVars
<1>8. CASE Verify(s)
  <2>1. CASE CleanupSession(s) /\ SendDown(s, Frame("ERROR", 0))
    BY <1>5, <1>8, <2>1 DEF Verify
  <2>2. CASE ~(CleanupSession(s) /\ SendDown(s, Frame("ERROR", 0)))
    <3>1. rcv'[s].pc = "rename" /\ rcv'[s].state = rcv[s].state /\ UNCHANGED <<down, final, waiter>>
      BY <1>8, <1>t, <2>2 DEF Verify, RcvRecord
    <3> QED BY <1>q, <3>1
  <2> QED BY <2>1, <2>2
<1>9. CASE Rename(s)
  <2>1. CASE tmp = None
    BY <1>5, <1>9, <2>1 DEF Rename
  <2>2. CASE tmp # None
    BY <1>9, <2>2 DEF Rename
  <2> QED BY <2>1, <2>2
<1>10. CASE WriteDone(s)
  <2>1. PICK st : st = rcv[s].state
    OBVIOUS
  <2>2. EndHandler(s, st) /\ rcv[s].pc = "finish" /\ UNCHANGED <<final, waiter>>
    BY <1>10, <2>1 DEF WriteDone, diskVars
  <2>3. rcv'[s].pc = "idle" /\ rcv'[s].state = st
    BY <2>2, EndedIsNeither
  <2> QED BY <2>1, <2>2, <2>3
<1>11. CASE CancelRecv(s)
  <2>1. rcv'[s].pc = rcv[s].pc /\ rcv'[s].state = "cancelled"
    BY <1>11, <1>t DEF CancelRecv, RcvRecord
  <2> QED BY <1>11, <1>q, <2>1 DEF CancelRecv, netVars, diskVars
<1>12. CASE Break(s)
  <2>1. PICK j \in 0..Len(down[s]) : down'[s] = SubSeq(down[s], 1, j)
    BY <1>12 DEF Break, IInv, TypeOK, NetType
  <2>2. HasDone(s)' => HasDone(s)
    BY <1>t, <2>1 DEF HasDone
  <2> QED BY <1>12, <2>2 DEF Break, diskVars
<1> QED BY <1>1, <1>2, <1>3, <1>4, <1>6, <1>7, <1>8, <1>9, <1>10, <1>11, <1>12 DEF HandleFileStream

-----------------------------------------------------------------------------
(* A handler that writes nothing and opens no file.                        *)
LEMMA QuietDisk ==
  ASSUME IInv, DiskInv, NEW s \in Streams, HandleFileStream(s) \/ CancelRecv(s) \/ Break(s),
         UNCHANGED <<data, final>>, tmp' \in {tmp, None},
         rcv'[s].pc \in {"accept", "loop"} =>
           /\ rcv[s].pc \in {"accept", "loop"}
           /\ rcv'[s].ino = rcv[s].ino /\ rcv'[s].pos = rcv[s].pos,
         rcv'[s].pc = "rename" => rcv[s].pc = "rename",
         rcv'[s].pc = "init" /\ up'[s] # <<>> =>
           rcv[s].pc = "init" /\ up[s] # <<>> /\ Head(up'[s]) = Head(up[s]),
         rcv'[s].pc = "create" => rcv[s].pc = "create" \/ tmp = None
  PROVE  FirstFile' /\ Files' /\ Pure'
<1>1. snd' = snd /\ \A t \in Streams \ {s} : Same(t)
  BY ReceiverFrame
<1>2. /\ \A t \in Streams : rcv'[t].pc \in {"accept", "loop"} =>
           /\ rcv[t].pc \in {"accept", "loop"}
           /\ rcv'[t].ino = rcv[t].ino /\ rcv'[t].pos = rcv[t].pos
      /\ \A t \in Streams : rcv'[t].pc = "rename" => rcv[t].pc = "rename"
      /\ \A t \in Streams : rcv'[t].pc = "init" /\ up'[t] # <<>> =>
           rcv[t].pc = "init" /\ up[t] # <<>> /\ Head(up'[t]) = Head(up[t])
      /\ \A t \in Streams : rcv'[t].pc = "create" => rcv[t].pc = "create" \/ tmp = None
  BY <1>1 DEF Same
<1>3. FirstFile'
  BY <1>1, <1>2 DEF DiskInv, FirstFile
<1>4. Files'
  BY <1>2 DEF DiskInv, Files, Whole
<1>5. Pure'
  <2>1. ASSUME NEW i, Clean(i) PROVE Clean(i)'
    BY <2>1 DEF Clean
  <2> QED BY <1>2, <2>1 DEF Pure, DiskInv
<1> QED BY <1>3, <1>4, <1>5

(* Reading INIT: the part file is reopened at its end, or there is none.   *)
LEMMA InitKeepsDisk ==
  ASSUME IInv, DiskInv, NEW s \in Streams, RecvInit(s)
  PROVE  FirstFile' /\ Files' /\ Pure'
<1>h. HandleFileStream(s)
  BY DEF HandleFileStream
<1>t. rcv[s] \in RcvRecord /\ s \in DOMAIN rcv /\ up[s] \in Seq(UpFrame)
  BY DEF IInv, TypeOK, RcvType, NetType
<1>0. rcv[s].pc = "init" /\ UNCHANGED <<tmp, final, data>>
  BY DEF RecvInit, diskVars
<1>1. CASE EndHandler(s, "none")
  <2>1. rcv'[s].pc = "idle"
    BY <1>1, EndedIsNeither
  <2> QED BY <1>h, <1>0, <2>1, QuietDisk
<1>2. CASE ~EndHandler(s, "none")
  <2>1. /\ NextIs(s, "INIT")
        /\ rcv'[s] = IF Head(up[s]).n > 0 /\ tmp # None
                     THEN [Idle EXCEPT !.pc = "accept", !.ino = tmp, !.pos = Len(data[tmp]),
                                       !.bits = ReopenedChunks(Head(up[s]).n, Len(data[tmp]))]
                     ELSE [Idle EXCEPT !.pc = "create"]
    BY <1>t, <1>2 DEF RecvInit
  <2>2. CASE Head(up[s]).n > 0 /\ tmp # None
    <3>0. PICK len, bits : len = Len(data[tmp]) /\ bits = ReopenedChunks(Head(up[s]).n, Len(data[tmp]))
      BY Zenon
    <3>1. rcv'[s].pc = "accept" /\ rcv'[s].ino = tmp /\ rcv'[s].pos = len
      BY <2>1, <2>2, <3>0 DEF Idle
    <3>2. snd' = snd /\ \A t \in Streams \ {s} : Same(t)
      BY <1>h, ReceiverFrame
    <3>3. len \in Nat
      BY <2>2, <3>0 DEF IInv, TypeOK, DiskType
    <3>4. FirstFile'
      BY <1>0, <3>1, <3>2 DEF DiskInv, FirstFile, Same
    <3>5. Files'
      BY <1>0, <3>0, <3>1, <3>2, <3>3 DEF DiskInv, Files, Same, Whole
    <3>6. Pure'
      <4>1. ASSUME NEW i, Clean(i) PROVE Clean(i)'
        BY <1>0, <4>1 DEF Clean
      <4>2. ~TornWrites => Clean(tmp)
        BY <2>2 DEF DiskInv, Pure
      <4>3. ASSUME ~TornWrites, NEW t \in Streams, rcv'[t].pc \in {"accept", "loop"} PROVE Clean(rcv'[t].ino)
        BY <3>1, <3>2, <4>2, <4>3 DEF Same, Pure, DiskInv
      <4>4. ASSUME ~TornWrites, NEW t \in Streams, (rcv[t].pc \in {"accept", "loop"})' PROVE Clean(rcv[t].ino)'
        <5>1. PICK i : i = rcv'[t].ino
          OBVIOUS
        <5>2. Clean(i)'
          BY <4>1, <4>3, <4>4, <5>1
        <5> QED BY <5>1, <5>2 DEF Clean
      <4> QED BY <1>0, <4>1, <4>2, <4>4 DEF Pure
    <3> QED BY <3>4, <3>5, <3>6
  <2>3. CASE ~(Head(up[s]).n > 0 /\ tmp # None)
    <3>1. rcv'[s].pc = "create"
      BY <2>1, <2>3 DEF Idle
    <3>2. tmp = None
      <4>1. up[s] # <<>> /\ Head(up[s]) \in UpFrame
        BY <1>t, <2>1 DEF NextIs
      <4>2. Head(up[s]).n \in Nat
        BY <4>1 DEF UpFrame
      <4> QED BY <1>0, <2>3, <4>1, <4>2 DEF DiskInv, FirstFile
    <3> QED BY <1>h, <1>0, <3>1, <3>2, QuietDisk
  <2> QED BY <2>2, <2>3
<1> QED BY <1>1, <1>2

(* os.Create: there is no part file, so the inode is a new one.            *)
LEMMA CreateKeepsDisk ==
  ASSUME IInv, DiskInv, NEW s \in Streams, CreatePart(s)
  PROVE  FirstFile' /\ Files' /\ Pure'
<1>h. HandleFileStream(s)
  BY DEF HandleFileStream
<1>t. rcv[s] \in RcvRecord /\ s \in DOMAIN rcv
  BY DEF IInv, TypeOK, RcvType
<1>0. rcv[s].pc = "create" /\ final' = final
  BY DEF CreatePart
<1>1. CASE EndHandler(s, "none") /\ UNCHANGED <<tmp, data>>
  <2>1. rcv'[s].pc = "idle"
    BY <1>1, EndedIsNeither
  <2> QED BY <1>h, <1>0, <1>1, <2>1, QuietDisk
<1>2. CASE ~(EndHandler(s, "none") /\ UNCHANGED <<tmp, data>>)
  <2>1. tmp = None
    BY <1>0 DEF DiskInv, FirstFile
  <2>2. PICK i \in Inodes : /\ FreshInode(i) /\ tmp' = i /\ data' = [data EXCEPT ![i] = <<>>]
                            /\ rcv' = [rcv EXCEPT ![s].pc = "accept", ![s].ino = i]
    BY <1>2, <2>1 DEF CreatePart
  <2>3. rcv'[s].pc = "accept" /\ rcv'[s].ino = i /\ rcv'[s].pos = 0
    BY <1>t, <1>0, <2>2, ZenonT(60) DEF RcvRecord, IInv, UpShape, UpShapeAt
  <2>4. snd' = snd /\ \A t \in Streams \ {s} : Same(t)
    BY <1>h, ReceiverFrame
  <2>5. /\ data'[i] = <<>> /\ Len(data'[i]) = 0
        /\ \A j \in Inodes \ {i} : data'[j] = data[j]
    BY <2>2 DEF IInv, TypeOK, DiskType
  <2>6. i # None /\ i # final /\ \A t \in Streams : rcv[t].ino # i
    BY <2>2, RelayFileAssumption DEF FreshInode
  <2>7. \A p \in Senders : snd[p].stream = s /\ snd[p].pc \in {"accept"} \cup Returned
    BY <1>0 DEF DiskInv, Phases, PhasesAt, Early
  <2>8. \A t \in Streams \ {s} : ~Early(t) /\ rcv[t].pc # "rename"
    <3>1. \A t \in Streams : rOpen[t] => owner[t] \in Senders
      BY DEF IInv, UpShape, UpShapeAt
    <3>2. \A t \in Streams : rcv[t].pc # "idle" => rOpen[t]
      BY DEF IInv, UpShape, UpShapeAt
    <3>3. ASSUME NEW t \in Streams, t # s, Early(t) \/ rcv[t].pc = "rename" PROVE FALSE
      <4>1. PICK p \in Senders : TRUE
        BY <3>1, <3>2, <3>3 DEF Early
      <4>2. PhasesAt(p, t) /\ (Early(t) \/ Late(t))
        BY <3>2, <3>3 DEF DiskInv, Phases, Late
      <4> QED BY <2>7, <3>3, <4>1, <4>2 DEF PhasesAt
    <3> QED BY <3>3
  <2>9. FirstFile'
    <3>1. ASSUME NEW p \in Senders
          PROVE  /\ snd'[p].pc = "ack" => snd'[p].seq > 0
                 /\ ~(snd'[p].pc \in {"open", "init"})
      BY <2>4, <2>7 DEF Returned
    <3>2. \A t \in Streams : rcv'[t].pc # "init" /\ rcv'[t].pc # "create"
      BY <2>3, <2>4, <2>8 DEF Early, Same
    <3> QED BY <3>1, <3>2 DEF FirstFile
  <2>10. Files'
    <3>1. tmp' # final'
      BY <1>0, <2>2, <2>6
    <3>2. ASSUME NEW t \in Streams, rcv'[t].pc \in {"accept", "loop"}
          PROVE  rcv'[t].pos <= Len(data'[rcv'[t].ino])
      <4>1. CASE t = s
        BY <2>3, <2>5, <4>1
      <4>2. CASE t # s
        <5>1. rcv'[t] = rcv[t] /\ rcv[t].ino \in Inodes /\ rcv[t].ino # i
          BY <2>4, <2>6, <3>2, <4>2 DEF Same, IInv, UpShape, UpShapeAt
        <5> QED BY <2>5, <3>2, <5>1 DEF DiskInv, Files
      <4> QED BY <4>1, <4>2
    <3>3. \A t \in Streams : rcv'[t].pc # "rename"
      BY <2>3, <2>4, <2>8 DEF Same
    <3>4. final # None => \A p \in Senders : data'[final] = File(Content[p])
      BY <2>5, <2>6 DEF DiskInv, Files, Whole, IInv, TypeOK, DiskType
    <3> QED BY <1>0, <3>1, <3>2, <3>3, <3>4 DEF Files, Whole
  <2>11. Pure'
    <3>1. ASSUME NEW j \in Inodes, Clean(j) \/ j = i PROVE Clean(j)'
      BY <2>5, <3>1 DEF Clean
    <3>2. ASSUME ~TornWrites, NEW t \in Streams, rcv'[t].pc \in {"accept", "loop"}
          PROVE  rcv'[t].ino \in Inodes /\ (Clean(rcv'[t].ino) \/ rcv'[t].ino = i)
      BY <2>3, <2>4, <3>2 DEF Same, Pure, DiskInv, IInv, UpShape, UpShapeAt
    <3>3. ASSUME ~TornWrites, NEW t \in Streams, (rcv[t].pc \in {"accept", "loop"})' PROVE Clean(rcv[t].ino)'
      <4>1. PICK j : j = rcv'[t].ino
        OBVIOUS
      <4>2. Clean(j)'
        BY <3>1, <3>2, <3>3, <4>1
      <4> QED BY <4>1, <4>2 DEF Clean
    <3>4. Clean(tmp)'
      <4>1. Clean(i)'
        BY <3>1
      <4> QED BY <2>2, <4>1 DEF Clean
    <3> QED BY <3>3, <3>4 DEF Pure
  <2> QED BY <2>9, <2>10, <2>11
<1> QED BY <1>1, <1>2

-----------------------------------------------------------------------------
(* A chunk written at the position of the session leaves no hole, and a    *)
(* whole file whole.                                                       *)
LEMMA WriteKeeps ==
  ASSUME IInv, OneSender, NEW p \in Senders, NEW i \in Inodes, NEW pos \in Nat,
         pos <= Len(data[i]), pos < TotalChunks,
         data' = [data EXCEPT ![i] = WriteAt(@, pos, <<Content[p], pos>>)]
  PROVE  /\ Len(data'[i]) \in Nat /\ pos + 1 <= Len(data'[i])
         /\ \A j \in Inodes : Len(data[j]) <= Len(data'[j])
         /\ \A j \in Inodes : Whole(j) => Whole(j)'
         /\ \A j \in Inodes : Clean(j) => Clean(j)'
<1>p. PICK c : c = <<Content[p], pos>>
  OBVIOUS
<1>t. data \in [Inodes -> Seq(Chunk)]
  BY DEF IInv, TypeOK, DiskType
<1>c. File(Content[p]) \in Seq(Chunk) /\ c \in Chunk
  BY <1>p, FileIsSeq
<1>1. data'[i] = WriteAt(data[i], pos, c) /\ \A j \in Inodes \ {i} : data'[j] = data[j]
  BY <1>p, <1>t
<1>2. PICK d \in Seq(Chunk) : d = data[i]
  BY <1>t
<1>n. pos <= Len(d)
  BY <1>2
<1>3. PICK w : w = WriteAt(d, pos, c)
  OBVIOUS
<1>4. /\ Len(w) \in Nat /\ Len(w) >= Len(d) /\ Len(w) >= pos + 1
      /\ \A k \in 1..Len(w) : w[k] = IF k = pos + 1 THEN c ELSE d[k]
      /\ \A k \in 1..Len(w) : k # pos + 1 => k \in 1..Len(d)
  BY <1>3, <1>c, <1>n, WriteAtIs, SMTT(30)
<1>5. data'[i] = w
  BY <1>1, <1>2, <1>3
<1>6. \A j \in Inodes : Len(data[j]) \in Nat
  BY <1>t
<1>7. ASSUME NEW j \in Inodes PROVE Len(data[j]) <= Len(data'[j])
  <2>1. CASE j = i
    BY <1>2, <1>4, <1>5, <2>1
  <2>2. CASE j # i
    BY <1>1, <1>6, <2>2
  <2> QED BY <2>1, <2>2
<1>8. ASSUME NEW j \in Inodes, Whole(j) PROVE Whole(j)'
  <2>1. CASE j = i
    <3>1. d = File(Content[p])
      BY <1>2, <1>8, <2>1 DEF Whole
    <3>2. w = File(Content[p])
      BY <1>3, <1>c, <1>p, <3>1, WholeStays
    <3>3. \A q \in Senders : q = p
      BY DEF OneSender
    <3> QED BY <1>5, <2>1, <3>2, <3>3 DEF Whole
  <2>2. CASE j # i
    BY <1>1, <1>8, <2>2 DEF Whole
  <2> QED BY <2>1, <2>2
<1>9. ASSUME NEW j \in Inodes, Clean(j) PROVE Clean(j)'
  <2>1. CASE j = i
    <3>1. \A k \in 1..Len(d) : d[k] = <<Content[p], k - 1>>
      BY <1>2, <1>9, <2>1 DEF Clean
    <3>2. ASSUME NEW k \in 1..Len(w) PROVE w[k] = <<Content[p], k - 1>>
      <4>1. CASE k = pos + 1
        <5>1. k - 1 = pos
          BY <4>1
        <5> QED BY <1>4, <1>p, <4>1, <5>1
      <4>2. CASE k # pos + 1
        BY <1>4, <3>1, <4>2, SMTT(30)
      <4> QED BY <4>1, <4>2
    <3>3. \A q \in Senders : q = p
      BY DEF OneSender
    <3> QED BY <1>5, <2>1, <3>2, <3>3, ZenonT(60) DEF Clean
  <2>2. CASE j # i
    BY <1>1, <1>9, <2>2 DEF Clean
  <2> QED BY <2>1, <2>2
<1> QED BY <1>4, <1>5, <1>7, <1>8, <1>9

(* A chunk is written, to the part file or to a file that was renamed or   *)
(* removed while the session was open.                                     *)
LEMMA DataKeepsDisk ==
  ASSUME IInv, DiskInv, OneSender, NEW s \in Streams, RecvData(s)
  PROVE  FirstFile' /\ Files' /\ Pure'
<1>h. HandleFileStream(s)
  BY DEF HandleFileStream
<1>t. rcv[s] \in RcvRecord /\ s \in DOMAIN rcv
  BY DEF IInv, TypeOK, RcvType
<1>0. rcv[s].pc = "loop" /\ NextIs(s, "DATA") /\ final' = final
  BY DEF RecvData
<1>1. PICK i \in Inodes : i = rcv[s].ino
  BY <1>0 DEF IInv, UpShape, UpShapeAt
<1>2. PICK pos \in Nat : pos = rcv[s].pos
  BY <1>t DEF RcvRecord
<1>3. PICK p \in Senders : p = owner[s]
  BY <1>0 DEF IInv, UpShape, UpShapeAt
<1>4. pos <= Len(data[i]) /\ pos < TotalChunks
  BY <1>0, <1>1, <1>2, DataIsNext, ZenonT(60) DEF DiskInv, Files, IInv
<1>5. data' = [data EXCEPT ![i] = WriteAt(@, pos, <<Content[p], pos>>)]
  BY <1>1, <1>2, <1>3, RecvDataStep, ZenonT(60) DEF Checksum, IInv
<1>6. /\ Len(data'[i]) \in Nat /\ pos + 1 <= Len(data'[i])
      /\ \A j \in Inodes : Len(data[j]) <= Len(data'[j])
      /\ \A j \in Inodes : Whole(j) => Whole(j)'
      /\ \A j \in Inodes : Clean(j) => Clean(j)'
  BY <1>4, <1>5, WriteKeeps, ZenonT(60)
<1>7. snd' = snd /\ \A t \in Streams \ {s} : Same(t)
  BY <1>h, ReceiverFrame
<1>8. /\ tmp' \in {tmp, None}
      /\ \/ rcv'[s].pc = "idle"
         \/ rcv'[s].pc = "loop" /\ rcv'[s].ino = i /\ rcv'[s].pos = pos + 1
  <2>1. CASE CleanupSession(s)
    BY <2>1, CleanedIsNeither
  <2>2. CASE ~CleanupSession(s)
    <3>1. /\ tmp' = tmp
          /\ rcv' = [rcv EXCEPT
                       ![s].bits = {k \in 0..(TotalChunks - 1) : k < rcv[s].pos + 1},
                       ![s].pos = rcv[s].pos + 1,
                       ![s].ack = IF AckDue(rcv[s].pos + 1, rcv[s].ack) THEN rcv[s].pos + 1 ELSE rcv[s].ack]
      BY <2>2, RecvDataStep, ZenonT(60) DEF IInv
    <3>2. rcv'[s].pc = rcv[s].pc /\ rcv'[s].ino = rcv[s].ino /\ rcv'[s].pos = rcv[s].pos + 1
      BY <1>t, <3>1, ZenonT(60) DEF RcvRecord
    <3> QED BY <1>0, <1>1, <1>2, <3>1, <3>2, ZenonT(60)
  <2> QED BY <2>1, <2>2
<1>9. FirstFile'
  BY <1>7, <1>8 DEF DiskInv, FirstFile, Same
<1>l. \A j \in Inodes : Len(data[j]) \in Nat /\ Len(data'[j]) \in Nat
  <2>1. data \in [Inodes -> Seq(Chunk)]
    BY DEF IInv, TypeOK, DiskType
  <2>2. \A j \in Inodes : j # i => data'[j] = data[j]
    BY <1>5, <2>1
  <2> QED BY <1>6, <2>1, <2>2
<1>s. \A t \in Streams : rcv[t].pos \in Nat /\ (rcv[t].pc \in {"accept", "loop"} => rcv[t].ino \in Inodes)
  BY DEF IInv, UpShape, UpShapeAt, TypeOK, RcvType, RcvRecord
<1>d. tmp \in Inodes \cup {None} /\ final \in Inodes \cup {None}
  BY DEF IInv, TypeOK, DiskType
<1>10. Files'
  <2>1. tmp' # None => tmp' # final'
    BY <1>0, <1>8 DEF DiskInv, Files
  <2>2. ASSUME NEW t \in Streams, rcv'[t].pc \in {"accept", "loop"}
        PROVE  rcv'[t].pos <= Len(data'[rcv'[t].ino])
    <3>1. CASE t = s
      BY <1>6, <1>8, <2>2, <3>1
    <3>2. CASE t # s
      <4>1. rcv'[t] = rcv[t]
        BY <1>7, <3>2 DEF Same
      <4>2. rcv[t].pos <= Len(data[rcv[t].ino])
        BY <2>2, <4>1 DEF DiskInv, Files
      <4>3. PICK j \in Inodes : j = rcv[t].ino
        BY <1>s, <2>2, <4>1
      <4> QED BY <1>6, <1>l, <1>s, <4>1, <4>2, <4>3
    <3> QED BY <3>1, <3>2
  <2>3. ASSUME NEW t \in Streams, rcv'[t].pc = "rename", tmp' # None PROVE Whole(tmp)'
    <3>1. tmp \in Inodes /\ tmp' = tmp /\ Whole(tmp)
      BY <1>7, <1>8, <1>d, <2>3 DEF DiskInv, Files, Same
    <3>2. PICK j \in Inodes : j = tmp
      BY <3>1
    <3>3. Whole(j)'
      BY <1>6, <3>1, <3>2
    <3> QED BY <3>1, <3>2, <3>3 DEF Whole
  <2>4. ASSUME final' # None PROVE Whole(final)'
    <3>1. PICK j \in Inodes : j = final
      BY <1>0, <1>d, <2>4
    <3>2. Whole(j)'
      BY <1>0, <1>6, <2>4, <3>1 DEF DiskInv, Files
    <3> QED BY <1>0, <3>1, <3>2 DEF Whole
  <2> QED BY <2>1, <2>2, <2>3, <2>4 DEF Files
<1>11. Pure'
  <2>1. ASSUME ~TornWrites, tmp' # None PROVE Clean(tmp)'
    <3>1. PICK j \in Inodes : j = tmp /\ Clean(j)
      BY <1>8, <1>d, <2>1 DEF DiskInv, Pure
    <3>2. Clean(j)'
      BY <1>6, <3>1
    <3> QED BY <1>8, <2>1, <3>1, <3>2 DEF Clean
  <2>2. ASSUME ~TornWrites, NEW t \in Streams, (rcv[t].pc \in {"accept", "loop"})' PROVE Clean(rcv[t].ino)'
    <3>1. PICK j \in Inodes : j = rcv'[t].ino /\ Clean(j)
      <4>1. CASE t = s
        BY <1>0, <1>1, <1>8, <2>2, <4>1 DEF DiskInv, Pure
      <4>2. CASE t # s
        BY <1>7, <1>s, <2>2, <4>2 DEF DiskInv, Pure, Same
      <4> QED BY <4>1, <4>2
    <3>2. Clean(j)'
      BY <1>6, <3>1
    <3> QED BY <3>1, <3>2 DEF Clean
  <2> QED BY <2>1, <2>2 DEF Pure
<1> QED BY <1>9, <1>10, <1>11

(* The hash is compared with the file under the part name.                 *)
LEMMA VerifyKeepsDisk ==
  ASSUME IInv, DiskInv, OneSender, NEW s \in Streams, Verify(s)
  PROVE  FirstFile' /\ Files' /\ Pure'
<1>h. HandleFileStream(s)
  BY DEF HandleFileStream
<1>t. rcv[s] \in RcvRecord /\ s \in DOMAIN rcv
  BY DEF IInv, TypeOK, RcvType
<1>0. rcv[s].pc = "verify" /\ UNCHANGED <<data, final>>
  BY DEF Verify
<1>1. CASE CleanupSession(s)
  BY <1>h, <1>0, <1>1, CleanedIsNeither, QuietDisk
<1>2. CASE ~CleanupSession(s)
  <2>1. VerifyFileHash(s) /\ rcv'[s].pc = "rename" /\ tmp' = tmp
    BY <1>t, <1>2 DEF Verify, RcvRecord
  <2>2. Whole(tmp)
    <3>1. owner[s] \in Senders
      BY <1>0 DEF IInv, UpShape, UpShapeAt
    <3> QED BY <2>1, <3>1 DEF VerifyFileHash, Checksum, Whole, OneSender
  <2>3. snd' = snd /\ \A t \in Streams \ {s} : Same(t)
    BY <1>h, ReceiverFrame
  <2>4. FirstFile'
    BY <2>1, <2>3, ZenonT(30) DEF DiskInv, FirstFile, Same
  <2>5. Files'
    BY <1>0, <2>1, <2>2, <2>3, Zenon DEF DiskInv, Files, Same, Whole
  <2>6. Pure'
    <3>1. ASSUME NEW i, Clean(i) PROVE Clean(i)'
      BY <1>0, <3>1 DEF Clean
    <3>2. \A t \in Streams : rcv'[t].pc \in {"accept", "loop"} => rcv'[t] = rcv[t]
      BY <2>1, <2>3 DEF Same
    <3> QED BY <2>1, <3>1, <3>2 DEF DiskInv, Pure
  <2> QED BY <2>4, <2>5, <2>6
<1> QED BY <1>1, <1>2

(* The verified file gets its final name.                                  *)
LEMMA RenameKeepsDisk ==
  ASSUME IInv, DiskInv, NEW s \in Streams, Rename(s)
  PROVE  FirstFile' /\ Files' /\ Pure'
<1>h. HandleFileStream(s)
  BY DEF HandleFileStream
<1>t. rcv[s] \in RcvRecord /\ s \in DOMAIN rcv
  BY DEF IInv, TypeOK, RcvType
<1>0. rcv[s].pc = "rename" /\ UNCHANGED data
  BY DEF Rename
<1>1. CASE tmp = None
  <2>1. CleanupSession(s) /\ final' = final
    BY <1>1 DEF Rename
  <2> QED BY <1>h, <1>0, <2>1, CleanedIsNeither, QuietDisk, ZenonT(60)
<1>2. CASE tmp # None
  <2>1. final' = tmp /\ tmp' = None /\ rcv'[s].pc = "finish"
    BY <1>t, <1>2 DEF Rename, RcvRecord
  <2>2. Whole(tmp)
    BY <1>0, <1>2 DEF DiskInv, Files
  <2>3. snd' = snd /\ \A t \in Streams \ {s} : Same(t)
    BY <1>h, ReceiverFrame
  <2>4. FirstFile'
    BY <2>1, <2>3 DEF DiskInv, FirstFile, Same
  <2>5. Files'
    BY <1>0, <2>1, <2>2, <2>3 DEF DiskInv, Files, Same, Whole
  <2>6. Pure'
    <3>1. ASSUME NEW i, Clean(i) PROVE Clean(i)'
      BY <1>0, <3>1 DEF Clean
    <3>2. \A t \in Streams : rcv'[t].pc \in {"accept", "loop"} => rcv'[t] = rcv[t]
      BY <2>1, <2>3 DEF Same
    <3> QED BY <2>1, <3>1, <3>2 DEF DiskInv, Pure
  <2> QED BY <2>4, <2>5, <2>6
<1> QED BY <1>1, <1>2

-----------------------------------------------------------------------------
(* A step of a handler on the files.                                       *)
LEMMA ReceiverKeepsDisk ==
  ASSUME IInv, DiskInv, OneSender, NEW s \in Streams, HandleFileStream(s) \/ CancelRecv(s) \/ Break(s)
  PROVE  FirstFile' /\ Files' /\ Pure'
<1>t. rcv[s] \in RcvRecord /\ s \in DOMAIN rcv /\ up[s] \in Seq(UpFrame)
  BY DEF IInv, TypeOK, RcvType, NetType
<1>1. CASE RecvInit(s) \/ CreatePart(s) \/ RecvData(s) \/ Verify(s) \/ Rename(s)
  BY <1>1, InitKeepsDisk, CreateKeepsDisk, DataKeepsDisk, VerifyKeepsDisk, RenameKeepsDisk
<1>2. CASE WriteAccept(s)
  <2>0. UNCHANGED <<data, final>> /\ rcv[s].pc = "accept"
    BY <1>2 DEF WriteAccept
  <2>1. CASE EndHandler(s, "none") /\ tmp' = None
    <3>1. rcv'[s].pc = "idle"
      BY <2>1, EndedIsNeither
    <3> QED BY <2>0, <2>1, <3>1, QuietDisk
  <2>2. CASE ~(EndHandler(s, "none") /\ tmp' = None)
    <3>1. /\ rcv' = [rcv EXCEPT ![s].pc = "loop", ![s].pos = rcv[s].pos, ![s].ack = rcv[s].pos,
                                ![s].state = "transfer"]
          /\ tmp' = tmp
      BY <1>2, <2>2, AcceptStep, ZenonT(60)
    <3>2. rcv'[s].pc = "loop" /\ rcv'[s].ino = rcv[s].ino /\ rcv'[s].pos = rcv[s].pos
      BY <1>t, <3>1 DEF RcvRecord
    <3> QED BY <2>0, <3>1, <3>2, QuietDisk, ZenonT(60)
  <2> QED BY <2>1, <2>2
<1>3. CASE WriteFails(s) \/ RecvEnds(s)
  <2>1. CleanupSession(s) /\ UNCHANGED <<data, final>>
    BY <1>3 DEF WriteFails, RecvEnds
  <2>2. rcv'[s].pc = "idle" /\ tmp' \in {tmp, None}
    BY <2>1, CleanedIsNeither
  <2> QED BY <2>1, <2>2, QuietDisk
<1>4. CASE RecvFin(s)
  <2>1. rcv'[s].pc = "verify"
    BY <1>4, <1>t DEF RecvFin, RcvRecord
  <2> QED BY <1>4, <2>1, QuietDisk, ZenonT(60) DEF RecvFin, diskVars
<1>5. CASE WriteDone(s)
  <2>1. PICK st : st = rcv[s].state
    OBVIOUS
  <2>2. EndHandler(s, st) /\ UNCHANGED <<data, final, tmp>>
    BY <1>5, <2>1, ZenonT(60) DEF WriteDone, diskVars
  <2>3. rcv'[s].pc = "idle"
    BY <2>2, EndedIsNeither
  <2> QED BY <2>2, <2>3, QuietDisk
<1>6. CASE CancelRecv(s)
  <2>1. rcv'[s].pc = rcv[s].pc /\ rcv'[s].ino = rcv[s].ino /\ rcv'[s].pos = rcv[s].pos
    BY <1>6, <1>t DEF CancelRecv, RcvRecord
  <2> QED BY <1>6, <2>1, QuietDisk, ZenonT(60) DEF CancelRecv, netVars, diskVars
<1>7. CASE Break(s)
  <2>1. PICK i \in 0..Len(up[s]) : up'[s] = SubSeq(up[s], 1, i)
    BY <1>7 DEF Break, IInv, TypeOK, NetType
  <2>2. up'[s] # <<>> => up[s] # <<>> /\ Head(up'[s]) = Head(up[s])
    BY <1>t, <2>1
  <2> QED BY <1>7, <2>2, QuietDisk, ZenonT(60) DEF Break, diskVars
<1> QED BY <1>1, <1>2, <1>3, <1>4, <1>5, <1>6, <1>7 DEF HandleFileStream

(* A restart ends all handlers and may tear the last chunk of the part     *)
(* file, never one of the saved file.                                      *)
LEMMA CrashKeepsDisk ==
  ASSUME IInv, DiskInv, Crash
  PROVE  DiskInv'
<1>0. UNCHANGED <<snd, down, tmp, final>> /\ waiter'.pc = "off"
  BY DEF Crash
<1>1. \A t \in Streams : rcv'[t].pc = "idle" /\ rcv'[t].state = "none" /\ ~rOpen'[t]
  BY DEF Crash, Idle
<1>2. Phases'
  BY <1>1 DEF Phases, PhasesAt, Early, Late
<1>3. FirstFile'
  BY <1>0, <1>1 DEF FirstFile, DiskInv
<1>4. final # None => data'[final] = data[final]
  <2>1. CASE data' = data
    BY <2>1
  <2>2. CASE data' # data
    <3>1. PICK s \in Streams : /\ Writing(s)
                               /\ data' = [data EXCEPT ![tmp] = WriteAt(@, rcv[s].pos, <<"torn", 0>>)]
      BY <2>2 DEF Crash
    <3>2. tmp \in Inodes /\ tmp # None
      BY <3>1, RelayFileAssumption DEF Writing, IInv, UpShape, UpShapeAt
    <3>3. final # None => final # tmp /\ final \in Inodes
      BY <3>2 DEF DiskInv, Files, IInv, TypeOK, DiskType
    <3> QED BY <3>1, <3>3 DEF IInv, TypeOK, DiskType
  <2> QED BY <2>1, <2>2
<1>5. Files'
  BY <1>0, <1>1, <1>4 DEF Files, DiskInv, Whole
<1>6. Saved'
  BY <1>0, <1>1 DEF Saved, DiskInv
<1>7. Pure'
  <2>1. ASSUME ~TornWrites, tmp # None PROVE Clean(tmp)'
    <3>1. data' = data
      BY <2>1 DEF Crash
    <3> QED BY <1>0, <2>1, <3>1 DEF DiskInv, Pure, Clean
  <2> QED BY <1>0, <1>1, <2>1 DEF Pure
<1> QED BY <1>2, <1>3, <1>5, <1>6, <1>7 DEF DiskInv

(* ReceiveFile only reads; the file sent back is not in the directory.     *)
LEMMA WaiterKeepsDisk ==
  ASSUME IInv, DiskInv, SendBack \/ CancelBack \/ Poll \/ LoadSession \/ UNCHANGED vars
  PROVE  DiskInv'
<1>0. UNCHANGED <<snd, rcv, owner, up, down, sOpen, rOpen, broken, stored, tmp, final, data>>
  BY DEF SendBack, CancelBack, Poll, LoadSession, vars, netVars, diskVars
<1>1. Phases'
  <2>1. ASSUME NEW p \in Senders, NEW s \in Streams PROVE PhasesAt(p, s)'
    BY <1>0, SamePhases DEF Same, DiskInv, Phases
  <2> QED BY <2>1 DEF Phases
<1>2. FirstFile'
  BY <1>0 DEF FirstFile, DiskInv
<1>3. Files'
  BY <1>0 DEF Files, DiskInv, Whole
<1>4. Pure'
  BY <1>0 DEF Pure, DiskInv, Clean
<1>5. Saved'
  <2> SUFFICES ASSUME final = None PROVE Saved'
    BY <1>0 DEF Saved
  <2>1. waiter'.sid \in Streams => waiter'.pc # "ok"
    <3>0. waiter.sid \in Streams => waiter.pc # "ok"
      BY DEF DiskInv, Saved
    <3>1. CASE LoadSession
      <4>1. waiter'.sid = waiter.sid
        BY <3>1 DEF LoadSession, IInv, TypeOK, NodeType
      <4>2. waiter.sid \in Streams => FoundState(waiter.sid) # "done"
        BY RelayFileAssumption DEF FoundState, DiskInv, Saved
      <4> QED BY <3>1, <4>1, <4>2 DEF LoadSession, IInv, TypeOK, NodeType
    <3>2. CASE Poll
      BY <3>2 DEF Poll, IInv, TypeOK, NodeType
    <3>3. CASE SendBack \/ CancelBack
      BY <3>3 DEF SendBack, CancelBack, IInv, TypeOK, NodeType
    <3>4. CASE UNCHANGED vars
      BY <3>0, <3>4 DEF vars
    <3> QED BY <3>1, <3>2, <3>3, <3>4
  <2> QED BY <1>0, <2>1 DEF DiskInv, Saved
<1> QED BY <1>1, <1>2, <1>3, <1>4, <1>5 DEF DiskInv

(* Every step keeps the invariant of the disk.                             *)
LEMMA NextDiskInv ==
  ASSUME IInv, DiskInv, OneSender, [Next]_vars
  PROVE  DiskInv'
<1>1. ASSUME NEW p \in Senders, SendFile(p) \/ CancelSend(p) PROVE DiskInv'
  <2>1. Phases'
    <3>1. \A q \in Senders : q = p
      BY DEF OneSender
    <3> QED BY <1>1, <3>1, SenderKeepsPhases DEF Phases
  <2> QED BY <1>1, <2>1, SenderKeepsFirst, SenderKeepsFiles, SenderKeepsSaved DEF DiskInv
<1>2. ASSUME NEW s \in Streams, HandleFileStream(s) \/ CancelRecv(s) \/ Break(s) PROVE DiskInv'
  BY <1>2, ReceiverKeepsPhases, ReceiverKeepsDisk, ReceiverKeepsSaved DEF DiskInv
<1>3. CASE Crash
  BY <1>3, CrashKeepsDisk
<1>4. CASE SendBack \/ CancelBack \/ Poll \/ LoadSession \/ Finished \/ UNCHANGED vars
  BY <1>4, WaiterKeepsDisk DEF Finished
<1> QED BY <1>1, <1>2, <1>3, <1>4 DEF Next

LEMMA InitDiskInv == Init => DiskInv
<1> SUFFICES ASSUME Init PROVE DiskInv
  OBVIOUS
<1>1. /\ \A s \in Streams : rcv[s].pc = "idle" /\ rcv[s].state = "none" /\ ~rOpen[s] /\ down[s] = <<>>
      /\ \A p \in Senders : snd[p].pc = "open"
      /\ tmp = None /\ final = None /\ waiter.pc # "ok"
  BY DEF Init, Idle
<1>2. Phases
  BY <1>1 DEF Phases, PhasesAt, Early, Late
<1>3. FirstFile /\ Files /\ Pure
  BY <1>1 DEF FirstFile, Files, Pure
<1>4. Saved
  BY <1>1 DEF Saved
<1> QED BY <1>2, <1>3, <1>4 DEF DiskInv

-----------------------------------------------------------------------------
(* The inductive invariant of the receiver's disk with one call of         *)
(* SendFile, for every file size, batch size, number of resumes, faults    *)
(* and restarts: sessions of HandleFileStream that write to the same .part *)
(* file never harm it, a file that was verified or renamed is whole, and   *)
(* nobody reports success before the rename (relayfile.go).                *)
THEOREM DiskInvariance ==
  ASSUME OneSender
  PROVE  Spec => [](IInv /\ DiskInv)
<1>1. IInv /\ DiskInv /\ [Next]_vars => (IInv /\ DiskInv)'
  BY NextIInv, NextDiskInv
<1>2. Init => IInv /\ DiskInv
  BY InitIInv, InitDiskInv
<1> QED BY <1>1, <1>2, PTL DEF Spec

(* What HandleFileStream has set in its bitmap, and so acknowledges to the *)
(* sender, is in the .part file at its offset with the right content, also *)
(* when an older session of the same transfer still writes to that file.   *)
(* With a write torn by a restart this is false, because a resume trusts   *)
(* the size of the file; so TornWrites is excluded here and in no other    *)
(* theorem.                                                                *)
THEOREM BitmapsAreOnDisk ==
  ASSUME OneSender, ~TornWrites
  PROVE  Spec => []BitmapIsOnDisk
<1>1. IInv /\ DiskInv => BitmapIsOnDisk
  <2> SUFFICES ASSUME IInv, DiskInv, NEW s \in Streams, rcv[s].pc = "loop", NEW i \in rcv[s].bits
               PROVE  i < Len(data[rcv[s].ino]) /\ data[rcv[s].ino][i + 1] = <<Checksum(s), i>>
    BY ZenonT(60) DEF BitmapIsOnDisk
  <2>1. UpShapeAt(s) /\ rcv[s].pos \in Nat /\ data \in [Inodes -> Seq(Chunk)]
    BY DEF IInv, UpShape, TypeOK, RcvType, RcvRecord, DiskType
  <2>2. PICK j \in Inodes : j = rcv[s].ino
    BY <2>1 DEF UpShapeAt
  <2>3. PICK p \in Senders : p = owner[s]
    BY <2>1 DEF UpShapeAt
  <2>4. i \in 0..(TotalChunks - 1) /\ i < rcv[s].pos
    BY <2>1 DEF UpShapeAt
  <2>5. rcv[s].pos <= Len(data[j]) /\ Clean(j)
    BY <2>2 DEF DiskInv, Files, Pure
  <2>6. Len(data[j]) \in Nat /\ TotalChunks \in Nat
    BY <2>1, RelayFileAssumption
  <2>7. PICK k \in 1..Len(data[j]) : k = i + 1 /\ k - 1 = i /\ i < Len(data[j])
    BY <2>1, <2>4, <2>5, <2>6
  <2>8. data[j][k] = <<Content[p], k - 1>>
    BY <2>5 DEF Clean
  <2> QED BY <2>2, <2>3, <2>7, <2>8, ZenonT(60) DEF Checksum
<1> QED BY <1>1, DiskInvariance, PTL

(* Whatever is found under the final name is the whole file: the SHA-256   *)
(* check comes before the rename and nothing writes between them.  A       *)
(* second SendFile call can write between them, which is why OneSender is  *)
(* assumed.                                                                *)
THEOREM FinalAlwaysComplete ==
  ASSUME OneSender
  PROVE  Spec => []FinalIsComplete
<1>1. IInv /\ DiskInv => FinalIsComplete
  BY DEF DiskInv, Files, Whole, FinalIsComplete, OneSender
<1> QED BY <1>1, DiskInvariance, PTL

(* What a whole file is taken for.                                         *)
LEMMA WholeContent ==
  ASSUME OneSender, NEW p \in Senders, NEW d, d = File(Content[p])
  PROVE  /\ \E q \in Senders : d = File(Content[q])
         /\ Content[CHOOSE q \in Senders : d = File(Content[q])] = Content[p]
<1>1. \A q \in Senders : q = p
  BY DEF OneSender
<1>2. (CHOOSE q \in Senders : d = File(Content[q])) \in Senders
  OBVIOUS
<1> QED BY <1>1, <1>2

(* When ReceiveFile returns the id of a receiving session without an       *)
(* error, the whole file is under the final name: the state that ends it   *)
(* is set after the rename, and no later session takes the file away,      *)
(* through restarts and torn writes.                                       *)
THEOREM ReceivedIsSaved ==
  ASSUME OneSender
  PROVE  Spec => []FoundIsSaved
<1>1. IInv /\ DiskInv => FoundIsSaved
  <2> SUFFICES ASSUME DiskInv, waiter.pc = "ok", waiter.sid \in Streams
               PROVE  final # None /\ SavedContent # "corrupt"
    BY DEF FoundIsSaved
  <2>1. final # None
    BY DEF DiskInv, Saved
  <2>2. PICK p \in Senders : TRUE
    BY DEF OneSender
  <2>3. PICK d : d = data[final]
    OBVIOUS
  <2>4. d = File(Content[p])
    BY <2>1, <2>3 DEF DiskInv, Files, Whole
  <2>5. SavedContent = Content[p]
    BY <2>1, <2>3, <2>4, WholeContent DEF SavedContent
  <2> QED BY <2>1, <2>5, ContentAssumption
<1> QED BY <1>1, DiskInvariance, PTL

-----------------------------------------------------------------------------
(* The content under the final name, before and after a step.              *)
LEMMA SavedIs ==
  ASSUME OneSender, DiskInv, NEW p \in Senders
  PROVE  SavedContent = IF final = None THEN None ELSE Content[p]
<1>1. CASE final = None
  BY <1>1 DEF SavedContent
<1>2. CASE final # None
  <2>1. PICK d : d = data[final]
    OBVIOUS
  <2>2. d = File(Content[p])
    BY <1>2, <2>1 DEF DiskInv, Files, Whole
  <2> QED BY <1>2, <2>1, <2>2, WholeContent DEF SavedContent
<1> QED BY <1>1, <1>2

LEMMA SavedIsThen ==
  ASSUME OneSender, DiskInv', NEW p \in Senders
  PROVE  SavedContent' = IF final' = None THEN None ELSE Content[p]
<1>1. CASE final' = None
  BY <1>1 DEF SavedContent
<1>2. CASE final' # None
  <2>1. PICK d : d = data'[final']
    OBVIOUS
  <2>2. d = File(Content[p])
    BY <1>2, <2>1 DEF DiskInv, Files, Whole
  <2> QED BY <1>2, <2>1, <2>2, WholeContent DEF SavedContent
<1> QED BY <1>1, <1>2

(* A step of the call is its return, or nothing to the user.               *)
LEMMA SenderRefines ==
  ASSUME OneSender, IInv, DiskInv, DiskInv', NEW p \in Senders, SendFile(p) \/ CancelSend(p)
  PROVE  Delivery!Next \/ UNCHANGED <<SavedContent, Results>>
<1>1. SavedContent' = SavedContent
  BY SenderEffects, SavedIs, SavedIsThen
<1>2. snd[p].pc \notin Returned
  BY ZenonT(60) DEF SendFile, CancelSend, Open, WriteInit, ReadAccept, Loop, WriteData, ReadFileFails, ReadAck,
         Resume, WriteFin, ReadDone, Returned
<1>3. \A q \in Senders : q = p
  BY DEF OneSender
<1>4. Results = [q \in Senders |-> "running"]
  BY <1>2, <1>3 DEF Results
<1>5. CASE snd'[p].pc \notin Returned
  <2>1. Results' = [q \in Senders |-> "running"]
    BY <1>3, <1>5 DEF Results
  <2> QED BY <1>1, <1>4, <2>1
<1>6. CASE snd'[p].pc \in Returned
  <2>1. PICK r \in {"ok", "failed", "cancelled"} : r = snd'[p].pc
    BY <1>6 DEF Returned
  <2>2. Results' = [q \in Senders |-> r]
    BY <1>3, <1>6, <2>1 DEF Results
  <2>3. Results' = [Results EXCEPT ![p] = r]
    BY <1>3, <1>4, <2>2
  <2>4. r = "ok" => SavedContent = Content[p]
    <3> SUFFICES ASSUME r = "ok" PROVE SavedContent = Content[p]
      OBVIOUS
    <3>1. PICK s \in Streams : s = snd[p].stream /\ down[s] # <<>> /\ Head(down[s]).t = "DONE"
      BY <1>2, <2>1, OkAfterDone DEF Reads, Returned
    <3>2. down[s] \in Seq(DownFrame)
      BY DEF IInv, TypeOK, NetType
    <3>3. 1 \in 1..Len(down[s]) /\ down[s][1] = Head(down[s])
      BY <3>1, <3>2
    <3>4. final # None
      BY <3>1, <3>3 DEF DiskInv, Saved
    <3> QED BY <3>4, SavedIs
  <2>5. Delivery!ReturnFrom(p, r)
    BY <1>1, <1>4, <2>3, <2>4 DEF Delivery!ReturnFrom
  <2> QED BY <2>5 DEF Delivery!Next
<1> QED BY <1>5, <1>6

(* The renaming is the moment the file is saved.                           *)
LEMMA ReceiverRefines ==
  ASSUME OneSender, IInv, DiskInv, DiskInv', UNCHANGED snd,
         final' = final \/ (final' # None /\ \E s \in Streams : Rename(s))
  PROVE  Delivery!Next \/ UNCHANGED <<SavedContent, Results>>
<1>0. Results' = Results
  BY DEF Results
<1>1. PICK p \in Senders : TRUE
  BY DEF OneSender
<1>2. CASE final' = final \/ final # None
  <2>1. SavedContent' = SavedContent
    BY <1>1, <1>2, SavedIs, SavedIsThen
  <2> QED BY <1>0, <2>1
<1>3. CASE final = None /\ final' # None
  <2>1. PICK s \in Streams : Rename(s)
    BY <1>3
  <2>2. Late(s)
    BY <2>1 DEF Late, Rename, IInv, UpShape, UpShapeAt
  <2>3. snd[p].pc \in {"done", "failed"}
    BY <1>1, <1>3, <2>2 DEF DiskInv, Phases, PhasesAt, Saved
  <2>4. Results[p] \in {"running", "failed"}
    BY <2>3 DEF Results, Returned
  <2>5. SavedContent' = Content[p]
    BY <1>1, <1>3, SavedIsThen
  <2>6. Delivery!Save(p)
    BY <1>0, <2>4, <2>5 DEF Delivery!Save
  <2> QED BY <2>6 DEF Delivery!Next
<1> QED BY <1>2, <1>3

(* Only Rename changes what the final name holds.                          *)
LEMMA OnlyRename ==
  ASSUME NEW s \in Streams, HandleFileStream(s) \/ CancelRecv(s) \/ Break(s)
  PROVE  final' = final \/ (final' # None /\ Rename(s))
<1>1. CASE Rename(s)
  BY <1>1 DEF Rename
<1>2. CASE ~Rename(s)
  BY <1>2, ZenonT(60) DEF HandleFileStream, RecvInit, CreatePart, WriteAccept, RecvData, WriteFails, RecvEnds, RecvFin,
              Verify, WriteDone, CancelRecv, Break, diskVars
<1> QED BY <1>1, <1>2

(* For one call of SendFile the protocol implements FileDelivery: under    *)
(* the refinement mapping of RelayFile every step of the sender, a         *)
(* handler, ReceiveFile, the network or a restart is a save of the whole   *)
(* file, a return that tells the truth, or invisible.                      *)
THEOREM FilesAreDelivered ==
  ASSUME OneSender
  PROVE  Spec => DeliversFiles
<1>1. Init => Delivery!Init
  <2> SUFFICES ASSUME Init PROVE SavedContent = None /\ Results = [p \in Senders |-> "running"]
    BY DEF Delivery!Init
  <2>1. final = None /\ \A p \in Senders : snd[p].pc \notin Returned
    BY DEF Init, Returned
  <2> QED BY <2>1 DEF SavedContent, Results
<1>2. IInv /\ DiskInv /\ (IInv /\ DiskInv)' /\ [Next]_vars => [Delivery!Next]_<<SavedContent, Results>>
  <2> SUFFICES ASSUME IInv, DiskInv, DiskInv', [Next]_vars
               PROVE  Delivery!Next \/ UNCHANGED <<SavedContent, Results>>
    OBVIOUS
  <2>1. ASSUME NEW p \in Senders, SendFile(p) \/ CancelSend(p)
        PROVE  Delivery!Next \/ UNCHANGED <<SavedContent, Results>>
    BY <2>1, SenderRefines
  <2>2. ASSUME NEW s \in Streams, HandleFileStream(s) \/ CancelRecv(s) \/ Break(s)
        PROVE  Delivery!Next \/ UNCHANGED <<SavedContent, Results>>
    BY <2>2, ReceiverFrame, OnlyRename, ReceiverRefines
  <2>3. CASE Crash \/ SendBack \/ CancelBack \/ Poll \/ LoadSession \/ Finished \/ UNCHANGED vars
    <3>1. UNCHANGED <<snd, final>>
      BY <2>3 DEF Crash, SendBack, CancelBack, Poll, LoadSession, Finished, vars, diskVars
    <3> QED BY <3>1, ReceiverRefines
  <2> QED BY <2>1, <2>2, <2>3 DEF Next
<1> QED BY <1>1, <1>2, DiskInvariance, PTL DEF Spec, DeliversFiles, Delivery!Spec

=============================================================================
