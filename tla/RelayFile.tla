------------------------------ MODULE RelayFile ------------------------------
(***************************************************************************)
(* The file transfer protocol of p2put/relayfile.go: calls of SendFile on  *)
(* one node, the HandleFileStream goroutines they reach on another, the    *)
(* libp2p streams between them and the receiving directory.                *)
(*                                                                         *)
(* Every transfer carries a file with the same base name, so that all      *)
(* sessions share one part file.  A file is TotalChunks chunks; chunk n of *)
(* content c is the pair <<c, n>>, and a file on disk is an inode that     *)
(* holds a sequence of chunks.  Paths (tmp, final) name inodes, open files *)
(* keep theirs after a Remove, and Create truncates the inode in place.    *)
(***************************************************************************)
EXTENDS Integers, Sequences, FiniteSets

CONSTANTS
  Senders,      \* the SendFile calls
  Content,      \* Content[p]: the content (hence the checksum) p sends
  Streams,      \* stream slots; a slot is reused once both ends closed it
  Inodes,       \* inodes of the receiving file system
  None,         \* no inode, no stream
  TotalChunks,  \* totalChunks of every file
  AckBatch,     \* ackBatch (8 in the code)
  MaxFaults,    \* bound on resets, timeouts, failed dials and failed writes
  MaxCancels,   \* bound on CancelFileSession calls
  MaxCrashes,   \* bound on restarts of the receiving process
  DiskFull,     \* TRUE: every write to the part file fails
  TornWrites,   \* TRUE: a crash may leave a chunk half written
  Waiting,      \* TRUE: a ReceiveFile call waits on the receiving node
  BothWays      \* TRUE: the receiving node also sends a file to the same peer

ASSUME RelayFileAssumption ==
  /\ TotalChunks \in Nat
  /\ AckBatch \in Nat \ {0}
  /\ {MaxFaults, MaxCancels, MaxCrashes} \subseteq Nat
  /\ {DiskFull, TornWrites, Waiting, BothWays} \subseteq BOOLEAN
  /\ None \notin Inodes \cup Streams \cup Senders
  /\ "back" \notin Streams
  /\ DOMAIN Content = Senders

(* No content is one of the marks of this model.                           *)
ASSUME ContentAssumption ==
  \A p \in Senders : Content[p] \notin {"hole", "torn", "corrupt"}

VARIABLES
  snd,      \* snd[p]: locals of SendFile
  rcv,      \* rcv[s]: locals and fileSession of the handler of stream s
  owner,    \* owner[s]: the SendFile call that opened s
  up, down, \* frames in flight, sender to receiver and back
  sOpen,    \* the sender's end of s is open
  rOpen,    \* the receiver's end of s is open (its handler runs)
  broken,   \* the connection under s was lost
  stored,   \* streams whose receiving session is in the sessions map
  tmp,      \* inode of <name>.relayfile.part
  final,    \* inode of <name>
  data,     \* data[i]: the chunks of inode i
  waiter,   \* a ReceiveFile call: its pc and the session id it found; and the state
            \* of the session of its node's own SendFile to the same peer
  budget    \* remaining faults, cancels and crashes

netVars  == <<owner, up, down, sOpen, rOpen, broken>>
diskVars == <<tmp, final, data>>
vars == <<snd, rcv, netVars, stored, diskVars, waiter, budget>>

Frame(t, n) == [t |-> t, n |-> n]
UpFrame   == [t : {"INIT", "DATA", "FIN", "CANCEL"}, n : Nat]
DownFrame == [t : {"ACCEPT", "REJECT", "ACK", "DONE", "ERROR"}, n : Nat]

Returned == {"ok", "failed", "cancelled"}

Chunk == ({Content[p] : p \in Senders} \cup {"hole", "torn"}) \X Nat

File(c) == [i \in 1..TotalChunks |-> <<c, i - 1>>]

Idle == [pc |-> "idle", ino |-> None, pos |-> 0,
         bits |-> {}, ack |-> 0, state |-> "none"]

(* bitmapMaxContinuous: the first of 0..TotalChunks-1 not in the bitmap.   *)
MaxContinuous(bits) ==
  CHOOSE k \in 0..TotalChunks :
    /\ \A i \in 0..(k - 1) : i \in bits
    /\ k = TotalChunks \/ k \notin bits

(* A chunk written at position pos (in chunks); a gap reads as a hole.     *)
WriteAt(d, pos, chunk) ==
  [i \in 1..(IF pos >= Len(d) THEN pos + 1 ELSE Len(d)) |->
     IF i = pos + 1 THEN chunk
     ELSE IF i <= Len(d) THEN d[i] ELSE <<"hole", 0>>]

Fault == /\ budget.faults > 0
         /\ budget' = [budget EXCEPT !.faults = @ - 1]

-----------------------------------------------------------------------------
(* Streams.  A write reaches the peer unless the connection is lost or the *)
(* peer closed its end; then it is dropped, or reported as an error.       *)

UpLost(s)   == broken[s] \/ ~rOpen[s]
DownLost(s) == broken[s] \/ ~sOpen[s]

SendUp(s, f)   == up'   = IF UpLost(s)   THEN up   ELSE [up   EXCEPT ![s] = Append(@, f)]
SendDown(s, f) == down' = IF DownLost(s) THEN down ELSE [down EXCEPT ![s] = Append(@, f)]

(* A read fails when everything delivered was read and the stream ended.   *)
UpEnded(s)   == up[s] = <<>> /\ (broken[s] \/ ~sOpen[s])
DownEnded(s) == down[s] = <<>> /\ (broken[s] \/ ~rOpen[s])

FreeSlot(s) == ~sOpen[s] /\ ~rOpen[s] /\ s \notin stored

(* The connection is lost; of the frames in flight each side may still     *)
(* read a prefix.                                                          *)
Break(s) ==
  /\ ~broken[s] /\ (sOpen[s] \/ rOpen[s])
  /\ Fault
  /\ broken' = [broken EXCEPT ![s] = TRUE]
  /\ \E i \in 0..Len(up[s]), j \in 0..Len(down[s]) :
       /\ up' = [up EXCEPT ![s] = SubSeq(@, 1, i)]
       /\ down' = [down EXCEPT ![s] = SubSeq(@, 1, j)]
  /\ UNCHANGED <<snd, rcv, owner, sOpen, rOpen, stored, diskVars, waiter>>

-----------------------------------------------------------------------------
(* SendFile.                                                               *)

Goto(p, pc) == snd' = [snd EXCEPT ![p].pc = pc]

(* Return from SendFile.  The deferred Close is bound to the stream opened *)
(* first; a stream opened by a resume stays open.                          *)
Return(p, result) ==
  /\ Goto(p, result)
  /\ sOpen' = IF snd[p].stream = None \/ snd[p].resumed THEN sOpen
              ELSE [sOpen EXCEPT ![snd[p].stream] = FALSE]

(* NewStream: the slot s is connected and a handler starts on it.          *)
Connect(p, s, open) ==
  /\ FreeSlot(s)
  /\ owner' = [owner EXCEPT ![s] = p]
  /\ up' = [up EXCEPT ![s] = <<>>]
  /\ down' = [down EXCEPT ![s] = <<>>]
  /\ sOpen' = [open EXCEPT ![s] = TRUE]
  /\ rOpen' = [rOpen EXCEPT ![s] = TRUE]
  /\ broken' = [broken EXCEPT ![s] = FALSE]
  /\ rcv' = [rcv EXCEPT ![s] = [Idle EXCEPT !.pc = "init"]]

Open(p) ==
  /\ snd[p].pc = "open"
  /\ \/ \E s \in Streams :
          /\ ~snd[p].cancelled
          /\ Connect(p, s, sOpen)
          /\ snd' = [snd EXCEPT ![p].pc = "init", ![p].stream = s]
          /\ UNCHANGED budget
     \/ /\ \/ Fault
           \/ snd[p].cancelled /\ UNCHANGED budget
        /\ Return(p, "failed")
        /\ UNCHANGED <<rcv, owner, up, down, rOpen, broken>>
  /\ UNCHANGED <<stored, diskVars, waiter>>

(* A frame is written and the call goes on at pc, or it returns an error.  *)
WriteFrame(p, f, next) ==
  LET s == snd[p].stream IN
  /\ \/ SendUp(s, f) /\ snd' = next /\ UNCHANGED sOpen
     \/ UpLost(s) /\ Return(p, "failed") /\ UNCHANGED up
  /\ UNCHANGED <<rcv, owner, down, rOpen, broken, stored, diskVars, waiter, budget>>

WriteInit(p) ==
  /\ snd[p].pc = "init"
  /\ WriteFrame(p, Frame("INIT", snd[p].seq), [snd EXCEPT ![p].pc = "accept"])

(* readJSONFrame: the expected frame is next on the stream of p ...        *)
Reads(p, t) == /\ down[snd[p].stream] # <<>>
               /\ Head(down[snd[p].stream]).t = t

(* ... or the read fails: another frame, the end of the stream, or, where  *)
(* a deadline is set, a timeout.                                           *)
ReadFails(p, t, deadline) ==
  LET s == snd[p].stream IN
  \/ down[s] # <<>> /\ Head(down[s]).t # t /\ UNCHANGED budget
  \/ DownEnded(s) /\ UNCHANGED budget
  \/ deadline /\ down[s] = <<>> /\ Fault

Consume(p) == down' = [down EXCEPT ![snd[p].stream] = Tail(@)]

ReadAccept(p) ==
  /\ snd[p].pc = "accept"
  /\ \/ /\ Reads(p, "ACCEPT")
        /\ snd' = [snd EXCEPT ![p].pc = "loop",
                              ![p].seq = Head(down[snd[p].stream]).n]
        /\ Consume(p)
        /\ UNCHANGED <<sOpen, budget>>
     \/ /\ ReadFails(p, "ACCEPT", FALSE)
        /\ Return(p, "failed")
        /\ UNCHANGED down
  /\ UNCHANGED <<rcv, owner, up, rOpen, broken, stored, diskVars, waiter>>

(* batchEnd.                                                               *)
BatchEnd(seq) == IF seq + AckBatch > TotalChunks THEN TotalChunks ELSE seq + AckBatch

(* The head of the transfer loop: all chunks sent, cancelled, or a batch.  *)
Loop(p) ==
  LET s == snd[p].stream IN
  /\ snd[p].pc = "loop"
  /\ \/ /\ snd[p].seq >= TotalChunks
        /\ Goto(p, "fin")
        /\ UNCHANGED <<up, sOpen>>
     \/ /\ snd[p].seq < TotalChunks /\ snd[p].cancelled
        /\ SendUp(s, Frame("CANCEL", 0))
        /\ Return(p, "cancelled")
     \/ /\ snd[p].seq < TotalChunks /\ ~snd[p].cancelled
        /\ snd' = [snd EXCEPT ![p].pc = "data", ![p].end = BatchEnd(snd[p].seq)]
        /\ UNCHANGED <<up, sOpen>>
  /\ UNCHANGED <<rcv, owner, down, rOpen, broken, stored, diskVars, waiter, budget>>

(* One chunk of the batch.                                                 *)
WriteData(p) ==
  LET seq == snd[p].seq IN
  /\ snd[p].pc = "data"
  /\ WriteFrame(p, Frame("DATA", seq),
       [snd EXCEPT ![p].seq = seq + 1,
                   ![p].pc = IF seq + 1 = snd[p].end THEN "ack" ELSE "data"])

(* The source file cannot be read: CANCEL, and the call returns the error. *)
ReadFileFails(p) ==
  /\ snd[p].pc = "data"
  /\ Fault
  /\ SendUp(snd[p].stream, Frame("CANCEL", 0))
  /\ Return(p, "failed")
  /\ UNCHANGED <<rcv, owner, down, rOpen, broken, stored, diskVars, waiter>>

ReadAck(p) ==
  /\ snd[p].pc = "ack"
  /\ Reads(p, "ACK")
  /\ LET n == Head(down[snd[p].stream]).n + 1 IN
       snd' = [snd EXCEPT ![p].pc = "loop", ![p].seq = n, ![p].acked = n]
  /\ Consume(p)
  /\ UNCHANGED <<rcv, owner, up, sOpen, rOpen, broken, stored, diskVars, waiter, budget>>

(* No ACK: the stream is closed, another one is opened and INIT is sent    *)
(* again with the number of chunks sent so far as offset.                  *)
Resume(p) ==
  LET s == snd[p].stream
      closed == [sOpen EXCEPT ![s] = FALSE] IN
  /\ snd[p].pc = "ack"
  /\ ReadFails(p, "ACK", TRUE)
  /\ \/ /\ ~snd[p].cancelled
        /\ \E t \in Streams \ {s} :
             /\ Connect(p, t, closed)
             /\ snd' = [snd EXCEPT ![p].pc = "init", ![p].stream = t,
                                   ![p].resumed = TRUE]
     \/ /\ snd[p].cancelled \/ budget.faults > 0
        /\ Goto(p, "failed")
        /\ sOpen' = closed
        /\ UNCHANGED <<rcv, owner, up, down, rOpen, broken>>
  /\ UNCHANGED <<stored, diskVars, waiter>>

WriteFin(p) ==
  /\ snd[p].pc = "fin"
  /\ WriteFrame(p, Frame("FIN", 0), [snd EXCEPT ![p].pc = "done"])

ReadDone(p) ==
  /\ snd[p].pc = "done"
  /\ \/ /\ Reads(p, "DONE")
        /\ Return(p, "ok")
        /\ Consume(p)
        /\ UNCHANGED budget
     \/ /\ ReadFails(p, "DONE", TRUE)
        /\ Return(p, "failed")
        /\ UNCHANGED down
  /\ UNCHANGED <<rcv, owner, up, rOpen, broken, stored, diskVars, waiter>>

(* CancelFileSession on the sending side, while SendFile runs.             *)
CancelSend(p) ==
  /\ snd[p].pc \notin Returned /\ ~snd[p].cancelled
  /\ budget.cancels > 0
  /\ budget' = [budget EXCEPT !.cancels = @ - 1]
  /\ snd' = [snd EXCEPT ![p].cancelled = TRUE]
  /\ UNCHANGED <<rcv, netVars, stored, diskVars, waiter>>

SendFile(p) ==
  \/ Open(p) \/ WriteInit(p) \/ ReadAccept(p) \/ Loop(p) \/ WriteData(p)
  \/ ReadFileFails(p) \/ ReadAck(p) \/ Resume(p) \/ WriteFin(p) \/ ReadDone(p)

-----------------------------------------------------------------------------
(* HandleFileStream and receiveLoop on stream s.                           *)

Checksum(s) == Content[owner[s]]

NextIs(s, t) == up[s] # <<>> /\ Head(up[s]).t = t
ConsumeUp(s) == up' = [up EXCEPT ![s] = Tail(@)]

(* The handler returns; its deferred Close closes the stream.              *)
EndHandler(s, state) ==
  /\ rOpen' = [rOpen EXCEPT ![s] = FALSE]
  /\ rcv' = [rcv EXCEPT ![s] = [Idle EXCEPT !.state = state]]

(* cleanupSession: nothing when the session is already in a final state;   *)
(* otherwise the part file is removed by its path and the session deleted. *)
CleanupSession(s) ==
  IF rcv[s].state \in {"done", "error", "cancelled"}
  THEN EndHandler(s, rcv[s].state) /\ UNCHANGED <<tmp, stored>>
  ELSE EndHandler(s, "error") /\ tmp' = None /\ stored' = stored \ {s}

(* The chunks a reopened part file is taken to hold: those below its size  *)
(* in chunks, rounded up.  MUTANT: those below the offset of the sender.   *)
ClaimedChunks(offset, size) == {i \in 0..(TotalChunks - 1) : i < offset}
ReopenedChunks(offset, size) == {i \in 0..(TotalChunks - 1) : i < size}

(* INIT is read: with an offset the existing part file is reopened and     *)
(* its size, rounded up to chunks, is taken for chunks already received.   *)
RecvInit(s) ==
  /\ rcv[s].pc = "init"
  /\ \/ /\ NextIs(s, "INIT")
        /\ ConsumeUp(s)
        /\ LET size == Len(data[tmp])
               offset == Head(up[s]).n IN
             rcv' = [rcv EXCEPT ![s] =
               IF offset > 0 /\ tmp # None
               THEN [Idle EXCEPT !.pc = "accept", !.ino = tmp, !.pos = size,
                                 !.bits = ReopenedChunks(offset, size)]
               ELSE [Idle EXCEPT !.pc = "create"]]
        /\ UNCHANGED rOpen
     \/ /\ UpEnded(s)
        /\ EndHandler(s, "none")
        /\ UNCHANGED up
  /\ UNCHANGED <<snd, owner, down, sOpen, broken, stored, diskVars, waiter, budget>>

FreshInode(i) == i \notin {tmp, final} /\ \A s \in Streams : rcv[s].ino # i

(* os.Create: an existing part file is truncated in place.                 *)
CreatePart(s) ==
  /\ rcv[s].pc = "create"
  /\ \/ /\ \E i \in Inodes :
             /\ IF tmp # None THEN i = tmp ELSE FreshInode(i)
             /\ tmp' = i
             /\ data' = [data EXCEPT ![i] = <<>>]
             /\ rcv' = [rcv EXCEPT ![s].pc = "accept", ![s].ino = i]
        /\ UNCHANGED <<rOpen, down, budget>>
     \/ /\ Fault
        /\ SendDown(s, Frame("REJECT", 0))
        /\ EndHandler(s, "none")
        /\ UNCHANGED <<tmp, data>>
  /\ UNCHANGED <<snd, owner, up, sOpen, broken, stored, final, waiter>>

(* ACCEPT carries startSeq; the session is stored after the write.         *)
WriteAccept(s) ==
  LET resume == MaxContinuous(rcv[s].bits)
      start == IF resume > rcv[s].pos THEN resume ELSE rcv[s].pos IN
  /\ rcv[s].pc = "accept"
  /\ \/ /\ SendDown(s, Frame("ACCEPT", start))
        /\ rcv' = [rcv EXCEPT ![s].pc = "loop", ![s].pos = start, ![s].ack = start,
                              ![s].state = "transfer"]
        /\ stored' = stored \cup {s}
        /\ UNCHANGED <<rOpen, tmp>>
     \/ /\ DownLost(s)
        /\ EndHandler(s, "none")
        /\ tmp' = None
        /\ UNCHANGED <<stored, down>>
  /\ UNCHANGED <<snd, owner, up, sOpen, broken, final, data, waiter, budget>>

(* An ACK is due after a full batch or the last chunk.  MUTANT: after more *)
(* than a batch.                                                           *)
AckLate(newSeq, lastAck) ==
  /\ newSeq - lastAck > AckBatch \/ newSeq >= TotalChunks
  /\ newSeq > lastAck

AckDue(newSeq, lastAck) ==
  /\ newSeq - lastAck >= AckBatch \/ newSeq >= TotalChunks
  /\ newSeq > lastAck

(* A DATA frame: a chunk not yet in the bitmap is written at the current   *)
(* position of the file, and a contiguous batch is acknowledged.           *)
RecvData(s) ==
  LET r == rcv[s]
      n == Head(up[s]).n
      new == n \notin r.bits
      bits == r.bits \cup {n}
      newSeq == MaxContinuous(bits)
      due == AckDue(newSeq, r.ack) IN
  /\ r.pc = "loop" /\ NextIs(s, "DATA")
  /\ ConsumeUp(s)
  /\ new => ~DiskFull
  /\ data' = IF new THEN [data EXCEPT ![r.ino] = WriteAt(@, r.pos, <<Checksum(s), n>>)]
             ELSE data
  /\ \/ /\ rcv' = [rcv EXCEPT ![s].bits = bits,
                              ![s].pos = IF new THEN r.pos + 1 ELSE r.pos,
                              ![s].ack = IF due THEN newSeq ELSE r.ack]
        /\ IF due THEN SendDown(s, Frame("ACK", newSeq - 1)) ELSE UNCHANGED down
        /\ UNCHANGED <<rOpen, tmp, stored>>
     \/ /\ due /\ DownLost(s)
        /\ CleanupSession(s)
        /\ UNCHANGED down
  /\ UNCHANGED <<snd, owner, sOpen, broken, final, waiter, budget>>

(* The chunk cannot be written: ERROR to the sender and cleanup.           *)
WriteFails(s) ==
  /\ rcv[s].pc = "loop" /\ NextIs(s, "DATA")
  /\ Head(up[s]).n \notin rcv[s].bits
  /\ IF DiskFull THEN UNCHANGED budget ELSE Fault
  /\ ConsumeUp(s)
  /\ SendDown(s, Frame("ERROR", 0))
  /\ CleanupSession(s)
  /\ UNCHANGED <<snd, owner, sOpen, broken, final, data, waiter>>

(* MUTANT: the loop goes on at the end of the stream.                      *)
EndOfStreamIgnored(s) ==
  /\ rcv[s].pc = "loop"
  /\ NextIs(s, "CANCEL") /\ ConsumeUp(s) /\ UNCHANGED budget
  /\ CleanupSession(s)
  /\ UNCHANGED <<snd, owner, down, sOpen, broken, final, data, waiter>>

(* CANCEL, the end of the stream, or dataTimeout without a frame.          *)
RecvEnds(s) ==
  /\ rcv[s].pc = "loop"
  /\ \/ NextIs(s, "CANCEL") /\ ConsumeUp(s) /\ UNCHANGED budget
     \/ UpEnded(s) /\ UNCHANGED <<up, budget>>
     \/ up[s] = <<>> /\ Fault /\ UNCHANGED up
  /\ CleanupSession(s)
  /\ UNCHANGED <<snd, owner, down, sOpen, broken, final, data, waiter>>

(* FIN: the file is closed, its hash computed from the path, renamed, and  *)
(* DONE is written.                                                        *)
RecvFin(s) ==
  /\ rcv[s].pc = "loop" /\ NextIs(s, "FIN")
  /\ ConsumeUp(s)
  /\ rcv' = [rcv EXCEPT ![s].pc = "verify", ![s].ino = None]
  /\ UNCHANGED <<snd, owner, down, sOpen, rOpen, broken, stored, diskVars, waiter, budget>>

(* MUTANT: the file is there, its hash is not compared.                    *)
FileExists(s) == tmp # None
VerifyFileHash(s) == tmp # None /\ data[tmp] = File(Checksum(s))

Verify(s) ==
  /\ rcv[s].pc = "verify"
  /\ IF VerifyFileHash(s)
     THEN /\ rcv' = [rcv EXCEPT ![s].pc = "rename"]
          /\ UNCHANGED <<down, rOpen, tmp, stored>>
     ELSE /\ SendDown(s, Frame("ERROR", 0))
          /\ CleanupSession(s)
  /\ UNCHANGED <<snd, owner, up, sOpen, broken, final, data, waiter, budget>>

(* The state becomes "done" whatever it was.  MUTANT: "done" is set before *)
(* the file is renamed.                                                    *)
DoneBeforeRename(s) ==
  /\ rcv[s].pc = "rename"
  /\ IF rcv[s].state # "done"
     THEN rcv' = [rcv EXCEPT ![s].state = "done"] /\ UNCHANGED <<tmp, final>>
     ELSE rcv' = [rcv EXCEPT ![s].pc = "finish"] /\ final' = tmp /\ tmp' = None
  /\ UNCHANGED <<snd, netVars, stored, data, waiter, budget>>

Rename(s) ==
  /\ rcv[s].pc = "rename"
  /\ IF tmp # None
     THEN /\ final' = tmp /\ tmp' = None
          /\ rcv' = [rcv EXCEPT ![s].pc = "finish", ![s].state = "done"]
          /\ UNCHANGED <<down, rOpen, stored>>
     ELSE /\ SendDown(s, Frame("ERROR", 0))
          /\ CleanupSession(s)
          /\ UNCHANGED final
  /\ UNCHANGED <<snd, owner, up, sOpen, broken, data, waiter, budget>>

(* When DONE cannot be written, cleanupSession finds a final state and the *)
(* session stays in the map.                                               *)
WriteDone(s) ==
  /\ rcv[s].pc = "finish"
  /\ EndHandler(s, rcv[s].state)
  /\ \/ SendDown(s, Frame("DONE", 0)) /\ stored' = stored \ {s}
     \/ DownLost(s) /\ UNCHANGED <<down, stored>>
  /\ UNCHANGED <<snd, owner, up, sOpen, broken, diskVars, waiter, budget>>

HandleFileStream(s) ==
  \/ RecvInit(s) \/ CreatePart(s) \/ WriteAccept(s) \/ RecvData(s)
  \/ WriteFails(s) \/ RecvEnds(s) \/ RecvFin(s) \/ Verify(s) \/ Rename(s)
  \/ WriteDone(s)

(* CancelFileSession on a receiving session: only the state changes.       *)
CancelRecv(s) ==
  /\ s \in stored /\ rcv[s].state # "cancelled"
  /\ budget.cancels > 0
  /\ budget' = [budget EXCEPT !.cancels = @ - 1]
  /\ rcv' = [rcv EXCEPT ![s].state = "cancelled"]
  /\ UNCHANGED <<snd, netVars, stored, diskVars, waiter>>

(* The receiving process restarts: sessions and streams are gone, the      *)
(* directory stays, perhaps with the chunk of a write cut short.           *)
Writing(s) == rcv[s].pc = "loop" /\ rcv[s].ino = tmp /\ NextIs(s, "DATA")

Crash ==
  /\ budget.crashes > 0
  /\ budget' = [budget EXCEPT !.crashes = @ - 1]
  /\ rcv' = [s \in Streams |-> Idle]
  /\ rOpen' = [s \in Streams |-> FALSE]
  /\ broken' = [s \in Streams |-> TRUE]
  /\ stored' = {}
  /\ \/ UNCHANGED data
     \/ /\ TornWrites
        /\ \E s \in Streams :
             /\ Writing(s)
             /\ data' = [data EXCEPT ![tmp] = WriteAt(@, rcv[s].pos, <<"torn", 0>>)]
  /\ waiter' = [pc |-> "off", sid |-> None, back |-> "none"]
  /\ UNCHANGED <<snd, owner, up, down, sOpen, tmp, final>>

-----------------------------------------------------------------------------
(* SendFile of the receiving node to the same peer.  Its session is in the *)
(* map from the call to the return (relayfile.go:473), with the state      *)
(* "init" and "transfer" (here "sending"), and "done" before it returns.   *)
(* CancelFileSession sets "cancelled", which SendFile may overwrite.       *)
SendingBack == waiter.back \notin {"none", "returned"}

SendBack ==
  /\ BothWays /\ waiter.pc \in {"polling", "loading"}
  /\ \/ /\ waiter.back \in {"none", "cancelled"}
        /\ waiter' = [waiter EXCEPT !.back = "sending"]
     \/ /\ waiter.back \in {"sending", "cancelled"}
        /\ waiter' = [waiter EXCEPT !.back = "done"]
     \/ /\ SendingBack
        /\ waiter' = [waiter EXCEPT !.back = "returned"]
  /\ UNCHANGED <<snd, rcv, netVars, stored, diskVars, budget>>

CancelBack ==
  /\ waiter.pc \in {"polling", "loading"} /\ waiter.back = "sending"
  /\ budget.cancels > 0
  /\ budget' = [budget EXCEPT !.cancels = @ - 1]
  /\ waiter' = [waiter EXCEPT !.back = "cancelled"]
  /\ UNCHANGED <<snd, rcv, netVars, stored, diskVars>>

(* ReceiveFile: every 200 ms the sessions map is searched for a session of *)
(* the peer, sending or receiving, and the one found is loaded again to    *)
(* read its state.                                                         *)
Poll ==
  /\ waiter.pc = "polling"
  /\ \E s \in stored \cup {"back"} :
       /\ s = "back" => SendingBack
       /\ waiter' = [waiter EXCEPT !.pc = "loading", !.sid = s]
  /\ UNCHANGED <<snd, rcv, netVars, stored, diskVars, budget>>

Found(sid) == IF sid = "back" THEN SendingBack ELSE sid \in stored
FoundState(sid) == IF sid = "back" THEN waiter.back ELSE rcv[sid].state

LoadSession ==
  LET state == FoundState(waiter.sid) IN
  /\ waiter.pc = "loading"
  /\ waiter' = [waiter EXCEPT !.pc =
       IF ~Found(waiter.sid) THEN "panicked"
       ELSE IF state = "done" THEN "ok"
       ELSE IF state \in {"error", "cancelled"} THEN "failed"
       ELSE "polling"]
  /\ UNCHANGED <<snd, rcv, netVars, stored, diskVars, budget>>

-----------------------------------------------------------------------------
Init ==
  /\ snd = [p \in Senders |-> [pc |-> "open", seq |-> 0, end |-> 0, acked |-> 0,
                               stream |-> None, resumed |-> FALSE, cancelled |-> FALSE]]
  /\ rcv = [s \in Streams |-> Idle]
  /\ owner = [s \in Streams |-> None]
  /\ up = [s \in Streams |-> <<>>]
  /\ down = [s \in Streams |-> <<>>]
  /\ sOpen = [s \in Streams |-> FALSE]
  /\ rOpen = [s \in Streams |-> FALSE]
  /\ broken = [s \in Streams |-> FALSE]
  /\ stored = {}
  /\ tmp = None
  /\ final = None
  /\ data = [i \in Inodes |-> <<>>]
  /\ waiter = [pc |-> IF Waiting THEN "polling" ELSE "off", sid |-> None, back |-> "none"]
  /\ budget = [faults |-> MaxFaults, cancels |-> MaxCancels, crashes |-> MaxCrashes]

(* Every SendFile has returned, no handler runs.                           *)
Finished ==
  /\ \A p \in Senders : snd[p].pc \in Returned
  /\ \A s \in Streams : ~rOpen[s]
  /\ UNCHANGED vars

Next ==
  \/ \E p \in Senders : SendFile(p) \/ CancelSend(p)
  \/ \E s \in Streams : HandleFileStream(s) \/ CancelRecv(s) \/ Break(s)
  \/ Crash
  \/ SendBack \/ CancelBack \/ Poll \/ LoadSession
  \/ Finished

Spec == Init /\ [][Next]_vars

(* Goroutines that can run do; nothing obliges a fault, a cancellation or  *)
(* a crash to happen.                                                      *)
FairSpec ==
  /\ Spec
  /\ \A p \in Senders : WF_vars(SendFile(p))
  /\ \A s \in Streams : WF_vars(HandleFileStream(s))
  /\ WF_vars(Poll) /\ WF_vars(LoadSession)

-----------------------------------------------------------------------------
SndRecord ==
  [pc : {"open", "init", "accept", "loop", "data", "ack", "fin", "done"} \cup Returned,
   seq : Nat, end : 0..TotalChunks, acked : Nat, stream : Streams \cup {None},
   resumed : BOOLEAN, cancelled : BOOLEAN]

RcvRecord ==
  [pc : {"idle", "init", "create", "accept", "loop", "verify", "rename", "finish"},
   ino : Inodes \cup {None}, pos : Nat, bits : SUBSET Nat, ack : Nat,
   state : {"none", "transfer", "done", "error", "cancelled"}]

SndType == snd \in [Senders -> SndRecord]
RcvType == rcv \in [Streams -> RcvRecord]

NetType ==
  /\ owner \in [Streams -> Senders \cup {None}]
  /\ up \in [Streams -> Seq(UpFrame)]
  /\ down \in [Streams -> Seq(DownFrame)]
  /\ sOpen \in [Streams -> BOOLEAN]
  /\ rOpen \in [Streams -> BOOLEAN]
  /\ broken \in [Streams -> BOOLEAN]

DiskType ==
  /\ tmp \in Inodes \cup {None}
  /\ final \in Inodes \cup {None}
  /\ data \in [Inodes -> Seq(Chunk)]

NodeType ==
  /\ stored \subseteq Streams
  /\ waiter \in [pc : {"off", "polling", "loading", "ok", "failed", "panicked"},
                 sid : Streams \cup {None, "back"},
                 back : {"none", "sending", "done", "cancelled", "returned"}]
  /\ budget \in [faults : 0..MaxFaults, cancels : 0..MaxCancels, crashes : 0..MaxCrashes]

(* Every variable keeps its type; in particular no ACK carries -1 and no   *)
(* batch ends after the last chunk.                                        *)
TypeOK == SndType /\ RcvType /\ NetType /\ DiskType /\ NodeType

(* A chunk in the bitmap of a session, hence every chunk that was ever     *)
(* acknowledged, is in the open part file at the offset of its sequence    *)
(* number, although the write goes to the current position of the file and *)
(* an older session may still write to the same file (relayfile.go:331).   *)
BitmapIsOnDisk ==
  \A s \in Streams : rOpen[s] /\ rcv[s].pc = "loop" =>
    \A i \in rcv[s].bits :
      i < Len(data[rcv[s].ino]) /\ data[rcv[s].ino][i + 1] = <<Checksum(s), i>>

(* The file under its final name is complete from the rename on: no part   *)
(* file is ever renamed, or written after the rename, so that a reader     *)
(* finds a file that is not one that was sent (relayfile.go:383-396).      *)
FinalIsComplete ==
  final # None => \E p \in Senders : data[final] = File(Content[p])

(* The transfer as a user of the API sees it.                              *)
SavedContent ==
  IF final = None THEN None
  ELSE IF \E p \in Senders : data[final] = File(Content[p])
       THEN Content[CHOOSE p \in Senders : data[final] = File(Content[p])]
       ELSE "corrupt"

Results == [p \in Senders |-> IF snd[p].pc \in Returned THEN snd[p].pc ELSE "running"]

Delivery == INSTANCE FileDelivery WITH saved <- SavedContent, result <- Results

(* The protocol implements FileDelivery: through faults and restarts the   *)
(* final name only ever holds whole files, a SendFile that reports success *)
(* saved its file and one that reports cancellation never does.            *)
DeliversFiles == Delivery!Spec

(* Sender and receiver never wait for each other: when SendFile waits for  *)
(* an ACK and nothing is in flight, the stream has ended or the handler    *)
(* still has something to do.  The batches of the two sides stay aligned   *)
(* whatever offset a resume starts from (relayfile.go:346, 543, 562).      *)
NoMutualWait ==
  \A p \in Senders : snd[p].pc = "ack" =>
    LET s == snd[p].stream IN
      ~(/\ up[s] = <<>> /\ down[s] = <<>>
        /\ rOpen[s] /\ ~broken[s]
        /\ rcv[s].pc = "loop")

(* The doc's promise for a lost connection: a resume continues after the   *)
(* last acknowledged chunk, losing one ACK window at most.  The code does  *)
(* not keep it, and no run checks it (see the README).                     *)
ResumeKeepsAcked ==
  [][\A p \in Senders :
       snd[p].pc = "accept" /\ snd'[p].pc = "loop"
         => snd'[p].seq + AckBatch >= snd[p].acked]_vars

(* Every SendFile call returns: with finitely many faults neither side     *)
(* waits forever and the resume loop ends.                                 *)
SendReturns == \A p \in Senders : <>(snd[p].pc \in Returned)

(* Every handler returns and closes its stream once its sender is done,    *)
(* also when the sender leaks the resumed stream.                          *)
HandlersReturn == \A s \in Streams : rOpen[s] ~> ~rOpen[s]

(* A session cancelled by CancelFileSession does not save its file.  The   *)
(* code does not keep it: the handler never looks at the state that        *)
(* CancelFileSession has set.  No run checks it (see the README).          *)
CancelledNeverSaves ==
  [][\A s \in Streams : rcv[s].pc = "rename" /\ rcv[s].state = "cancelled"
       => final' = final]_vars

(* A ReceiveFile call that returns the id of a receiving session without   *)
(* an error finds a file that was sent under the final name, also when the *)
(* session was cancelled, its DONE was lost or an earlier session is still *)
(* in the map (relayfile.go:672-684).                                      *)
FoundIsSaved == waiter.pc = "ok" /\ waiter.sid \in Streams => final # None /\ SavedContent # "corrupt"

(* ReceiveFile waits until the file of the given peer is complete and      *)
(* returns the receiver's session id (relayfile-design.md:277-280).  The   *)
(* code takes any session of the peer, a sending one of its own node as    *)
(* well, and reports success when that one is done.                        *)
ReceivedMeansSaved == waiter.pc = "ok" => final # None /\ SavedContent # "corrupt"

(* ReceiveFile returns when the transfer it waits for completes.  The code *)
(* does not keep it: the session may leave the map before its state is     *)
(* seen, between Range and Load as well.  No run checks it (see the        *)
(* README).                                                                *)
ReceiveReturns ==
  \A s \in Streams :
    rcv[s].pc = "finish" ~> waiter.pc \in {"ok", "failed"}

-----------------------------------------------------------------------------
(* The inductive invariant behind TypeOK and NoMutualWait.                 *)

(* A running SendFile holds the sender's end of its stream.                *)
Running(p) == snd[p].pc \notin Returned \cup {"open"}

SenderStream ==
  \A p \in Senders :
    /\ Running(p) => /\ snd[p].stream \in Streams
                     /\ sOpen[snd[p].stream]
                     /\ owner[snd[p].stream] = p
    /\ snd[p].pc = "open" => snd[p].stream = None

(* What a handler has still to read continues what it has received: the    *)
(* bitmap is the chunks below the file position, and the frames in flight  *)
(* carry the chunks from there on.                                         *)
UpShapeAt(s) ==
  /\ rOpen[s] <=> rcv[s].pc # "idle"
  /\ rOpen[s] => owner[s] \in Senders
  /\ rcv[s].pc \in {"accept", "loop"} =>
       /\ rcv[s].bits = {i \in 0..(TotalChunks - 1) : i < rcv[s].pos}
       /\ rcv[s].ino \in Inodes
  /\ rcv[s].pc = "create" => rcv[s].pos = 0 /\ rcv[s].bits = {}
  /\ rcv[s].pc \in {"create", "accept"} => up[s] = <<>>
  /\ rcv[s].pc = "init" => Len(up[s]) <= 1
  /\ rcv[s].pc = "loop" =>
       \A i \in 1..Len(up[s]) : up[s][i].t = "DATA" =>
         up[s][i].n = rcv[s].pos + i - 1 /\ up[s][i].n < TotalChunks

UpShape == \A s \in Streams : UpShapeAt(s)

(* While frames of p still reach its handler, the two agree on the batch.  *)
AlignedOn(p, s) ==
  LET q == snd[p]
      r == rcv[s] IN
  /\ q.pc = "init" => r.pc = "init" /\ up[s] = <<>> /\ down[s] = <<>>
  /\ q.pc = "accept" =>
       \/ r.pc = "init" /\ Len(up[s]) = 1 /\ down[s] = <<>>
       \/ r.pc \in {"create", "accept"} /\ down[s] = <<>>
       \/ /\ r.pc = "loop" /\ up[s] = <<>> /\ r.ack = r.pos
          /\ down[s] = <<Frame("ACCEPT", r.pos)>>
  /\ q.pc = "loop" =>
       /\ r.pc = "loop" /\ up[s] = <<>> /\ down[s] = <<>>
       /\ r.pos = q.seq /\ r.ack = q.seq
  /\ q.pc = "fin" => r.pc = "loop" /\ up[s] = <<>>
  /\ q.pc \in {"data", "ack"} =>
       /\ r.pc = "loop"
       /\ q.seq = r.pos + Len(up[s])
       /\ r.ack <= r.pos
       /\ \A i \in 1..Len(up[s]) : up[s][i].t = "DATA"
  /\ q.pc = "data" => down[s] = <<>> /\ q.seq < q.end /\ q.end = BatchEnd(r.ack)
  /\ q.pc = "ack" =>
       /\ q.seq = q.end
       /\ \/ down[s] = <<>> /\ r.pos < q.end /\ q.end = BatchEnd(r.ack)
          \/ down[s] = <<Frame("ACK", q.end - 1)>> /\ r.pos = q.end /\ r.ack = q.end

Aligned ==
  \A p \in Senders :
    Running(p) /\ ~UpLost(snd[p].stream)
      => AlignedOn(p, snd[p].stream)

IInv == TypeOK /\ SenderStream /\ UpShape /\ Aligned

(* The inductive invariant of the disk, behind BitmapIsOnDisk,             *)
(* FinalIsComplete, FoundIsSaved and DeliversFiles when one SendFile       *)
(* call uses the file name.  Two calls break it (see the README).          *)

(* The file name is used by one SendFile call.                             *)
OneSender == \E p \in Senders : Senders = {p}

HasFin(s) == \E i \in 1..Len(up[s]) : up[s][i].t = "FIN"

Early(s) == rcv[s].pc \in {"init", "create", "accept"}
Late(s) == rOpen[s] /\ (rcv[s].pc \in {"verify", "rename", "finish"} \/ HasFin(s))

(* A handler that has not accepted yet is that of the call's last stream,  *)
(* and so is one that saves: no call opens a stream after FIN.             *)
PhasesAt(p, s) ==
  /\ Early(s) => /\ down[s] = <<>>
                 /\ snd[p].stream = s /\ snd[p].pc \in {"init", "accept"} \cup Returned
                 /\ rcv[s].pc # "init" \/ up[s] # <<>> => snd[p].pc # "init"
  /\ Late(s) => snd[p].stream = s /\ snd[p].pc \in {"done", "ok", "failed"}

Phases == \A p \in Senders, s \in Streams : PhasesAt(p, s)

(* An INIT without offset and a Create meet no part file.                  *)
FirstFile ==
  /\ \A p \in Senders : /\ snd[p].pc = "ack" => snd[p].seq > 0
                        /\ snd[p].pc \in {"open", "init"} /\ snd[p].seq = 0 => tmp = None
  /\ \A s \in Streams : /\ rcv[s].pc = "init" /\ up[s] # <<>> /\ Head(up[s]).n = 0 => tmp = None
                        /\ rcv[s].pc = "create" => tmp = None

Whole(i) == \A p \in Senders : data[i] = File(Content[p])
Clean(i) == \A p \in Senders : \A k \in 1..Len(data[i]) : data[i][k] = <<Content[p], k - 1>>

(* No session writes past the end of its file; a file that was verified    *)
(* and one that was saved are whole.                                       *)
Files ==
  /\ tmp # None => tmp # final
  /\ \A s \in Streams : rcv[s].pc \in {"accept", "loop"} => rcv[s].pos <= Len(data[rcv[s].ino])
  /\ \A s \in Streams : rcv[s].pc = "rename" => tmp = None \/ Whole(tmp)
  /\ final # None => Whole(final)

(* Nobody reports success before a file is saved.                          *)
Saved ==
  final = None =>
    /\ \A s \in Streams : /\ rcv[s].state # "done" /\ rcv[s].pc # "finish"
                          /\ \A i \in 1..Len(down[s]) : down[s][i].t # "DONE"
    /\ waiter.sid \in Streams => waiter.pc # "ok"
    /\ \A p \in Senders : snd[p].pc # "ok"

(* Without torn writes the part file holds nothing but chunks in place.    *)
Pure ==
  ~TornWrites =>
    /\ tmp # None => Clean(tmp)
    /\ \A s \in Streams : rcv[s].pc \in {"accept", "loop"} => Clean(rcv[s].ino)

(* The disk, the sessions and the reports agree at every step of the call, *)
(* its resumes, faults and restarts of the receiver (relayfile.go:196-422).*)
DiskInv == Phases /\ FirstFile /\ Files /\ Saved /\ Pure

(* Both sides return (SendFile, handleStream): every call of SendFile and   *)
(* every handler of a stream, through faults and a restart.                *)
CallsReturn == SendReturns /\ HandlersReturn

=============================================================================
