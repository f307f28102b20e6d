----------------------------- MODULE TurnServer -----------------------------
(***************************************************************************)
(* A TURN relay of the pool, turnServer of p2put/turnpool.go: runLoop,     *)
(* which connects, checks and shuts down, the acceptProc it starts for     *)
(* every allocation, which may itself reallocate, and the TurnPeer         *)
(* (turnpeer.go) that exercises the relayed address.  runLoop and          *)
(* acceptProc share the struct's channels, client, allocation and peer;    *)
(* closing a channel twice or using a client that is gone ends the         *)
(* program.                                                                *)
(***************************************************************************)
EXTENDS Naturals

CONSTANTS
  MaxGen,       \* bound on connections and allocations
  MaxTurnFaults \* bound on failures of the TURN server and the network

VARIABLES
  ts,       \* the struct, and runLoop
  acc,      \* acc[k]: the acceptProc of allocation k
  turn,     \* what is open or closed: clients, allocations, channels
  peer,     \* peer[k]: a TurnPeer
  turnFaults,
  turnCrash  \* a panic ended the program

turnVars == <<ts, acc, turn, peer, turnFaults, turnCrash>>

Gens == 1..MaxGen
NoAcc == [pc |-> "off", stop |-> 0, rec |-> 0, client |-> 0, new |-> 0, old |-> 0]

TurnInit ==
  /\ ts = [run |-> "connect", first |-> TRUE, after |-> "top", state |-> "disconnected",
           stopped |-> FALSE, stun |-> 0, alloc |-> 0, client |-> 0, peer |-> 0, waits |-> 0,
           stopCh |-> 0, rec |-> 0, gen |-> 0]
  /\ acc = [k \in Gens |-> NoAcc]
  /\ turn = [clients |-> {}, allocs |-> {}, stops |-> {}, recs |-> {}]
  /\ peer = [k \in Gens |-> "none"]
  /\ turnFaults = 0
  /\ turnCrash = FALSE

TurnFault == turnFaults < MaxTurnFaults /\ turnFaults' = turnFaults + 1
Works(c) == c \in turn.clients

(* A step that panics stops the program.                                   *)
Panic == turnCrash' = TRUE /\ UNCHANGED <<ts, acc, turn, peer, turnFaults>>

-----------------------------------------------------------------------------
(* connect().  Its generation names its client, allocation and channels.   *)
Connect ==
  /\ ts.run = "connect" /\ ts.gen < MaxGen
  /\ ts' = [ts EXCEPT !.run = "dial", !.state = "connecting", !.gen = @ + 1,
                      !.stopCh = ts.gen + 1, !.rec = ts.gen + 1]
  /\ UNCHANGED <<acc, turn, peer, turnFaults, turnCrash>>

Failed == IF ts.first THEN "top" ELSE "wait"

(* The dial is given up at once when the server is stopped; the state then *)
(* stays connecting.                                                       *)
TurnDialFails ==
  /\ ts.run = "dial"
  /\ \/ TurnFault /\ ts' = [ts EXCEPT !.run = Failed, !.state = "disconnected"]
     \/ ts.stopped /\ ts' = [ts EXCEPT !.run = Failed] /\ UNCHANGED turnFaults
  /\ UNCHANGED <<acc, turn, peer, turnCrash>>

(* Dial, client, listen and allocate; acceptProc takes the channels that   *)
(* are in the struct when it starts.  The state is alive before the        *)
(* binding request is answered.                                            *)
Allocated ==
  LET k == ts.rec IN
  /\ ts.run = "dial"
  /\ ts' = [ts EXCEPT !.run = "bind", !.state = "alive", !.client = k, !.alloc = k, !.stun = 0]
  /\ turn' = [turn EXCEPT !.clients = @ \cup {k}, !.allocs = @ \cup {k}]
  /\ acc' = [acc EXCEPT ![k] = [NoAcc EXCEPT !.pc = "loop", !.stop = ts.stopCh, !.rec = k]]
  /\ UNCHANGED <<peer, turnFaults, turnCrash>>

BindingFails ==
  /\ ts.run = "bind" /\ TurnFault
  /\ ts' = [ts EXCEPT !.run = Failed, !.state = "disconnected", !.client = 0, !.alloc = 0]
  /\ turn' = [turn EXCEPT !.clients = @ \ {ts.rec}, !.allocs = @ \ {ts.rec}]
  /\ UNCHANGED <<acc, peer, turnCrash>>

(* A peer is made for the address of the allocation, exchanges its mapped  *)
(* address, and is started.  One that has no address panics at its first   *)
(* ping.                                                                   *)
Made(p) == [peer EXCEPT ![p] = IF ts.alloc = 0 THEN "made nowhere" ELSE "made"]

Bound ==
  /\ ts.run = "bind"
  /\ ts' = [ts EXCEPT !.run = "peer", !.peer = ts.rec]
  /\ peer' = Made(ts.rec)
  /\ UNCHANGED <<acc, turn, turnFaults, turnCrash>>

(* Start of a peer that was stopped runs its loop once.                    *)
Started(p) ==
  [peer EXCEPT ![p] = CASE @ = "made" -> "runs" [] @ = "made nowhere" -> "doomed"
                        [] @ \in {"runs", "doomed"} -> @ [] OTHER -> "stopping"]

(* ts.peer is read again: a reallocate may have put another one there.     *)
StartPeer ==
  /\ ts.run = "peer"
  /\ peer' = Started(ts.peer)
  /\ ts' = [ts EXCEPT !.run = IF ts.first \/ ts.state = "alive" THEN "top" ELSE "wait",
                      !.first = FALSE]
  /\ UNCHANGED <<acc, turn, turnFaults, turnCrash>>

(* connectWithBackoff between two attempts, with no shutdown in between.   *)
(* The back-off lasts a second or more: a stop ends it first.              *)
TurnBackOff ==
  /\ ts.run = "wait"
  /\ \/ ~ts.stopped /\ ts' = [ts EXCEPT !.run = "connect"]
     \/ ts.stopped /\ ts' = [ts EXCEPT !.run = "top"]
  /\ UNCHANGED <<acc, turn, peer, turnFaults, turnCrash>>

-----------------------------------------------------------------------------
(* runLoop and shutdown().  Stop of a peer closes its channel and waits    *)
(* for its loop.                                                           *)
Stoppable(p) == peer[p] \in {"made", "made nowhere", "runs", "doomed"}
Stopped(p) == [peer EXCEPT ![p] = CASE @ \in {"made", "made nowhere"} -> "unstarted"
                                    [] @ = "doomed" -> "doomed stopping" [] OTHER -> "stopping"]
PeerDone(p) == peer[p] \in {"ended", "unstarted"}

Shutdown(after) ==
  \/ /\ ts.peer = 0
     /\ ts' = [ts EXCEPT !.run = "close", !.after = after, !.state = "disconnected"]
     /\ UNCHANGED <<acc, turn, peer, turnFaults, turnCrash>>
  \/ /\ ts.peer # 0 /\ Stoppable(ts.peer)
     /\ peer' = Stopped(ts.peer)
     /\ ts' = [ts EXCEPT !.run = "await", !.waits = ts.peer, !.after = after, !.state = "disconnected"]
     /\ UNCHANGED <<acc, turn, turnFaults, turnCrash>>
  \/ ts.peer # 0 /\ ~Stoppable(ts.peer) /\ Panic

AwaitPeer ==
  /\ ts.run = "await" /\ PeerDone(ts.waits)
  /\ ts' = [ts EXCEPT !.run = "close", !.peer = 0, !.waits = 0]
  /\ UNCHANGED <<acc, turn, peer, turnFaults, turnCrash>>

CloseAll ==
  /\ ts.run = "close"
  /\ turn' = [turn EXCEPT !.stops = @ \cup {ts.stopCh}, !.clients = @ \ {ts.client},
                          !.allocs = @ \ {ts.alloc}]
  /\ ts' = [ts EXCEPT !.client = 0, !.alloc = 0, !.first = FALSE, !.after = "top",
                      !.run = IF ts.after = "retry" THEN (IF ts.stopped THEN "returned" ELSE "connect")
                              ELSE ts.after]
  /\ UNCHANGED <<acc, peer, turnFaults, turnCrash>>

(* The state is looked at before the select, not while it waits.           *)
TurnTop ==
  /\ ts.run = "top"
  /\ \/ ts.state # "alive" /\ Shutdown("retry")
     \/ /\ ts.state = "alive"
        /\ ts' = [ts EXCEPT !.run = "select"]
        /\ UNCHANGED <<acc, turn, peer, turnFaults, turnCrash>>

TurnSelect ==
  /\ ts.run = "select"
  /\ \/ ts.stopped /\ Shutdown("returned")
     \/ ts.rec \in turn.recs /\ Shutdown("top")

(* Mutant: the loop goes back to waiting without looking at the state.     *)
StunTickStays ==
  /\ ts.run = "select"
  /\ \/ ts.client = 0 /\ Panic
     \/ /\ ts.client # 0 /\ ts' = [ts EXCEPT !.stun = 0]
        /\ UNCHANGED <<acc, turn, peer, turnFaults, turnCrash>>

(* stunCtrlKeepMappedPort: two failures in a row give the server up, and   *)
(* count as one fault.                                                     *)
StunTick ==
  /\ ts.run = "select"
  /\ \/ ts.client = 0 /\ Panic
     \/ /\ ts.client # 0
        /\ \/ ts' = [ts EXCEPT !.run = "top", !.stun = 0] /\ UNCHANGED turnFaults
           \/ /\ turnFaults < MaxTurnFaults
              /\ turnFaults' = turnFaults + ts.stun
              /\ ts' = [ts EXCEPT !.run = "top", !.stun = @ + 1,
                                  !.state = IF ts.stun + 1 >= 2 THEN "disconnected" ELSE @]
        /\ UNCHANGED <<acc, turn, peer, turnCrash>>

-----------------------------------------------------------------------------
(* acceptProc.  An error of the allocation either gives the server up or   *)
(* asks for a new allocation; time-outs, connections and other errors      *)
(* change nothing.                                                         *)
LeaveAccept(k) == [acc EXCEPT ![k] = [NoAcc EXCEPT !.pc = "done"]]

AcceptEnds(k) ==
  /\ acc[k].pc = "loop"
  /\ acc[k].stop \in turn.stops \/ ts.alloc = 0
  /\ acc' = LeaveAccept(k)
  /\ UNCHANGED <<ts, turn, peer, turnFaults, turnCrash>>

Accepting(k) == acc[k].pc = "loop" /\ acc[k].stop \notin turn.stops /\ ts.alloc \in turn.allocs

AcceptFatal(k) ==
  /\ Accepting(k) /\ turnFaults < MaxTurnFaults
  /\ \/ acc[k].rec \in turn.recs /\ Panic
     \/ /\ acc[k].rec \notin turn.recs /\ TurnFault
        /\ ts' = [ts EXCEPT !.state = "disconnected"]
        /\ turn' = [turn EXCEPT !.recs = @ \cup {acc[k].rec}]
        /\ acc' = LeaveAccept(k)
        /\ UNCHANGED <<peer, turnCrash>>

(* reallocate(), called by acceptProc when the allocation was reset.       *)
Reallocate(k) ==
  /\ Accepting(k) /\ TurnFault
  /\ \/ ts.client = 0 /\ acc' = LeaveAccept(k) /\ UNCHANGED <<ts, turn>>
     \/ /\ ts.client # 0
        /\ turn' = [turn EXCEPT !.allocs = @ \ {ts.alloc}]
        /\ ts' = [ts EXCEPT !.state = "allocating"]
        /\ acc' = [acc EXCEPT ![k].pc = "alloc", ![k].client = ts.client, ![k].rec = ts.rec]
  /\ UNCHANGED <<peer, turnCrash>>

Refused(c) ==
  \/ Works(c) /\ TurnFault
  \/ ~Works(c) /\ UNCHANGED turnFaults

(* The failure is noted, then the allocation in the struct is forgotten,   *)
(* whoever made it, then runLoop is woken through the channel of before.   *)
AllocateFails(k) ==
  /\ acc[k].pc = "alloc" /\ Refused(acc[k].client)
  /\ ts' = [ts EXCEPT !.state = "disconnected"]
  /\ acc' = [acc EXCEPT ![k].pc = "forget"]
  /\ UNCHANGED <<turn, peer, turnCrash>>

Forget(k) ==
  /\ acc[k].pc = "forget"
  /\ ts' = [ts EXCEPT !.alloc = 0]
  /\ acc' = [acc EXCEPT ![k].pc = "wake"]
  /\ UNCHANGED <<turn, peer, turnFaults, turnCrash>>

Wake(k) ==
  /\ acc[k].pc = "wake"
  /\ \/ ts.stopCh \notin turn.stops /\ acc[k].rec \in turn.recs /\ Panic
     \/ /\ ts.stopCh \in turn.stops \/ acc[k].rec \notin turn.recs
        /\ turn' = [turn EXCEPT !.recs = @ \cup (IF ts.stopCh \in turn.stops THEN {} ELSE {acc[k].rec})]
        /\ acc' = LeaveAccept(k)
        /\ UNCHANGED <<ts, peer, turnFaults, turnCrash>>

(* A new allocation comes with a new stop channel and acceptProc.  The old *)
(* channel is looked at before it is closed, as in shutdown: both may find *)
(* it open.                                                                *)
AllocateWorks(k) ==
  LET n == ts.gen + 1 IN
  /\ acc[k].pc = "alloc" /\ Works(acc[k].client) /\ ts.gen < MaxGen
  /\ \/ ts.run = "close" /\ ts.stopCh \notin turn.stops /\ Panic
     \/ /\ turn' = [turn EXCEPT !.stops = @ \cup {ts.stopCh}, !.allocs = @ \cup {n}]
        /\ ts' = [ts EXCEPT !.gen = n, !.stopCh = n, !.alloc = n, !.stun = 0]
        /\ acc' = [acc EXCEPT ![k].pc = "bind", ![k].new = n,
                              ![n] = [NoAcc EXCEPT !.pc = "loop", !.stop = n, !.rec = ts.rec]]
        /\ UNCHANGED <<peer, turnFaults, turnCrash>>

(* A failed binding request does not wake runLoop: it sees the state at    *)
(* its next tick (turnpool.go:551).                                        *)
ReBindFails(k) ==
  /\ acc[k].pc = "bind" /\ Refused(acc[k].client)
  /\ ts' = [ts EXCEPT !.state = "disconnected"]
  /\ acc' = LeaveAccept(k)
  /\ UNCHANGED <<turn, peer, turnCrash>>

(* The address of ts.conn is asked for without looking, and ts.peer may be *)
(* in shutdown's hands already.                                            *)
ReBound(k) ==
  /\ acc[k].pc = "bind" /\ Works(acc[k].client)
  /\ \/ ts.client = 0 /\ Panic
     \/ ts.client # 0 /\ ts.peer # 0 /\ ~Stoppable(ts.peer) /\ Panic
     \/ /\ ts.client # 0 /\ ts.peer # 0 /\ Stoppable(ts.peer)
        /\ peer' = Stopped(ts.peer)
        /\ acc' = [acc EXCEPT ![k].pc = "await", ![k].old = ts.peer]
        /\ UNCHANGED <<ts, turn, turnFaults, turnCrash>>
     \/ /\ ts.client # 0 /\ ts.peer = 0
        /\ acc' = [acc EXCEPT ![k].pc = "make"]
        /\ UNCHANGED <<ts, turn, peer, turnFaults, turnCrash>>

ReAwait(k) ==
  /\ acc[k].pc = "await" /\ PeerDone(acc[k].old)
  /\ acc' = [acc EXCEPT ![k].pc = "make"]
  /\ UNCHANGED <<ts, turn, peer, turnFaults, turnCrash>>

ReMake(k) ==
  /\ acc[k].pc = "make"
  /\ ts' = [ts EXCEPT !.peer = acc[k].new]
  /\ peer' = Made(acc[k].new)
  /\ acc' = [acc EXCEPT ![k].pc = "start"]
  /\ UNCHANGED <<turn, turnFaults, turnCrash>>

(* ts.peer is read again: shutdown may have set it to nil.                 *)
ReStart(k) ==
  /\ acc[k].pc = "start"
  /\ \/ ts.peer = 0 /\ Panic
     \/ /\ ts.peer # 0
        /\ peer' = Started(ts.peer)
        /\ acc' = [acc EXCEPT ![k].pc = "permit"]
        /\ UNCHANGED <<ts, turn, turnFaults, turnCrash>>

RePermit(k) ==
  /\ acc[k].pc = "permit"
  /\ \/ ts.client = 0 /\ Panic
     \/ /\ ts.client # 0
        /\ acc' = [acc EXCEPT ![k].pc = "alive"]
        /\ UNCHANGED <<ts, turn, peer, turnFaults, turnCrash>>

ReAlive(k) ==
  /\ acc[k].pc = "alive"
  /\ ts' = [ts EXCEPT !.state = "alive"]
  /\ acc' = LeaveAccept(k)
  /\ UNCHANGED <<turn, peer, turnFaults, turnCrash>>

-----------------------------------------------------------------------------
(* The loop of a peer ends once its stop channel is closed: everything it  *)
(* waits for has a deadline.                                               *)
PeerEnds(p) ==
  \/ /\ peer[p] = "stopping"
     /\ peer' = [peer EXCEPT ![p] = "ended"]
     /\ UNCHANGED <<ts, acc, turn, turnFaults, turnCrash>>
  \/ peer[p] \in {"doomed", "doomed stopping"} /\ Panic

StopTurn ==
  /\ ~ts.stopped
  /\ ts' = [ts EXCEPT !.stopped = TRUE]
  /\ UNCHANGED <<acc, turn, peer, turnFaults, turnCrash>>

TurnRun ==
  \/ Connect \/ TurnDialFails \/ Allocated \/ BindingFails \/ Bound \/ StartPeer
  \/ TurnBackOff \/ AwaitPeer \/ CloseAll \/ TurnTop \/ TurnSelect

AcceptProc(k) ==
  \/ AcceptEnds(k) \/ AllocateFails(k) \/ Forget(k) \/ Wake(k) \/ AllocateWorks(k)
  \/ ReBindFails(k) \/ ReBound(k) \/ ReAwait(k) \/ ReMake(k) \/ ReStart(k)
  \/ RePermit(k) \/ ReAlive(k)

TurnNext ==
  /\ ~turnCrash
  /\ \/ TurnRun \/ StunTick \/ StopTurn
     \/ \E k \in Gens : AcceptProc(k) \/ AcceptFatal(k) \/ Reallocate(k) \/ PeerEnds(k)

TurnSpec == TurnInit /\ [][TurnNext]_turnVars

-----------------------------------------------------------------------------
(* The relay serves: the struct's allocation is open and accepted on.      *)
TurnServing ==
  /\ ts.state = "alive" /\ ts.client \in turn.clients /\ ts.alloc \in turn.allocs
  /\ \E k \in Gens : acc[k].pc = "loop" /\ acc[k].stop \notin turn.stops

(* A server that is not alive becomes alive again, whoever noticed the     *)
(* failure, runLoop or acceptProc, and wherever the other one is, unless   *)
(* it is stopped or a panic ends the program.                              *)
TurnRevives == ts.state # "alive" ~> (ts.state = "alive" \/ ts.stopped \/ turnCrash)

(* stop() ends runLoop with its client closed, wherever acceptProc is.     *)
TurnStops == ts.stopped ~> (turnCrash \/ (ts.run = "returned" /\ ts.client = 0))

(* A TURN server (runLoop, acceptProc, reallocate): it revives, and a stop *)
(* ends it.                                                                *)
TurnLive == TurnRevives /\ TurnStops

(* Two statements the code does not keep.  The relay serves again and      *)
(* again: a reallocate that fails after runLoop has reconnected takes the  *)
(* new allocation out of the struct, and the state stays alive             *)
(* (turnpool.go:520).  The program goes on: a reallocate and a shutdown    *)
(* use the same peer and the same channels.                                *)
TurnServes == []<>(ts.stopped \/ turnCrash \/ TurnServing)

NoTurnPanic == ~turnCrash

=============================================================================
