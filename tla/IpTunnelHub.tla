----------------------------- MODULE IpTunnelHub -----------------------------
(***************************************************************************)
(* The hubs of iptunnel/hub.go on two nodes.  A node keeps one hub for its *)
(* peer; the hub has a list of carriers, streams opened by either side.    *)
(* Writers send packets through any live carrier and open a stream when    *)
(* there is none; a pump per carrier notices that its stream is lost; a    *)
(* stream opened by the peer is attached when it arrives; idle hubs are    *)
(* dropped by the reaper.  Packets themselves carry no state here.         *)
(***************************************************************************)
EXTENDS Integers, FiniteSets

CONSTANTS
  Nodes,       \* the two nodes
  Streams,     \* stream slots; a slot is reused once neither side holds it
  Hubs,        \* identities of tunnelHub objects, per node
  Writers,     \* WriteToPeer calls
  Openers,     \* goroutines that detach may start
  Home,        \* Home[p]: the node of a writer or opener
  None,
  MaxRetries,  \* attempts of one write (48 in the code)
  MaxFaults,   \* bound on reset or rejected streams, lost connections
  Reaping      \* TRUE: hubs may become idle and be reaped

Procs == Writers \cup Openers

ASSUME IpTunnelHubAssumption ==
  /\ MaxRetries \in Nat \ {0} /\ MaxFaults \in Nat
  /\ Reaping \in BOOLEAN
  /\ Home \in [Procs -> Nodes]
  /\ Writers \cap Openers = {}
  /\ None \notin Nodes \cup Streams \cup Hubs
  /\ \A n \in Nodes : \E m \in Nodes \ {n} : Nodes = {n, m}

VARIABLES
  dialer,   \* dialer[s]: the node that opened s
  broken,   \* s was reset or its connection lost
  car,      \* car[n][s]: the carrier of node n for s
  hubOf,    \* hubOf[n]: the hub in the hubs map of n
  opening,  \* opening[n][h]: the field opening of hub h
  used,     \* used[n][h]: lastUse is less than hubIdle ago
  proc,     \* proc[p]: a writer or opener goroutine
  faults

vars == <<dialer, broken, car, hubOf, opening, used, proc, faults>>

Other(n) == CHOOSE m \in Nodes : m # n

NoCarrier == [st |-> "none", hub |-> None, listed |-> FALSE, dead |-> FALSE]
Resting(pc) == [pc |-> pc, hub |-> None, tries |-> 0, left |-> {}, stream |-> None]

Listed(n, h) == {s \in Streams : car[n][s].hub = h /\ car[n][s].listed}
Live(n, h) == {s \in Listed(n, h) : ~car[n][s].dead}
SameDirection(n, s, t) == (dialer[s] = n) <=> (dialer[t] = n)

Gone(n, s) == broken[s] \/ car[Other(n)][s].st = "none"

FreeSlot(s) ==
  /\ \A n \in Nodes : car[n][s].st = "none"
  /\ \A p \in Procs : s \notin proc[p].left
FreeHub(n, h) ==
  /\ hubOf[n] # h
  /\ \A s \in Streams : car[n][s].hub # h
  /\ \A p \in Procs : Home[p] = n => proc[p].hub # h

-----------------------------------------------------------------------------
(* hubFor, then rest for the hub found or created; lastUse of a new hub is *)
(* the zero time.                                                          *)
HubFor(n, h) ==
  IF hubOf[n] # None
  THEN h = hubOf[n] /\ UNCHANGED <<hubOf, opening, used>>
  ELSE /\ FreeHub(n, h)
       /\ hubOf' = [hubOf EXCEPT ![n] = h]
       /\ opening' = [opening EXCEPT ![n][h] = FALSE]
       /\ used' = [used EXCEPT ![n][h] = FALSE]

(* attach: live carriers of the same direction leave the list, marked dead *)
(* but not closed; the new one is listed and its pump starts.              *)
(* MUTANT: the streams of the old carriers are closed at once.             *)
AttachClosing(n, s) ==
  [t \in Streams |->
     IF t = s THEN [car[n][s] EXCEPT !.st = "run", !.listed = TRUE]
     ELSE IF t \in Live(n, car[n][s].hub) /\ SameDirection(n, s, t) THEN NoCarrier
     ELSE car[n][t]]

AttachTo(n, s) ==
  [t \in Streams |->
     IF t = s THEN [car[n][s] EXCEPT !.st = "run", !.listed = TRUE]
     ELSE IF t \in Live(n, car[n][s].hub) /\ SameDirection(n, s, t)
          THEN [car[n][t] EXCEPT !.dead = TRUE, !.listed = FALSE]
     ELSE car[n][t]]

Attach(n, s) ==
  /\ car' = [car EXCEPT ![n] = AttachTo(n, s)]
  /\ used' = [used EXCEPT ![n][car[n][s].hub] = TRUE]

-----------------------------------------------------------------------------
(* openPeerStreamSync, called by a writer or run by an opener goroutine.   *)

(* OpenStream returns a stream, whose handler starts on the other side, or *)
(* an error.                                                               *)
OpenStream(p) ==
  LET n == Home[p] IN
  /\ proc[p].pc = "open"
  /\ \/ \E s \in Streams :
          /\ FreeSlot(s)
          /\ dialer' = [dialer EXCEPT ![s] = n]
          /\ broken' = [broken EXCEPT ![s] = FALSE]
          /\ car' = [car EXCEPT
               ![n][s] = [NoCarrier EXCEPT !.st = "attach", !.hub = proc[p].hub],
               ![Other(n)][s] = [NoCarrier EXCEPT !.st = "incoming"]]
          /\ proc' = [proc EXCEPT ![p].pc = "attach", ![p].stream = s]
     \/ /\ proc' = [proc EXCEPT ![p].pc = "reset"]
        /\ UNCHANGED <<dialer, broken, car>>
  /\ UNCHANGED <<hubOf, opening, used, faults>>

AttachDialed(p) ==
  /\ proc[p].pc = "attach"
  /\ Attach(Home[p], proc[p].stream)
  /\ proc' = [proc EXCEPT ![p].pc = "reset", ![p].stream = None]
  /\ UNCHANGED <<dialer, broken, hubOf, opening, faults>>

(* The deferred reset of opening; a writer goes on with its next attempt.  *)
(* MUTANT: opening is reset only when a stream was attached.               *)
KeepOpening(p) ==
  /\ proc[p].pc = "reset"
  /\ opening' = IF Live(Home[p], proc[p].hub) = {} THEN opening
                ELSE [opening EXCEPT ![Home[p]][proc[p].hub] = FALSE]
  /\ proc' = [proc EXCEPT ![p] = IF p \in Writers THEN [@ EXCEPT !.pc = "retry"]
                                 ELSE Resting("idle")]
  /\ UNCHANGED <<dialer, broken, car, hubOf, used, faults>>

ResetOpening(p) ==
  /\ proc[p].pc = "reset"
  /\ opening' = [opening EXCEPT ![Home[p]][proc[p].hub] = FALSE]
  /\ proc' = [proc EXCEPT ![p] = IF p \in Writers THEN [@ EXCEPT !.pc = "retry"]
                                 ELSE Resting("idle")]
  /\ UNCHANGED <<dialer, broken, car, hubOf, used, faults>>

-----------------------------------------------------------------------------
(* WriteToPeer.                                                            *)

WriteToPeer(p) ==
  /\ p \in Writers /\ proc[p].pc = "call"
  /\ \E h \in Hubs : /\ HubFor(Home[p], h)
                     /\ proc' = [proc EXCEPT ![p].pc = "retry", ![p].hub = h]
  /\ UNCHANGED <<dialer, broken, car, faults>>

(* The head of the retry loop: give up, or take the live carriers.         *)
(* MUTANT: attempts are not counted.                                       *)
RetryForever(p) ==
  LET n == Home[p]
      h == proc[p].hub IN
  /\ proc[p].pc = "retry"
  /\ used' = [used EXCEPT ![n][h] = TRUE]
  /\ proc' = [proc EXCEPT ![p].left = Live(n, h),
                          ![p].pc = IF Live(n, h) = {} THEN "check" ELSE "try"]
  /\ UNCHANGED <<dialer, broken, car, hubOf, opening, faults>>

Retry(p) ==
  LET n == Home[p]
      h == proc[p].hub
      tries == proc[p].tries + 1 IN
  /\ proc[p].pc = "retry"
  /\ IF tries > MaxRetries
     THEN proc' = [proc EXCEPT ![p] = Resting("failed")] /\ UNCHANGED used
     ELSE /\ used' = [used EXCEPT ![n][h] = TRUE]
          /\ proc' = [proc EXCEPT ![p].tries = tries, ![p].left = Live(n, h),
                                  ![p].pc = IF Live(n, h) = {} THEN "check" ELSE "try"]
  /\ UNCHANGED <<dialer, broken, car, hubOf, opening, faults>>

(* A carrier of the list is tried, in either order.  A write fails when    *)
(* the stream is gone, and may succeed until the loss is noticed.          *)
WriteMsg(p) ==
  LET n == Home[p] IN
  /\ proc[p].pc = "try"
  /\ \E s \in proc[p].left :
       \/ /\ car[n][s].st # "none"
          /\ proc' = [proc EXCEPT ![p] = Resting("ok")]
          /\ UNCHANGED car
       \/ /\ Gone(n, s) \/ car[n][s].st = "none"
          /\ car' = [car EXCEPT ![n][s].dead = car[n][s].st # "none"]
          /\ proc' = [proc EXCEPT ![p].left = @ \ {s},
                                  ![p].pc = IF proc[p].left = {s} THEN "check" ELSE "try"]
  /\ UNCHANGED <<dialer, broken, hubOf, opening, used, faults>>

(* maybeOpenLocked without the lock: opening is read in one step and set   *)
(* in another.                                                             *)
CheckOpening(p) ==
  /\ proc[p].pc = "check"
  /\ proc' = [proc EXCEPT ![p].pc = IF opening[Home[p]][proc[p].hub] THEN "retry" ELSE "set"]
  /\ UNCHANGED <<dialer, broken, car, hubOf, opening, used, faults>>

SetOpening(p) ==
  /\ proc[p].pc = "set"
  /\ opening' = [opening EXCEPT ![Home[p]][proc[p].hub] = TRUE]
  /\ proc' = [proc EXCEPT ![p].pc = "open"]
  /\ UNCHANGED <<dialer, broken, car, hubOf, used, faults>>

-----------------------------------------------------------------------------
(* handleStream on the other side: ShouldReject and Reset, or hubFor and   *)
(* then attach.                                                            *)
Reject(n, s) ==
  /\ car[n][s].st = "incoming"
  /\ faults > 0 /\ faults' = faults - 1
  /\ broken' = [broken EXCEPT ![s] = TRUE]
  /\ car' = [car EXCEPT ![n][s] = NoCarrier]
  /\ UNCHANGED <<dialer, hubOf, opening, used, proc>>

HandleStream(n, s) ==
  /\ car[n][s].st = "incoming"
  /\ \E h \in Hubs : /\ HubFor(n, h)
                     /\ car' = [car EXCEPT ![n][s].st = "accepted", ![n][s].hub = h]
  /\ UNCHANGED <<dialer, broken, proc, faults>>

AttachIncoming(n, s) ==
  /\ car[n][s].st = "accepted"
  /\ Attach(n, s)
  /\ UNCHANGED <<dialer, broken, hubOf, opening, proc, faults>>

(* The pump's read fails and detach marks the carrier dead ...             *)
PumpEnds(n, s) ==
  /\ car[n][s].st = "run"
  /\ Gone(n, s)
  /\ car' = [car EXCEPT ![n][s].st = "lost", ![n][s].dead = TRUE]
  /\ UNCHANGED <<dialer, broken, hubOf, opening, used, proc, faults>>

(* ... removes it and, if it was still listed, has a stream opened unless  *)
(* one is being opened; then the stream is closed.                         *)
Detach(n, s) ==
  LET h == car[n][s].hub IN
  /\ car[n][s].st = "lost"
  /\ car' = [car EXCEPT ![n][s] = NoCarrier]
  /\ IF car[n][s].listed /\ ~opening[n][h]
     THEN /\ opening' = [opening EXCEPT ![n][h] = TRUE]
          /\ \E g \in Openers :
               /\ Home[g] = n /\ proc[g].pc = "idle"
               /\ proc' = [proc EXCEPT ![g] = [@ EXCEPT !.pc = "open", !.hub = h]]
     ELSE UNCHANGED <<opening, proc>>
  /\ UNCHANGED <<dialer, broken, hubOf, used, faults>>

(* One stream is reset, or the connection is lost with all of them.        *)
Break ==
  /\ faults > 0 /\ faults' = faults - 1
  /\ \E S \in {{s} : s \in Streams} \cup {Streams} :
       /\ \E s \in S : ~FreeSlot(s) /\ ~broken[s]
       /\ broken' = [s \in Streams |-> broken[s] \/ s \in S]
  /\ UNCHANGED <<dialer, car, hubOf, opening, used, proc>>

-----------------------------------------------------------------------------
(* hubIdle passes without use; a writer in its retry loop uses the hub     *)
(* every 1.2 seconds, unless it waits in OpenStream.                       *)
BecomesIdle(n, h) ==
  /\ Reaping /\ used[n][h]
  /\ \A p \in Procs : Home[p] = n /\ proc[p].hub = h => proc[p].pc = "open"
  /\ used' = [used EXCEPT ![n][h] = FALSE]
  /\ UNCHANGED <<dialer, broken, car, hubOf, opening, proc, faults>>

Reap(n) ==
  LET h == hubOf[n] IN
  /\ Reaping /\ h # None
  /\ Live(n, h) = {} /\ ~opening[n][h] /\ ~used[n][h]
  /\ hubOf' = [hubOf EXCEPT ![n] = None]
  /\ UNCHANGED <<dialer, broken, car, opening, used, proc, faults>>

-----------------------------------------------------------------------------
Init ==
  /\ dialer = [s \in Streams |-> None]
  /\ broken = [s \in Streams |-> FALSE]
  /\ car = [n \in Nodes |-> [s \in Streams |-> NoCarrier]]
  /\ hubOf = [n \in Nodes |-> None]
  /\ opening = [n \in Nodes |-> [h \in Hubs |-> FALSE]]
  /\ used = [n \in Nodes |-> [h \in Hubs |-> FALSE]]
  /\ proc = [p \in Procs |-> Resting(IF p \in Writers THEN "call" ELSE "idle")]
  /\ faults = MaxFaults

Run(p) ==
  \/ WriteToPeer(p) \/ Retry(p) \/ WriteMsg(p) \/ CheckOpening(p) \/ SetOpening(p)
  \/ OpenStream(p) \/ AttachDialed(p) \/ ResetOpening(p)

Serve(n, s) == HandleStream(n, s) \/ AttachIncoming(n, s) \/ PumpEnds(n, s) \/ Detach(n, s)

(* Every write returned and no stream change is left to notice.            *)
Settled ==
  /\ \A p \in Procs : proc[p].pc \in {"idle", "ok", "failed"}
  /\ \A n \in Nodes, s \in Streams :
       car[n][s].st = "none" \/ (car[n][s].st = "run" /\ ~Gone(n, s))

Quiet == Settled /\ UNCHANGED vars

Next ==
  \/ \E p \in Procs : Run(p)
  \/ \E n \in Nodes, s \in Streams : Serve(n, s)
  \/ \E n \in Nodes, s \in Streams : Reject(n, s)
  \/ Break
  \/ \E n \in Nodes, h \in Hubs : BecomesIdle(n, h)
  \/ \E n \in Nodes : Reap(n)
  \/ Quiet

Spec == Init /\ [][Next]_vars

(* Goroutines that can run do.                                             *)
FairSpec ==
  /\ Spec
  /\ \A p \in Procs : WF_vars(Run(p))
  /\ \A n \in Nodes, s \in Streams : WF_vars(Serve(n, s))

-----------------------------------------------------------------------------
(* Every variable keeps its type; a write is never past its last attempt.  *)
TypeOK ==
  /\ dialer \in [Streams -> Nodes \cup {None}]
  /\ broken \in [Streams -> BOOLEAN]
  /\ car \in [Nodes -> [Streams ->
       [st : {"none", "incoming", "accepted", "attach", "run", "lost"},
        hub : Hubs \cup {None}, listed : BOOLEAN, dead : BOOLEAN]]]
  /\ hubOf \in [Nodes -> Hubs \cup {None}]
  /\ opening \in [Nodes -> [Hubs -> BOOLEAN]]
  /\ used \in [Nodes -> [Hubs -> BOOLEAN]]
  /\ proc \in [Procs ->
       [pc : {"call", "retry", "try", "check", "set", "open", "attach", "reset",
              "idle", "ok", "failed"},
        hub : Hubs \cup {None}, tries : 0..MaxRetries,
        left : SUBSET Streams, stream : Streams \cup {None}]]
  /\ faults \in 0..MaxFaults

(* The rule attach keeps: however attaches, failed writes and detaches     *)
(* interleave, the list of a hub never holds two live carriers of one      *)
(* direction, and every carrier it holds has a pump that will detach it.   *)
OneLivePerDirection ==
  \A n \in Nodes, h \in Hubs :
    /\ \A s, t \in Live(n, h) : s # t => ~SameDirection(n, s, t)
    /\ \A s \in Listed(n, h) : car[n][s].st \in {"run", "lost"}

(* The flag opening is never left set by a call of openPeerStreamSync that *)
(* has returned: a hub whose flag is stuck would never reconnect.          *)
OpeningHasOpener ==
  \A n \in Nodes, h \in Hubs :
    opening[n][h] => \E p \in Procs : /\ Home[p] = n /\ proc[p].hub = h
                                      /\ proc[p].pc \in {"open", "attach", "reset"}

(* Reconnecting settles: two hubs that replace each other's streams stop   *)
(* opening new ones once streams are no longer lost.                       *)
Stabilises ==
  <>[](\A p \in Procs : proc[p].pc \notin {"open", "attach", "reset"})

(* write returns, after at most MaxRetries attempts.                       *)
WriteReturns ==
  \A p \in Writers : <>(proc[p].pc \in {"ok", "failed"})

(* What the field's comment says of opening, that it prevents concurrent   *)
(* reconnects: no two goroutines of a hub are in OpenStream.  The code     *)
(* does not keep it, and no run checks it (see the README).                *)
OneOpening ==
  \A p, q \in Procs :
    p # q /\ Home[p] = Home[q] /\ proc[p].hub = proc[q].hub
      => ~(proc[p].pc = "open" /\ proc[q].pc = "open")

(* What the design says of a replaced carrier: its stream is closed by its *)
(* own pump, so none is left open when nothing more is to happen.          *)
ReplacedIsClosed ==
  Settled => \A n \in Nodes, s \in Streams : car[n][s].st = "run" => ~car[n][s].dead

(* What the comment of hubFor says: the hub in the map owns the streams to *)
(* the peer.  The code does not keep it, and no run checks it (see the     *)
(* README).                                                                *)
HubOwnsStreams ==
  \A n \in Nodes, s \in Streams :
    car[n][s].listed /\ ~car[n][s].dead => car[n][s].hub = hubOf[n]

(* What the design says of a write: it uses outbound carriers only.  The   *)
(* code does not, and no run checks it (see the README).                   *)
WritesOutbound ==
  \A p \in Writers, s \in Streams : s \in proc[p].left => dialer[s] = Home[p]

(* The list of a hub and its opening flag are consistent (attach, detach,   *)
(* openStream): one live carrier per direction, and opening is set only    *)
(* while a goroutine opens a stream.                                       *)
HubConsistent == TypeOK /\ OneLivePerDirection /\ OpeningHasOpener

=============================================================================
