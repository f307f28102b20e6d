-------------------------------- MODULE SofTun --------------------------------
(***************************************************************************)
(* TCP connections of the user space IP device of softun/: SYNs arrive     *)
(* from peers (handleInboundTCP) or from the node itself (hairpin), and    *)
(* the loopback port map listens for them.                                 *)
(* The TCP stack (vclient) is outside: it answers a SYN to a port with a   *)
(* listener by a SYN-ACK, which passes routeWrite before Send returns.     *)
(***************************************************************************)
EXTENDS Naturals, FiniteSets

CONSTANTS
  Ports,       \* local ports
  Conns,       \* connections being opened
  PortOf,      \* PortOf[c]: the local port of a connection
  Handlers,    \* goroutines that bring a SYN
  MaxSyns      \* bound on SYNs and on what applications do

ASSUME SoftAssumption == PortOf \in [Conns -> Ports] /\ "none" \notin Conns

VARIABLES
  lpm,      \* lpmEnabled, lpmListeners and the ports whose entry is idle
  owner,    \* owner[p]: who listens on p in the stack
  service,  \* ports with a service on the loopback interface
  synPend,  \* synPend, and the entries older than synTTL
  syn,      \* syn[h]: a SYN being handled
  stack,    \* stack[c]: whether the stack has accepted a connection,
            \* whether a RST was sent for it afterwards
  synOps

softVars == <<lpm, owner, service, synPend, syn, stack, synOps>>

NoSyn == [pc |-> "idle", c |-> "none"]

SoftInit ==
  /\ lpm = [enabled |-> FALSE, map |-> {}, idle |-> {}]
  /\ owner = [p \in Ports |-> "none"]
  /\ service = {}
  /\ synPend = [keys |-> {}, old |-> {}]
  /\ syn = [h \in Handlers |-> NoSyn]
  /\ stack = [c \in Conns |-> [open |-> FALSE, rst |-> FALSE]]
  /\ synOps = 0

SoftOp == synOps < MaxSyns /\ synOps' = synOps + 1

-----------------------------------------------------------------------------
(* EnableLoPortMap and DisableLoPortMap.                                   *)
SetLoPortMap ==
  /\ \/ lpm' = [lpm EXCEPT !.enabled = TRUE] /\ UNCHANGED owner
     \/ /\ lpm' = [enabled |-> FALSE, map |-> {}, idle |-> {}]
        /\ owner' = [p \in Ports |-> IF p \in lpm.map THEN "none" ELSE owner[p]]
  /\ UNCHANGED <<service, synPend, syn, stack, synOps>>

(* reapLoPortMap.                                                          *)
ReapLoPortMap ==
  /\ lpm.idle # {}
  /\ lpm' = [lpm EXCEPT !.map = @ \ lpm.idle, !.idle = {}]
  /\ owner' = [p \in Ports |-> IF p \in lpm.idle THEN "none" ELSE owner[p]]
  /\ UNCHANGED <<service, synPend, syn, stack, synOps>>

(* lpmTTL passes without a SYN for p, synTTL with c pending.               *)
SoftAges ==
  /\ \/ \E p \in lpm.map : lpm' = [lpm EXCEPT !.idle = @ \cup {p}] /\ UNCHANGED synPend
     \/ \E c \in synPend.keys : synPend' = [synPend EXCEPT !.old = @ \cup {c}] /\ UNCHANGED lpm
  /\ UNCHANGED <<owner, service, syn, stack, synOps>>

(* ensureLoPortMapPort, under lpmMu: the probe needs a service, Listen     *)
(* fails on a port an application owns.                                    *)
Mapped(p) == lpm.enabled /\ p \in service /\ owner[p] = "none"
EnsurePort(h) ==
  LET p == PortOf[syn[h].c] IN
  /\ syn[h].pc = "ensure"
  /\ IF lpm.enabled /\ p \in lpm.map
     THEN lpm' = [lpm EXCEPT !.idle = @ \ {p}] /\ UNCHANGED owner
     ELSE /\ lpm' = IF Mapped(p) THEN [lpm EXCEPT !.map = @ \cup {p}] ELSE lpm
          /\ owner' = IF Mapped(p) THEN [owner EXCEPT ![p] = "lpm"] ELSE owner
  /\ syn' = [syn EXCEPT ![h].pc = "mark"]
  /\ UNCHANGED <<service, synPend, stack, synOps>>

(* An application listens or stops, a loopback service comes and goes.     *)
Applications ==
  /\ SoftOp
  /\ \E p \in Ports :
       \/ /\ owner[p] \in {"none", "app"}
          /\ owner' = [owner EXCEPT ![p] = IF @ = "none" THEN "app" ELSE "none"]
          /\ UNCHANGED service
       \/ /\ service' = IF p \in service THEN service \ {p} ELSE service \cup {p}
          /\ UNCHANGED owner
  /\ UNCHANGED <<lpm, synPend, syn, stack>>

-----------------------------------------------------------------------------
(* handleInboundTCP and hairpin: a SYN of connection c.                    *)
SynArrives(h, c) ==
  /\ syn[h].pc = "idle" /\ SoftOp
  /\ syn' = [syn EXCEPT ![h] = [pc |-> "ensure", c |-> c]]
  /\ UNCHANGED <<lpm, owner, service, synPend, stack>>

SetSynPending(h) ==
  /\ syn[h].pc = "mark"
  /\ synPend' = [keys |-> synPend.keys \cup {syn[h].c}, old |-> synPend.old \ {syn[h].c}]
  /\ syn' = [syn EXCEPT ![h].pc = "send"]
  /\ UNCHANGED <<lpm, owner, service, stack, synOps>>

Take(c) == [keys |-> synPend.keys \ {c}, old |-> synPend.old \ {c}]

(* softTun.Send.  A listener accepts and its SYN-ACK clears the marker in  *)
(* routeWrite; a SYN to a port without a listener, with the backlog full   *)
(* or for a connection already open goes without an answer.                *)
SendSyn(h) ==
  LET c == syn[h].c IN
  /\ syn[h].pc = "send"
  /\ \/ /\ owner[PortOf[c]] # "none" \/ stack[c].open
        /\ stack' = [stack EXCEPT ![c].open = TRUE]
        /\ synPend' = Take(c)
     \/ UNCHANGED <<stack, synPend>>
  /\ syn' = [syn EXCEPT ![h].pc = "take"]
  /\ UNCHANGED <<lpm, owner, service, synOps>>

\* Mutant: a connection that is open meanwhile is left alone, with its marker.
TakeUnlessOpen(h) ==
  LET c == syn[h].c IN
  /\ syn[h].pc = "take"
  /\ synPend' = IF stack[c].open THEN synPend ELSE Take(c)
  /\ syn' = [syn EXCEPT ![h] = NoSyn]
  /\ UNCHANGED <<lpm, owner, service, stack, synOps>>

(* takeSynPending: a marker still there is answered by a RST; what is kept *)
(* of it is whether it hit a connection the stack had accepted.            *)
TakeSynPending(h) ==
  LET c == syn[h].c IN
  /\ syn[h].pc = "take"
  /\ stack' = [stack EXCEPT ![c].rst = @ \/ (stack[c].open /\ c \in synPend.keys)]
  /\ synPend' = Take(c)
  /\ syn' = [syn EXCEPT ![h] = NoSyn]
  /\ UNCHANGED <<lpm, owner, service, synOps>>

ReapSynPending ==
  /\ synPend.old # {}
  /\ synPend' = [keys |-> synPend.keys \ synPend.old, old |-> {}]
  /\ UNCHANGED <<lpm, owner, service, syn, stack, synOps>>

SoftNext ==
  \/ SetLoPortMap \/ ReapLoPortMap \/ SoftAges \/ Applications \/ ReapSynPending
  \/ \E h \in Handlers : \/ \E c \in Conns : SynArrives(h, c)
                         \/ EnsurePort(h) \/ SetSynPending(h) \/ SendSyn(h) \/ TakeSynPending(h)

SoftSpec == SoftInit /\ [][SoftNext]_softVars

-----------------------------------------------------------------------------
(* A marker never outlives its SYN (setSynPending, takeSynPending): every  *)
(* key of synPend belongs to a SYN some goroutine is still handling,       *)
(* whatever the stack answers, the reaper takes and other SYNs of the      *)
(* connection do, so that no later SYN is judged by an older marker.       *)
NoStaleMarker ==
  \A c \in synPend.keys : \E h \in Handlers : syn[h].c = c /\ syn[h].pc \in {"send", "take"}

(* What the comment of handleInboundTCP says (softun_tcp.go:139): a marker *)
(* still pending means that the port is closed, so a RST is never sent for *)
(* a connection the stack has accepted.  The code does not keep it: a      *)
(* second SYN sets the marker again between the SYN-ACK and the first      *)
(* one's takeSynPending.                                                   *)
PendingMeansRefused == \A c \in Conns : ~stack[c].rst

=============================================================================
